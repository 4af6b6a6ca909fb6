----------------------------- MODULE SortedSet -----------------------------
(***************************************************************************)
(* What the sorted-set commands promise                                    *)
(* (src/src/sorted_set/sorted_set_engine.hpp): a score for each member,    *)
(* and the members in the order of their scores, equal scores in the order *)
(* of the members.  An absent key answers like an empty set.               *)
(***************************************************************************)
EXTENDS Integers, FiniteSets

CONSTANTS Member, Score, Bound, None

VARIABLES score,    \* the score of each member, or None
          asked,    \* the command being served, or None
          reply     \* its answer, or None

vars == <<score, asked, reply>>

Request ==
       [op : {"zadd"}, member : Member, score : Score]
  \cup [op : {"zrem", "zscore", "zrank"}, member : Member]
  \cup [op : {"zcard"}]
  \cup [op : {"zrange"}, start : Bound, stop : Bound]
  \cup [op : {"zrangebyscore"}, min : Score, max : Score]

Present == {m \in Member : score[m] # None}

Rank(m) == Cardinality({n \in Present : \/ score[n] < score[m]
                                        \/ score[n] = score[m] /\ n < m})

\* The pairs whose ranks run from first to last.
Ranked(first, last) ==
  [k \in 1 .. last - first + 1 |->
     LET m == CHOOSE x \in Present : Rank(x) = first + k - 1 IN <<score[m], m>>]

Least(a, b) == IF a < b THEN a ELSE b

Init == score = [m \in Member |-> None] /\ asked = None /\ reply = None

Ask(c) == /\ asked = None /\ asked' = c
          /\ UNCHANGED <<score, reply>>

ZAdd == /\ asked.op = "zadd"
        /\ score' = [score EXCEPT ![asked.member] = asked.score]
        /\ reply' = IF asked.member \in Present THEN 0 ELSE 1

ZRem == /\ asked.op = "zrem"
        /\ score' = [score EXCEPT ![asked.member] = None]
        /\ reply' = IF asked.member \in Present THEN 1 ELSE 0

Query ==
  /\ UNCHANGED score
  /\ \/ asked.op = "zscore" /\ reply' = score[asked.member]
     \/ /\ asked.op = "zrank"
        /\ reply' = IF asked.member \in Present THEN Rank(asked.member) ELSE -1
     \/ asked.op = "zcard" /\ reply' = Cardinality(Present)
     \/ /\ asked.op = "zrange"
        /\ reply' = Ranked(IF asked.start < 0 THEN 0 ELSE asked.start,
                           Least(asked.stop, Cardinality(Present) - 1))
     \/ /\ asked.op = "zrangebyscore"
        /\ reply' = Ranked(Cardinality({m \in Present : score[m] < asked.min}),
                           Cardinality({m \in Present : score[m] <= asked.max}) - 1)

Answer == /\ asked # None /\ reply = None
          /\ ZAdd \/ ZRem \/ Query
          /\ UNCHANGED asked

Done == /\ asked # None /\ asked' = None /\ reply' = None
        /\ UNCHANGED score

Next == (\E c \in Request : Ask(c)) \/ Answer \/ Done

Spec == Init /\ [][Next]_vars
=============================================================================
