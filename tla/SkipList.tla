------------------------------ MODULE SkipList ------------------------------
(***************************************************************************)
(* The skip list (src/src/index/skiplist.{hpp,cpp}) under the commands of  *)
(* one sorted set (src/src/sorted_set/sorted_set_engine.cpp): linked nodes *)
(* of random height, a table member_scores_ kept next to them, and size_   *)
(* and level_.  A step is one iteration of a search or of a walk along the *)
(* bottom list.  sets_ is left out: a key that is not there answers like   *)
(* an empty list.  Scores are numbers (not NaN) and members are numbered   *)
(* from 1 in the order of std::string.                                     *)
(***************************************************************************)
EXTENDS Integers, Sequences, FiniteSetsExt

CONSTANTS Member, Score,
          Bound,       \* start and stop of ZRANGE
          MaxLevel,    \* SKIP_MAX_LEVEL
          Cell,        \* memory of the nodes (SlabAllocator)
          Nil, None

HeadNode == 0              \* head_
Level == 1 .. MaxLevel \* index into forward[], counted from 1

ASSUME SkipListAssumption ==
  /\ Member \subseteq Nat \ {0} /\ Score \subseteq Int /\ Bound \subseteq Int
  /\ MaxLevel \in Nat \ {0}
  /\ Cell \subseteq Nat \ {0} /\ Nil \notin Cell \cup {HeadNode} /\ None \notin Int
  /\ IsFiniteSet(Member) /\ IsFiniteSet(Cell)
  /\ Cardinality(Member) <= Cardinality(Cell)       \* memory does not run out

VARIABLES
  entry,         \* per cell: <<score, member>>, or <<>> when it is free
  forward,       \* forward[] of every node
  level, size,   \* level_, size_
  memberScores,  \* member_scores_
  asked, reply,  \* the command being served and its answer, or None
  pc,            \* "idle", "asked", "search", "found", "walk" or "replied"
  goal,          \* the pair a search looks for
  cur, i,        \* the search's or the walk's position
  update,        \* update[]: where the search left each level, Nil if unset
  moving,        \* the score insert is about to give up, or None
  out            \* the vector a walk collects

list == <<entry, forward, level, size, memberScores>>
vars == <<list, asked, reply, pc, goal, cur, i, update, moving, out>>

NoLinks == [k \in Level |-> Nil]

Used == {c \in Cell : entry[c] # <<>>}

\* The set as commands see it; a member that insert is moving shows its old
\* score until the new node is linked in.
SetScore ==
  [m \in Member |->
     LET its == {c \in Used : entry[c][2] = m} IN
     IF its # {} THEN entry[CHOOSE c \in its : TRUE][1]
     ELSE IF asked # None /\ asked.op = "zadd" /\ asked.member = m THEN moving ELSE None]

Abstract == INSTANCE SortedSet WITH score <- SetScore

\* The mark for "no command" is no command.
ASSUME NoneAssumption == None \notin Abstract!Request

Init == /\ entry = [c \in Cell |-> <<>>]
        /\ forward = [c \in Cell \cup {HeadNode} |-> NoLinks]
        /\ level = 1 /\ size = 0
        /\ memberScores = [m \in Member |-> None]
        /\ asked = None /\ reply = None /\ pc = "idle"
        /\ goal = <<>> /\ cur = HeadNode /\ i = 1 /\ update = NoLinks
        /\ moving = None /\ out = <<>>

Return(r) == /\ reply' = r /\ pc' = "replied"
             /\ goal' = <<>> /\ cur' = HeadNode /\ i' = 1 /\ update' = NoLinks
             /\ moving' = None /\ out' = <<>>
             /\ UNCHANGED asked

\* A search from the top level of the list as it is in the state after.
StartSearch(pair) ==
  /\ pc' = "search" /\ goal' = pair
  /\ cur' = HeadNode /\ i' = level' /\ update' = NoLinks
  /\ UNCHANGED <<asked, reply, out>>

\* range_by_rank walks the bottom list with idx in i.
StartWalk == /\ pc' = "walk" /\ cur' = forward[HeadNode][1] /\ i' = 0
             /\ UNCHANGED <<list, asked, reply, goal, update, moving, out>>

-----------------------------------------------------------------------------
(***************************************************************************)
(* The commands, up to their first search or walk.                         *)
(***************************************************************************)
Dispatch(c) == /\ pc = "idle" /\ pc' = "asked" /\ asked' = c
               /\ UNCHANGED <<list, reply, goal, cur, i, update, moving, out>>

Reply == /\ pc = "replied" /\ pc' = "idle" /\ asked' = None /\ reply' = None
         /\ UNCHANGED <<list, goal, cur, i, update, moving, out>>

Is(op) == pc = "asked" /\ asked.op = op

ZAdd == /\ Is("zadd") /\ UNCHANGED <<list, moving>>
        /\ StartSearch(<<asked.score, asked.member>>)

ZRem ==
  /\ Is("zrem") /\ UNCHANGED list
  /\ LET s == memberScores[asked.member] IN
     IF s = None THEN Return(0)
     ELSE StartSearch(<<s, asked.member>>) /\ UNCHANGED moving

ZScore == Is("zscore") /\ Return(memberScores[asked.member]) /\ UNCHANGED list

ZCard == Is("zcard") /\ Return(size) /\ UNCHANGED list

\* range_by_score compares scores alone: no member comes before 0.
ZRangeByScore == /\ Is("zrangebyscore") /\ UNCHANGED <<list, moving>>
                 /\ StartSearch(<<asked.min, 0>>)

ZRange == Is("zrange") /\ StartWalk

ZRank == /\ Is("zrank")
         /\ IF memberScores[asked.member] = None
            THEN Return(-1) /\ UNCHANGED list
            ELSE StartWalk

-----------------------------------------------------------------------------
Before(n) == \/ entry[n][1] < goal[1]
             \/ entry[n][1] = goal[1] /\ entry[n][2] < goal[2]

Search ==
  /\ pc = "search"
  /\ LET n == forward[cur][i] IN
     IF n # Nil /\ Before(n)
     THEN cur' = n /\ UNCHANGED <<i, update, pc>>
     ELSE /\ update' = [update EXCEPT ![i] = cur]
          /\ i' = IF i > 1 THEN i - 1 ELSE 1
          /\ pc' = IF i > 1 THEN "search" ELSE "found"
          /\ UNCHANGED cur
  /\ UNCHANGED <<list, asked, reply, goal, moving, out>>

Target == forward[update[1]][1]

IsThere == Target # Nil /\ entry[Target] = goal

Inserting == pc = "found" /\ asked.op = "zadd" /\ goal = <<asked.score, asked.member>>

\* insert meets the pair itself, or the member under another score, which is
\* removed first.
InsertAgain ==
  /\ Inserting /\ UNCHANGED list
  /\ \/ IsThere /\ Return(0)
     \/ LET old == memberScores[asked.member] IN
        /\ ~IsThere /\ old \notin {None, asked.score}
        /\ moving' = old /\ StartSearch(<<old, asked.member>>)

\* The predecessor of a new node on level k: update[] is set up to level_ only.
From(k) == IF k > level THEN HeadNode ELSE update[k]

\* A node of random height is linked in behind update[].
Insert ==
  /\ Inserting /\ ~IsThere /\ memberScores[asked.member] \in {None, asked.score}
  /\ \E h \in Level :
       LET n == Min({c \in Cell : entry[c] = <<>>}) IN
       /\ entry' = [entry EXCEPT ![n] = goal]
       /\ forward' = [x \in DOMAIN forward |-> [k \in Level |->
            IF x = n /\ k <= h THEN forward[From(k)][k]
            ELSE IF k <= h /\ x = From(k) THEN n ELSE forward[x][k]]]
       /\ level' = Max({level, h})
  /\ memberScores' = [memberScores EXCEPT ![asked.member] = asked.score]
  /\ size' = size + 1
  /\ Return(IF moving = None THEN 1 ELSE 0)

\* Fault: a node is unlinked from the bottom list only.
UnlinkedBottom(k) == k = 1

\* The loop of remove stops at the first level that does not lead to the target.
Unlinked(k) == k <= level /\ \A j \in 1 .. k : forward[update[j]][j] = Target

Shrunk(links) == Max({1} \cup {k \in 1 .. level : links[k] # Nil})

\* remove, called by ZREM or by insert, which then searches again.
Remove ==
  /\ pc = "found" /\ asked.op \in {"zrem", "zadd"} /\ ~Inserting
  /\ IF ~IsThere THEN UNCHANGED list
     ELSE LET t == Target IN
          /\ entry' = [entry EXCEPT ![t] = <<>>]
          /\ forward' = [x \in DOMAIN forward |-> [k \in Level |->
               IF x = t THEN Nil
               ELSE IF Unlinked(k) /\ x = update[k] THEN forward[t][k]
               ELSE forward[x][k]]]
          /\ level' = Shrunk(forward'[HeadNode])
          /\ memberScores' = [memberScores EXCEPT ![asked.member] = None]
          /\ size' = size - 1
  /\ IF asked.op = "zrem" THEN Return(IF IsThere THEN 1 ELSE 0)
     ELSE StartSearch(<<asked.score, asked.member>>) /\ UNCHANGED moving

CollectStart ==
  /\ pc = "found" /\ asked.op = "zrangebyscore"
  /\ pc' = "walk" /\ cur' = Target
  /\ UNCHANGED <<list, asked, reply, goal, i, update, moving, out>>

\* What range_by_rank and range_by_score take; ZRANK asks for all ranks.
Start == IF asked.op = "zrange" THEN asked.start ELSE 0
Stop == IF asked.op = "zrange" THEN asked.stop ELSE size

\* Fault: the upper end of a range of scores does not belong to it.
InRangeOpen == IF asked.op = "zrangebyscore" THEN entry[cur][1] < asked.max
               ELSE i <= Stop
InRange == IF asked.op = "zrangebyscore" THEN entry[cur][1] <= asked.max
           ELSE i <= Stop

Walk ==
  /\ pc = "walk" /\ UNCHANGED list
  /\ IF cur # Nil /\ InRange
     THEN /\ out' = IF asked.op = "zrangebyscore" \/ i >= Start
                    THEN Append(out, entry[cur]) ELSE out
          /\ cur' = forward[cur][1]
          /\ i' = IF asked.op = "zrangebyscore" THEN i ELSE i + 1
          /\ UNCHANGED <<asked, reply, pc, goal, update, moving>>
     ELSE Return(IF asked.op # "zrank" THEN out
                 ELSE Min({k \in DOMAIN out : out[k][2] = asked.member}) - 1)

Next == \/ \E c \in Abstract!Request : Dispatch(c)
        \/ ZAdd \/ ZRem \/ ZScore \/ ZCard \/ ZRange \/ ZRangeByScore \/ ZRank
        \/ Search \/ InsertAgain \/ Insert \/ Remove \/ CollectStart \/ Walk
        \/ Reply

Spec == Init /\ [][Next]_vars
-----------------------------------------------------------------------------
\* The nodes of the list on level k.
On(k) == {c \in Used : \E x \in Used \cup {HeadNode} : forward[x][k] = c}

Less(x, y) == \/ x = HeadNode
              \/ entry[x][1] < entry[y][1]
              \/ entry[x][1] = entry[y][1] /\ entry[x][2] < entry[y][2]

\* Every level leads from head_ in ascending order through its nodes and ends;
\* nodes that are not on it, freed ones included, hold no link.
LevelsSorted ==
  \A k \in Level, x \in Cell \cup {HeadNode} :
    LET after == {y \in On(k) \ {x} : x \in On(k) \cup {HeadNode} /\ Less(x, y)}
    IN IF after = {} THEN forward[x][k] = Nil
       ELSE /\ forward[x][k] \in after
            /\ \A y \in after : forward[x][k] # y => Less(forward[x][k], y)

\* A node of the list on one level is on every level below, and level_ is the
\* highest level in use.
LevelsNested == /\ On(1) = Used
                /\ \A k \in 2 .. MaxLevel : On(k) \subseteq On(k - 1)
                /\ level = Max({1} \cup {k \in Level : On(k) # {}})

\* member_scores_ and size_ tell what is in the list.
TableAgrees == /\ size = Cardinality(Used)
               /\ \A m \in Member :
                    {entry[c] : c \in {d \in Used : entry[d][2] = m}} =
                      IF memberScores[m] = None THEN {} ELSE {<<memberScores[m], m>>}
               /\ \A c, d \in Used : entry[c] = entry[d] => c = d

\* Whatever heights are drawn and whatever members move or go: no level loses
\* its order, keeps a link to a freed node or skips one, and the table agrees
\* with the list (skiplist.cpp:48-124).
ListSound == LevelsSorted /\ LevelsNested /\ TableAgrees

\* Every command answers what a sorted set answers, and changes it as the
\* command says and in one step: searches may run on any level, ranges come in
\* order, ranks count what is before (sorted_set_engine.cpp:21-76).
ImplementsSortedSet == Abstract!Spec
=============================================================================
