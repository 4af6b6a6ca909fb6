--------------------------- MODULE SkipListProofs ---------------------------
(***************************************************************************)
(* The skip list, for any members, scores, heights and memory that does    *)
(* not run out: every level stays sorted and linked, a node is on all the  *)
(* levels below its height, level_ is the greatest, member_scores_ and     *)
(* size_ agree with the list, and commands answer as the sorted set does.  *)
(***************************************************************************)
EXTENDS SkipList, FiniteSetTheorems, TLAPS

Place == Cell \cup {HeadNode}
Pair == Score \X Member

\* The order of the list: by score, then by member.
LessPair(p, q) == p[1] < q[1] \/ (p[1] = q[1] /\ p[2] < q[2])

\* With the entries e, node x comes before the pair p; head_ always does.
Ahead(e, x, p) == x = HeadNode \/ LessPair(e[x], p)

ListOK == /\ entry \in [Cell -> Pair \cup {<<>>}]
          /\ forward \in [Place -> [Level -> Cell \cup {Nil}]]
          /\ level \in Level /\ size \in Int
          /\ memberScores \in [Member -> Score \cup {None}]

Commands == {"zadd", "zrem", "zscore", "zrank", "zcard", "zrange", "zrangebyscore"}

LocalsOK ==
  /\ pc \in {"idle", "asked", "search", "found", "walk", "replied"}
  /\ update \in [Level -> Place \cup {Nil}]
  /\ pc # "idle" => /\ asked.op \in Commands
                    /\ asked.op \in {"zadd", "zrem", "zscore", "zrank"} => asked.member \in Member
                    /\ asked.op = "zadd" => asked.score \in Score
                    /\ asked.op = "zrangebyscore" => asked.min \in Score
  /\ pc \in {"search", "found"} =>
       /\ goal \in Int \X Nat
       /\ asked.op \in {"zadd", "zrem"} => goal \in Pair /\ goal[2] = asked.member

\* The links f lead from head_ through the nodes N in the order of their
\* entries e, and no other node holds a link.
Chain(N, f, e) ==
  /\ \A x \in Cell \ N : f[x] = Nil
  /\ \A x \in N \cup {HeadNode} :
       /\ f[x] = Nil => \A y \in N : ~Ahead(e, x, e[y])
       /\ f[x] # Nil => /\ f[x] \in N /\ Ahead(e, x, e[f[x]])
                        /\ \A y \in N : Ahead(e, x, e[y]) => y = f[x] \/ Ahead(e, f[x], e[y])
  /\ \A y \in N : \E x \in N \cup {HeadNode} : f[x] = y

Links(fwd, k) == [x \in Place |-> fwd[x][k]]

Chained == \A k \in Level : Chain(On(k), Links(forward, k), entry)

\* A node is on every level up to its height, and level_ is the greatest.
Nested == /\ On(1) = Used
          /\ \A j, k \in Level : j <= k => On(k) \subseteq On(j)
          /\ \A k \in Level : k > level => On(k) = {}
          /\ level > 1 => On(level) # {}

\* member_scores_ is the list as a function.
Tabled == /\ size = Cardinality(Used)
          /\ \A c \in Used : memberScores[entry[c][2]] = entry[c][1]
          /\ \A m \in Member : memberScores[m] # None =>
               \E c \in Used : entry[c][2] = m
          /\ \A c, d \in Used : entry[c][2] = entry[d][2] => c = d

\* On level k, x is a node before the goal; it is the last one.
Reached(k, x) == x \in On(k) \cup {HeadNode} /\ Ahead(entry, x, goal)
Stopped(k) == /\ Reached(k, update[k])
              /\ LET n == forward[update[k]][k] IN n # Nil => ~LessPair(entry[n], goal)

\* What a search has established on the levels it has left.
Position == /\ pc = "search" => /\ i \in 1 .. level /\ Reached(i, cur)
                                /\ \A k \in i + 1 .. level : Stopped(k)
            /\ pc = "found" => \A k \in 1 .. level : Stopped(k)

ListInv == ListOK /\ LocalsOK /\ Chained /\ Nested /\ Tabled /\ Position
-----------------------------------------------------------------------------
(***************************************************************************)
(* Finite sets.                                                            *)
(***************************************************************************)
\* Induction over a finite set: a family of its subsets that has the empty one
\* and is closed under adding an element has them all.
LEMMA FiniteInduction ==
  ASSUME NEW S, IsFiniteSet(S), NEW G, {} \in G,
         \A T \in SUBSET S : T \in G => \A x \in S \ T : T \cup {x} \in G
  PROVE  S \in G
<1> DEFINE B == {T \in SUBSET S : T \notin G}
<1> SUFFICES ASSUME B # {} PROVE FALSE
  OBVIOUS
<1>1. IsWellFoundedOn(StrictSubsetOrdering(S), SUBSET S)
  BY FS_StrictSubsetOrderingWellFounded, FS_FiniteSubsetsOfFinite
<1>2. PICK T \in B : \A U \in B : ~(<<U, T>> \in StrictSubsetOrdering(S))
  <2>1. B \subseteq SUBSET S
    OBVIOUS
  <2> HIDE DEF B
  <2> QED BY <1>1, <2>1, WFMin
<1>3. PICK x \in T : TRUE
  OBVIOUS
<1>4. T \ {x} \notin B
  <2>1. T \ {x} \subseteq T /\ T \ {x} # T /\ T \ {x} \in SUBSET S /\ T \in SUBSET S
    BY <1>3
  <2> QED BY <1>2, <2>1 DEF StrictSubsetOrdering
<1>5. (T \ {x}) \cup {x} = T /\ x \in S \ (T \ {x}) /\ T \ {x} \in SUBSET S
  BY <1>3
<1>6. T \ {x} \in G
  BY <1>4, <1>5
<1> QED BY <1>5, <1>6

\* A finite set of numbers has a least and a greatest element.
LEMMA MinMax ==
  ASSUME NEW S, IsFiniteSet(S), S \subseteq Int, S # {}
  PROVE  /\ Min(S) \in S /\ \A y \in S : Min(S) <= y
         /\ Max(S) \in S /\ \A y \in S : Max(S) >= y
<1> DEFINE Bounded(T) == T # {} => /\ \E x \in T : \A y \in T : x <= y
                                   /\ \E x \in T : \A y \in T : x >= y
           G == {T \in SUBSET S : Bounded(T)}
<1>1. {} \in G
  OBVIOUS
<1>2. ASSUME NEW T \in SUBSET S, T \in G, NEW x \in S \ T PROVE T \cup {x} \in G
  <2>1. CASE T = {}
    BY <2>1
  <2>2. CASE T # {}
    <3>1. PICK lo \in T, hi \in T : (\A y \in T : lo <= y) /\ \A y \in T : hi >= y
      BY <1>2, <2>2
    <3>2. \E z \in T \cup {x} : \A y \in T \cup {x} : z <= y
      <4>1. CASE lo <= x
        BY <3>1, <4>1
      <4>2. CASE ~(lo <= x)
        <5>1. \A y \in T \cup {x} : x <= y
          BY <3>1, <4>2
        <5> QED BY <5>1
      <4> QED BY <4>1, <4>2
    <3>3. \E z \in T \cup {x} : \A y \in T \cup {x} : z >= y
      <4>1. CASE hi >= x
        BY <3>1, <4>1
      <4>2. CASE ~(hi >= x)
        <5>1. \A y \in T \cup {x} : x >= y
          BY <3>1, <4>2
        <5> QED BY <5>1
      <4> QED BY <4>1, <4>2
    <3> QED BY <3>2, <3>3
  <2> QED BY <2>1, <2>2
<1>3. S \in G
  <2> HIDE DEF G
  <2> QED BY <1>1, <1>2, FiniteInduction
<1>4. Bounded(S)
  BY <1>3
<1> QED BY <1>4 DEF Min, Max

\* A greatest element is the maximum.
LEMMA MaxIs ==
  ASSUME NEW S, S \subseteq Int, NEW m \in S, \A y \in S : m >= y
  PROVE  Max(S) = m
<1>1. \A x \in S : (\A y \in S : x >= y) => x = m
  OBVIOUS
<1> QED BY <1>1 DEF Max

-----------------------------------------------------------------------------
(***************************************************************************)
(* One level of the list.                                                  *)
(***************************************************************************)
LEMMA Apart == /\ HeadNode \notin Cell /\ Nil \notin Place /\ <<>> \notin Pair
               /\ \A q \in Pair : q \in Int \X Int
               /\ \A c \in Cell : c \in Place /\ c # HeadNode /\ c # Nil
<1>1. HeadNode \notin Cell /\ Nil \notin Cell \cup {HeadNode}
  BY SkipListAssumption DEF HeadNode
<1>2. \A q \in Pair : q \in Int \X Int
  <2>1. Score \subseteq Int /\ Member \subseteq Int
    BY SkipListAssumption
  <2> QED BY <2>1 DEF Pair
<1>3. \A q \in Pair : Len(q) = 2
  BY DEF Pair
<1>4. Len(<<>>) = 0
  OBVIOUS
<1> QED BY <1>1, <1>2, <1>3, <1>4 DEF Place

\* The nodes that are linked to are those of the chain.
LEMMA ChainNodes ==
  ASSUME NEW N, NEW U, NEW f, NEW e, N \subseteq U, U \subseteq Cell, Chain(N, f, e)
  PROVE  {c \in U : \E x \in U \cup {HeadNode} : f[x] = c} = N
<1>1. Nil \notin U
  BY SkipListAssumption
<1>2. ASSUME NEW c \in U, NEW x \in U \cup {HeadNode}, f[x] = c PROVE c \in N
  <2>1. f[x] # Nil
    BY <1>1, <1>2
  <2>2. x \in N \cup {HeadNode}
    BY <2>1 DEF Chain
  <2> QED BY <1>2, <2>1, <2>2 DEF Chain
<1>3. ASSUME NEW c \in N PROVE c \in U /\ \E x \in U \cup {HeadNode} : f[x] = c
  BY DEF Chain
<1> QED BY <1>2, <1>3

\* The order is total and strict.
LEMMA PairOrder ==
  ASSUME NEW p \in Int \X Int, NEW q \in Int \X Int, NEW r \in Int \X Int
  PROVE  /\ ~LessPair(p, p)
         /\ LessPair(p, q) \/ LessPair(q, p) \/ p = q
         /\ LessPair(p, q) => ~LessPair(q, p)
         /\ LessPair(p, q) /\ LessPair(q, r) => LessPair(p, r)
  BY DEF LessPair

\* A node is linked in behind the last one before it.
LEMMA ChainInsert ==
  ASSUME NEW N, NEW f, NEW e, Chain(N, f, e), N \subseteq Cell,
         NEW n \in Cell \ N, NEW p \in N \cup {HeadNode}, NEW d,
         \A x \in N : d[x] = e[x], \A x \in N \cup {n} : d[x] \in Pair,
         Ahead(e, p, d[n]),
         \A x \in N : d[x] # d[n],
         f[p] # Nil => ~LessPair(e[f[p]], d[n]),
         NEW g, \A x \in Place : g[x] = IF x = n THEN f[p] ELSE IF x = p THEN n ELSE f[x]
  PROVE  Chain(N \cup {n}, g, d)
<1> DEFINE M == N \cup {n}
<1>0. /\ n # p /\ g[n] = f[p] /\ g[p] = n /\ HeadNode \notin M /\ n # Nil
      /\ \A x \in Place : x # n /\ x # p => g[x] = f[x]
      /\ \A x \in M : d[x] \in Int \X Int
  <2>1. n \in Place /\ p \in Place /\ n # p /\ HeadNode \notin M /\ n # Nil
    BY Apart DEF Place
  <2>2. \A x \in M : d[x] \in Int \X Int
    BY Apart
  <2> QED BY <2>1, <2>2
<1>1. ASSUME NEW x \in Cell \ M PROVE g[x] = Nil
  <2>1. x # n /\ x # p /\ x \in Cell \ N /\ x \in Place
    BY <1>0, <1>1, Apart
  <2> QED BY <1>0, <2>1 DEF Chain
<1>2. \A x \in N \cup {HeadNode}, y \in N : Ahead(d, x, d[y]) <=> Ahead(e, x, e[y])
  BY DEF Ahead
<1>3. ASSUME NEW x \in M \cup {HeadNode}
      PROVE  /\ g[x] = Nil => \A y \in M : ~Ahead(d, x, d[y])
             /\ g[x] # Nil => /\ g[x] \in M /\ Ahead(d, x, d[g[x]])
                              /\ \A y \in M : Ahead(d, x, d[y]) => y = g[x] \/ Ahead(d, g[x], d[y])
  <2>1. CASE x = n
    BY <1>0, <1>2, <2>1, PairOrder DEF Chain, Ahead
  <2>2. CASE x = p
    BY <1>0, <1>2, <2>2, PairOrder DEF Chain, Ahead
  <2>3. CASE x # n /\ x # p
    <3>0. x \in N \cup {HeadNode} /\ x \in Place /\ g[x] = f[x]
      BY <1>0, <2>3, Apart DEF Place
    <3>1. CASE f[x] = Nil
      <4>1. \A y \in N : ~Ahead(d, x, d[y])
        BY <1>2, <3>0, <3>1 DEF Chain
      <4>2. ~Ahead(d, x, d[n])
        <5>1. CASE p = HeadNode
          <6>1. x # HeadNode /\ x \in N
            BY <2>3, <3>0, <5>1
          <6>2. f[p] # Nil
            BY <5>1, <6>1 DEF Chain, Ahead
          <6> QED BY <1>0, <1>2, <3>0, <4>1, <5>1, <6>1, <6>2, PairOrder DEF Chain, Ahead
        <5>2. CASE p # HeadNode
          BY <1>0, <1>2, <2>3, <3>0, <3>1, <4>1, <5>2, PairOrder DEF Chain, Ahead
        <5> QED BY <5>1, <5>2
      <4> QED BY <3>0, <3>1, <4>1, <4>2
    <3>2. CASE f[x] # Nil
      <4>1. /\ f[x] \in N /\ Ahead(d, x, d[f[x]])
            /\ \A y \in N : Ahead(d, x, d[y]) => y = f[x] \/ Ahead(d, f[x], d[y])
        BY <1>2, <3>0, <3>2 DEF Chain
      <4>2. Ahead(d, x, d[n]) => Ahead(d, f[x], d[n])
        BY <1>0, <1>2, <2>3, <3>0, <3>2, <4>1, PairOrder DEF Chain, Ahead
      <4> QED BY <3>0, <3>2, <4>1, <4>2
    <3> QED BY <3>1, <3>2
  <2> QED BY <2>1, <2>2, <2>3
<1>4. ASSUME NEW y \in M PROVE \E x \in M \cup {HeadNode} : g[x] = y
  <2>1. CASE y = n
    BY <1>0, <2>1
  <2>2. CASE y # n
    <3>1. PICK x \in N \cup {HeadNode} : f[x] = y
      BY <2>2 DEF Chain
    <3>2. x # n /\ x \in Place
      BY <1>0, SkipListAssumption DEF HeadNode, Place
    <3>3. CASE x = p
      BY <1>0, <3>1, <3>3
    <3>4. CASE x # p
      BY <1>0, <3>1, <3>2, <3>4
    <3> QED BY <3>3, <3>4
  <2> QED BY <2>1, <2>2
<1> QED BY <1>1, <1>3, <1>4 DEF Chain

\* A node t is taken out behind p.
Distinct(N, e) == /\ \A x \in N : e[x] \in Pair
                  /\ \A x, y \in N : e[x] = e[y] => x = y
Bypass(f, g, p, t) ==
  /\ f[p] = t
  /\ \A x \in Place : g[x] = IF x = t THEN Nil ELSE IF x = p THEN f[t] ELSE f[x]

\* Bypassing one node leaves a chain of the others.
LEMMA ChainRemove ==
  ASSUME NEW N, NEW f, NEW e, Chain(N, f, e), N \subseteq Cell, Distinct(N, e),
         NEW t \in N, NEW p \in N \cup {HeadNode}, NEW g, Bypass(f, g, p, t),
         NEW d, \A x \in N \ {t} : d[x] = e[x]
  PROVE  Chain(N \ {t}, g, d)
<1> USE DEF Distinct, Bypass
<1> DEFINE M == N \ {t}
<1>0. /\ t # p /\ g[t] = Nil /\ g[p] = f[t] /\ t # HeadNode /\ t # Nil
      /\ \A x \in Place : x # t /\ x # p => g[x] = f[x]
      /\ \A x \in N : e[x] \in Int \X Int
  <2>1. t \in Place /\ p \in Place /\ t # HeadNode /\ t # Nil
    BY Apart DEF Place
  <2>2. \A x \in N : e[x] \in Int \X Int
    BY Apart
  <2>3. t # p
    BY <2>1, <2>2, PairOrder DEF Chain, Ahead
  <2> QED BY <2>1, <2>2, <2>3
<1>1. ASSUME NEW x \in Cell \ M PROVE g[x] = Nil
  BY <1>0, Apart DEF Chain
<1>2. \A x \in M \cup {HeadNode}, y \in M : Ahead(d, x, d[y]) <=> Ahead(e, x, e[y])
  BY DEF Ahead
<1>3. ASSUME NEW x \in M \cup {HeadNode}
      PROVE  /\ g[x] = Nil => \A y \in M : ~Ahead(d, x, d[y])
             /\ g[x] # Nil => /\ g[x] \in M /\ Ahead(d, x, d[g[x]])
                              /\ \A y \in M : Ahead(d, x, d[y]) => y = g[x] \/ Ahead(d, g[x], d[y])
  <2>1. CASE x = p
    BY <1>0, <1>2, <2>1, PairOrder DEF Chain, Ahead
  <2>2. CASE x # p
    <3>0. x \in Place /\ g[x] = f[x] /\ x # t
      BY <1>0, <2>2, Apart DEF Place
    <3>1. f[x] # t
      <4>1. SUFFICES ASSUME f[x] = t PROVE FALSE
        OBVIOUS
      <4>2. Ahead(e, x, e[t]) /\ Ahead(e, p, e[t])
        BY <1>0, <4>1 DEF Chain
      <4>3. CASE p # HeadNode /\ Ahead(e, x, e[p])
        <5>1. p = t \/ Ahead(e, t, e[p])
          BY <1>0, <4>1, <4>3 DEF Chain
        <5> QED BY <1>0, <4>2, <4>3, <5>1, PairOrder DEF Ahead
      <4>4. CASE x # HeadNode /\ Ahead(e, p, e[x])
        <5>1. x = t \/ Ahead(e, t, e[x])
          BY <1>0, <4>4 DEF Chain
        <5> QED BY <1>0, <3>0, <4>2, <4>4, <5>1, PairOrder DEF Ahead
      <4>5. (p # HeadNode /\ Ahead(e, x, e[p])) \/ (x # HeadNode /\ Ahead(e, p, e[x]))
        BY <1>0, <2>2, PairOrder DEF Ahead
      <4> QED BY <4>3, <4>4, <4>5
    <3> QED BY <1>2, <3>0, <3>1 DEF Chain
  <2> QED BY <2>1, <2>2
<1>4. ASSUME NEW y \in M PROVE \E x \in M \cup {HeadNode} : g[x] = y
  <2>1. PICK x \in N \cup {HeadNode} : f[x] = y
    BY DEF Chain
  <2>2. CASE x = t
    BY <1>0, <2>1, <2>2
  <2>3. CASE x # t
    BY <1>0, <2>1, <2>3, Apart DEF Place
  <2> QED BY <2>2, <2>3
<1> QED BY <1>1, <1>3, <1>4 DEF Chain

\* A level that does not change.
LEMMA ChainSame ==
  ASSUME NEW N, NEW f, NEW e, Chain(N, f, e), N \subseteq Cell,
         NEW g, \A x \in Place : g[x] = f[x], NEW d, \A x \in N : d[x] = e[x]
  PROVE  Chain(N, g, d)
<1>1. /\ \A x \in N : x \in Place
      /\ \A x \in N \cup {HeadNode}, y \in N : Ahead(d, x, d[y]) <=> Ahead(e, x, e[y])
  BY Apart DEF Ahead
<1>2. \A x \in Cell \cup {HeadNode} : g[x] = f[x]
  BY DEF Place
<1> QED BY <1>1, <1>2 DEF Chain

-----------------------------------------------------------------------------
(***************************************************************************)
(* Steps that leave the list alone.                                        *)
(***************************************************************************)
ListPart == ListOK /\ Chained /\ Nested /\ Tabled

\* The empty list is in order.
LEMMA ListInvInit == Init => ListInv
<1> SUFFICES ASSUME Init PROVE ListInv
  OBVIOUS
<1>0. 1 \in Level /\ Level \subseteq Int
  BY SkipListAssumption DEF Level
<1>1. Used = {} /\ \A k : On(k) = {}
  BY DEF Init, Used, On
<1>2. ListOK
  BY <1>0 DEF Init, ListOK, NoLinks, Place
<1>3. LocalsOK
  BY DEF Init, LocalsOK, NoLinks
<1>4. ASSUME NEW k \in Level PROVE Chain(On(k), Links(forward, k), entry)
  <2>1. \A x \in Cell \cup {HeadNode} : Links(forward, k)[x] = Nil
    BY DEF Init, Links, NoLinks, Place
  <2> QED BY <1>1, <2>1 DEF Chain
<1>5. Nested
  BY <1>0, <1>1 DEF Init, Nested
<1>6. Tabled
  BY <1>1, FS_EmptySet DEF Init, Tabled
<1>7. Position
  BY DEF Init, Position
<1> QED BY <1>2, <1>3, <1>4, <1>5, <1>6, <1>7 DEF ListInv, Chained

\* A step that leaves cells, links and table alone keeps the list in order.
LEMMA ListSame ==
  ASSUME ListPart, UNCHANGED list
  PROVE  ListPart' /\ Used' = Used /\ (\A k : On(k)' = On(k)) /\ level' = level
<1>1. Used' = Used /\ \A k : On(k)' = On(k)
  BY DEF list, Used, On
<1>2. ListOK' /\ level' = level /\ entry' = entry /\ forward' = forward
      /\ size' = size /\ memberScores' = memberScores
  BY DEF list, ListPart, ListOK
<1>3. Chained'
  BY <1>1, <1>2 DEF ListPart, Chained
<1>4. Nested' /\ Tabled'
  BY <1>1, <1>2 DEF ListPart, Nested, Tabled
<1> QED BY <1>1, <1>2, <1>3, <1>4 DEF ListPart

\* A command that returns keeps its locals well typed and is at no position.
LEMMA ReturnStep ==
  ASSUME LocalsOK, pc # "idle", NEW r, Return(r)
  PROVE  LocalsOK' /\ Position'
<1>1. pc' = "replied" /\ asked' = asked /\ update' = NoLinks
  BY DEF Return
<1>2. update' \in [Level -> Place \cup {Nil}]
  BY <1>1 DEF NoLinks
<1> QED BY <1>1, <1>2 DEF LocalsOK, Position

\* A search starts at the head on the highest level.
LEMMA SearchStart ==
  ASSUME LocalsOK, pc # "idle", level' \in Level, NEW g \in Int \X Nat, StartSearch(g),
         asked.op \in {"zadd", "zrem"} => g \in Pair /\ g[2] = asked.member
  PROVE  LocalsOK' /\ Position'
<1>1. /\ pc' = "search" /\ asked' = asked /\ update' = NoLinks /\ goal' = g
      /\ cur' = HeadNode /\ i' = level'
  BY DEF StartSearch
<1>2. update' \in [Level -> Place \cup {Nil}]
  BY <1>1 DEF NoLinks
<1>3. LocalsOK'
  BY <1>1, <1>2 DEF LocalsOK
<1>4. level' \in Int /\ level' >= 1
  BY SkipListAssumption DEF Level
<1>5. Reached(i, cur)'
  BY <1>1 DEF Reached, Ahead
<1>6. i' \in 1 .. level' /\ \A k \in i' + 1 .. level' : FALSE
  <2>1. \A l \in Int : l >= 1 => l \in 1 .. l /\ \A k \in l + 1 .. l : FALSE
    OBVIOUS
  <2> QED BY <1>1, <1>4, <2>1
<1> QED BY <1>1, <1>3, <1>5, <1>6 DEF Position

\* The pair of a member and a score is something to search for.
LEMMA Goals ==
  /\ \A s \in Score, m \in Member : <<s, m>> \in Pair
  /\ Pair \subseteq Int \X Nat
  /\ \A s \in Score : <<s, 0>> \in Int \X Nat
<1>1. Score \subseteq Int /\ Member \subseteq Nat
  BY SkipListAssumption
<1> QED BY <1>1 DEF Pair

\* One iteration of a search: forward past a smaller node, or one level down.
LEMMA SearchStep ==
  ASSUME ListInv, Search
  PROVE  LocalsOK' /\ Position'
<1> DEFINE n == forward[cur][i]
<1>0. /\ pc = "search" /\ UNCHANGED list /\ UNCHANGED <<asked, goal>>
      /\ LocalsOK /\ i \in 1 .. level /\ Reached(i, cur)
      /\ \A k \in i + 1 .. level : Stopped(k)
      /\ ListPart /\ ListOK /\ Nested /\ Chained
  BY DEF Search, ListInv, Position, ListPart
<1>1. level \in Int /\ level <= MaxLevel /\ MaxLevel \in Int /\ i \in Level /\ i \in Int /\ i >= 1
  BY <1>0, SkipListAssumption DEF ListOK, Level
<1>2. level' = level /\ entry' = entry /\ forward' = forward /\ \A k : On(k)' = On(k)
  BY <1>0, ListSame DEF list
<1>3. cur \in Place /\ On(i) \subseteq Cell
  BY <1>0 DEF Reached, On, Used, Place
<1>4. CASE n # Nil /\ Before(n)
  <2>1. cur' = n /\ UNCHANGED <<i, update, pc>>
    BY <1>4 DEF Search
  <2>2. LocalsOK'
    BY <1>0, <2>1 DEF LocalsOK
  <2>3. n \in On(i)
    <3>1. Chain(On(i), Links(forward, i), entry) /\ Links(forward, i)[cur] = n
      BY <1>0, <1>1, <1>3 DEF Chained, Links
    <3> QED BY <1>0, <1>4, <3>1 DEF Chain, Reached
  <2>4. Reached(i, cur)'
    BY <1>0, <1>2, <1>4, <2>1, <2>3 DEF Reached, Ahead, LessPair, Before
  <2>5. ASSUME NEW k \in i + 1 .. level PROVE Stopped(k)'
    BY <1>0, <1>2, <2>1 DEF Stopped, Reached
  <2> QED BY <1>0, <1>2, <2>1, <2>2, <2>4, <2>5 DEF Position
<1>5. CASE ~(n # Nil /\ Before(n))
  <2>1. /\ update' = [update EXCEPT ![i] = cur] /\ cur' = cur
        /\ i' = IF i > 1 THEN i - 1 ELSE 1
        /\ pc' = IF i > 1 THEN "search" ELSE "found"
    BY <1>5 DEF Search
  <2>2. update' \in [Level -> Place \cup {Nil}] /\ update'[i] = cur
        /\ \A k \in Level : k # i => update'[k] = update[k]
    BY <1>0, <1>1, <1>3, <2>1 DEF LocalsOK
  <2>3. LocalsOK'
    BY <1>0, <2>1, <2>2 DEF LocalsOK
  <2>4. ASSUME NEW k \in i .. level PROVE Stopped(k)'
    <3>0. k \in Level
      BY <1>1 DEF Level
    <3>1. CASE k = i
      BY <1>0, <1>2, <1>5, <2>2, <3>1 DEF Stopped, Reached, Before, LessPair
    <3>2. CASE k # i
      <4>1. k \in i + 1 .. level
        BY <1>1, <3>2
      <4> QED BY <1>0, <1>2, <2>2, <3>0, <3>2, <4>1 DEF Stopped, Reached
    <3> QED BY <3>1, <3>2
  <2>5. CASE i > 1
    <3>1. i' = i - 1 /\ pc' = "search" /\ i - 1 \in Level /\ i - 1 \in 1 .. level
          /\ \A k \in (i - 1) + 1 .. level : k \in i .. level
      BY <1>0, <1>1, <2>1, <2>5 DEF Level
    <3>2. On(i) \subseteq On(i - 1)
      BY <1>0, <1>1, <3>1 DEF Nested
    <3>3. Reached(i, cur)'
      BY <1>0, <1>2, <2>1, <3>1, <3>2 DEF Reached
    <3> QED BY <1>2, <2>3, <2>4, <3>1, <3>3 DEF Position
  <2>6. CASE ~(i > 1)
    BY <1>1, <1>2, <2>1, <2>3, <2>4, <2>6 DEF Position
  <2> QED BY <2>5, <2>6
<1> QED BY <1>4, <1>5

-----------------------------------------------------------------------------
(***************************************************************************)
(* What a finished search has found.                                       *)
(***************************************************************************)
LEMMA Entries ==
  ASSUME ListPart
  PROVE  /\ Used \subseteq Cell /\ IsFiniteSet(Used)
         /\ \A c \in Used : entry[c] \in Pair
         /\ \A k : On(k) \subseteq Used
         /\ \A c, d \in Used : entry[c] = entry[d] => c = d
         /\ \A c \in Cell \ Used : entry[c] = <<>>
<1>1. Used \subseteq Cell /\ \A k : On(k) \subseteq Used
  BY DEF Used, On
<1>2. \A c \in Used : entry[c] \in Pair
  BY DEF Used, ListPart, ListOK
<1>3. IsFiniteSet(Used)
  BY <1>1, FS_Subset, SkipListAssumption
<1> QED BY <1>1, <1>2, <1>3 DEF ListPart, Tabled, Used

\* On every level that has the pair searched for, update[] leads to it.
LEMMA Found ==
  ASSUME ListInv, pc = "found", NEW k \in 1 .. level, NEW c \in On(k), entry[c] = goal
  PROVE  forward[update[k]][k] = c
<1> DEFINE u == update[k]
           f == Links(forward, k)
<1>0. ListPart /\ k \in Level /\ Stopped(k)
  BY SkipListAssumption DEF ListInv, ListPart, Position, ListOK, Level
<1>1. Chain(On(k), f, entry)
  BY <1>0 DEF ListPart, Chained
<1>2. u \in On(k) \cup {HeadNode} /\ Ahead(entry, u, entry[c])
  BY <1>0 DEF Stopped, Reached
<1>3. On(k) \subseteq Cell /\ u \in Place /\ f[u] = forward[u][k]
  BY <1>0, <1>2, Entries DEF Place, Links
<1> HIDE DEF f, u
<1>4. f[u] # Nil /\ (c = f[u] \/ Ahead(entry, f[u], entry[c])) /\ f[u] \in On(k)
  BY <1>1, <1>2 DEF Chain
<1>5. f[u] # HeadNode
  BY <1>3, <1>4, Apart
<1>6. ~LessPair(entry[f[u]], goal)
  BY <1>0, <1>3, <1>4 DEF Stopped, u
<1> QED BY <1>3, <1>4, <1>5, <1>6 DEF Ahead, u

\* A search that has reached the bottom knows whether the node is there.
LEMMA Bottom ==
  ASSUME ListInv, pc = "found"
  PROVE  /\ 1 \in 1 .. level /\ 1 \in Level
         /\ Target # Nil => Target \in Used
         /\ IsThere <=> \E c \in Used : entry[c] = goal
<1>0. ListPart /\ level \in Int /\ level >= 1
  BY SkipListAssumption DEF ListInv, ListPart, ListOK, Level
<1>1. 1 \in 1 .. level /\ 1 \in Level
  BY <1>0, SkipListAssumption DEF Level
<1>2. Stopped(1) /\ On(1) = Used /\ Chain(On(1), Links(forward, 1), entry)
  BY <1>0, <1>1 DEF ListInv, Position, ListPart, Chained, Nested
<1>3. update[1] \in On(1) \cup {HeadNode} /\ update[1] \in Place
  BY <1>0, <1>2, Entries DEF Stopped, Reached, Place
<1>4. Target = Links(forward, 1)[update[1]]
  BY <1>3 DEF Target, Links
<1>5. Target # Nil => Target \in Used
  BY <1>2, <1>3, <1>4 DEF Chain
<1>6. ASSUME NEW c \in Used, entry[c] = goal PROVE Target = c
  BY <1>1, <1>2, <1>6, Found DEF Target
<1>7. \A c \in Used : c # Nil
  BY <1>0, Entries, Apart
<1> QED BY <1>1, <1>5, <1>6, <1>7 DEF IsThere

-----------------------------------------------------------------------------
(***************************************************************************)
(* Linking a node in.                                                      *)
(***************************************************************************)
\* The member has no node, and there is memory for one.
LEMMA Room ==
  ASSUME ListInv, Inserting, ~IsThere, memberScores[asked.member] \in {None, asked.score}
  PROVE  /\ goal \in Pair /\ goal = <<asked.score, asked.member>>
         /\ asked.member \in Member /\ asked.score \in Score
         /\ \A c \in Used : entry[c][2] # asked.member
         /\ LET n == Min({c \in Cell : entry[c] = <<>>}) IN n \in Cell /\ n \notin Used
<1> DEFINE m == asked.member
           Free == {c \in Cell : entry[c] = <<>>}
<1>0. /\ pc = "found" /\ asked.op = "zadd" /\ goal = <<asked.score, asked.member>>
      /\ ListPart /\ LocalsOK
  BY DEF Inserting, ListInv, ListPart
<1>1. m \in Member /\ asked.score \in Score /\ goal \in Pair
  BY <1>0 DEF LocalsOK
<1>2. ASSUME NEW c \in Used, entry[c][2] = m PROVE FALSE
  <2>1. entry[c] \in Pair /\ memberScores[m] = entry[c][1]
    BY <1>0, <1>2, Entries DEF ListPart, Tabled
  <2>2. entry[c][1] \in Score /\ entry[c] = <<entry[c][1], entry[c][2]>>
    BY <2>1 DEF Pair
  <2>3. entry[c][1] # None
    BY <2>2, SkipListAssumption
  <2>4. entry[c] = goal
    BY <1>0, <1>2, <2>1, <2>2, <2>3
  <2> QED BY <1>0, <2>4, Bottom
<1>3. Used # Cell
  <2> DEFINE f == [c \in Used |-> entry[c][2]]
  <2>1. f \in [Used -> Member \ {m}]
    <3>1. \A c \in Used : entry[c][2] \in Member \ {m}
      BY <1>0, <1>2, Entries DEF Pair
    <3> QED BY <3>1
  <2>2. \A c, d \in Used : f[c] = f[d] => c = d
    BY <1>0 DEF ListPart, Tabled
  <2> HIDE DEF f
  <2>3. f \in Injection(Used, Member \ {m})
    BY <2>1, <2>2 DEF Injection, IsInjective
  <2>4. /\ IsFiniteSet(Member \ {m}) /\ Cardinality(Member \ {m}) = Cardinality(Member) - 1
        /\ Cardinality(Member) \in Nat
    BY <1>1, FS_RemoveElement, FS_CardinalityType, SkipListAssumption
  <2>5. Cardinality(Used) <= Cardinality(Member \ {m}) /\ Cardinality(Used) \in Nat
    BY <1>0, <2>3, <2>4, FS_Injection, FS_CardinalityType, Entries
  <2> QED BY <2>4, <2>5, SkipListAssumption
<1>4. Free # {} /\ IsFiniteSet(Free) /\ Free \subseteq Int /\ Free \cap Used = {}
  <2>1. Free = Cell \ Used /\ Used \subseteq Cell
    BY DEF Used
  <2> HIDE DEF Free
  <2>2. Cell \subseteq Int
    BY SkipListAssumption
  <2> QED BY <1>3, <2>1, <2>2, FS_Subset, SkipListAssumption
<1>5. Min(Free) \in Free
  <2> HIDE DEF Free
  <2> QED BY <1>4, MinMax
<1> QED BY <1>0, <1>1, <1>2, <1>4, <1>5

\* Linking a new node of any height on all its levels keeps the list in order.
LEMMA InsertList ==
  ASSUME ListInv, Insert
  PROVE  ListPart'
<1>0. /\ Inserting /\ ~IsThere /\ memberScores[asked.member] \in {None, asked.score}
      /\ memberScores' = [memberScores EXCEPT ![asked.member] = asked.score]
      /\ size' = size + 1 /\ pc = "found"
      /\ ListPart /\ ListOK /\ Chained /\ Nested /\ Tabled
      /\ \A k \in 1 .. level : Stopped(k)
  BY DEF Insert, Inserting, ListInv, ListPart, Position
<1>1. PICK n \in Cell, h \in Level :
        /\ n \notin Used
        /\ entry' = [entry EXCEPT ![n] = goal]
        /\ forward' = [x \in DOMAIN forward |-> [k \in Level |->
             IF x = n /\ k <= h THEN forward[From(k)][k]
             ELSE IF k <= h /\ x = From(k) THEN n ELSE forward[x][k]]]
        /\ level' = Max({level, h})
  BY <1>0, Room DEF Insert
<1>2. /\ goal \in Pair /\ goal = <<asked.score, asked.member>>
      /\ asked.member \in Member /\ asked.score \in Score
      /\ \A c \in Used : entry[c][2] # asked.member
  BY <1>0, Room
<1>3. /\ Used \subseteq Cell /\ IsFiniteSet(Used)
      /\ \A c \in Used : entry[c] \in Pair
      /\ \A k : On(k) \subseteq Used
      /\ \A c, d \in Used : entry[c] = entry[d] => c = d
      /\ \A c \in Cell \ Used : entry[c] = <<>>
  BY <1>0, Entries
<1>4. /\ Level \subseteq Int /\ level \in Level /\ level \in Int /\ level >= 1 /\ h \in Int /\ h >= 1
      /\ 1 \in Level /\ \A k \in Level : k <= level => k \in 1 .. level
      /\ \A k \in Level : k >= 1
  BY <1>0, SkipListAssumption DEF Level, ListOK
<1>5. /\ entry' \in [Cell -> Pair \cup {<<>>}]
      /\ entry'[n] = goal /\ \A c \in Cell : c # n => entry'[c] = entry[c]
  BY <1>0, <1>1, <1>2 DEF ListOK
<1>6. Used' = Used \cup {n}
  BY <1>1, <1>2, <1>5, Apart DEF Used
<1>7. ASSUME NEW k \in Level
      PROVE  From(k) \in On(k) \cup {HeadNode} /\ Ahead(entry, From(k), goal)
             /\ (forward[From(k)][k] # Nil => ~LessPair(entry[forward[From(k)][k]], goal))
  <2>1. CASE k > level
    <3>1. On(k) = {} /\ Chain(On(k), Links(forward, k), entry)
      BY <1>0, <2>1 DEF Nested, Chained
    <3>2. Links(forward, k)[HeadNode] = Nil
      BY <3>1 DEF Chain
    <3>3. forward[HeadNode][k] = Nil
      BY <3>2 DEF Links, Place
    <3> QED BY <2>1, <3>3 DEF From, Ahead
  <2>2. CASE ~(k > level)
    <3>1. Stopped(k)
      BY <1>0, <1>4, <2>2
    <3> QED BY <2>2, <3>1 DEF From, Stopped, Reached
  <2> QED BY <2>1, <2>2
<1>8. ASSUME NEW k \in Level, NEW x \in Place
      PROVE  /\ Links(forward', k)[x] = IF x = n /\ k <= h THEN forward[From(k)][k]
                                        ELSE IF k <= h /\ x = From(k) THEN n ELSE forward[x][k]
             /\ Links(forward, k)[x] = forward[x][k]
  <2>1. DOMAIN forward = Place
    BY <1>0 DEF ListOK
  <2> QED BY <1>1, <2>1 DEF Links
<1>9. forward' \in [Place -> [Level -> Cell \cup {Nil}]]
  <2>1. \A x \in Place, k \in Level : forward[x][k] \in Cell \cup {Nil} /\ From(k) \in Place
    BY <1>0, <1>3, <1>7 DEF ListOK, Place
  <2>2. DOMAIN forward = Place
    BY <1>0 DEF ListOK
  <2> QED BY <1>1, <2>1, <2>2
<1> DEFINE N(k) == IF k <= h THEN On(k) \cup {n} ELSE On(k)
<1>10. ASSUME NEW k \in Level PROVE Chain(N(k), Links(forward', k), entry')
  <2>1. Chain(On(k), Links(forward, k), entry) /\ On(k) \subseteq Cell /\ n \notin On(k)
    BY <1>0, <1>1, <1>3 DEF Chained
  <2>2. \A x \in On(k) : entry'[x] = entry[x] /\ x \in Used
    BY <1>3, <1>5, <2>1
  <2>3. CASE k <= h
    <3>0. PICK p \in On(k) \cup {HeadNode} : p = From(k)
      BY <1>7
    <3>1. p \in Place /\ Links(forward, k)[p] = forward[p][k]
      BY <1>8, <2>1, <3>0 DEF Place
    <3>2. \A x \in Place : Links(forward', k)[x] =
             IF x = n THEN Links(forward, k)[p] ELSE IF x = p THEN n ELSE Links(forward, k)[x]
      BY <1>8, <2>3, <3>0, <3>1
    <3>3. /\ \A x \in On(k) \cup {n} : entry'[x] \in Pair
          /\ \A x \in On(k) : entry'[x] # entry'[n]
      <4>1. \A x \in On(k) : entry'[x] # goal
        BY <1>2, <2>2
      <4> QED BY <1>2, <1>3, <1>5, <2>2, <4>1
    <3>4. /\ Ahead(entry, p, entry'[n])
          /\ Links(forward, k)[p] # Nil => ~LessPair(entry[Links(forward, k)[p]], entry'[n])
      BY <1>5, <1>7, <3>0, <3>1
    <3>5. Chain(On(k) \cup {n}, Links(forward', k), entry')
      <4> DEFINE f == Links(forward, k)
                 g == Links(forward', k)
                 d == entry'
      <4>1. n \in Cell \ On(k) /\ \A x \in On(k) : d[x] = entry[x]
        BY <2>1, <2>2
      <4> HIDE DEF f, g, d
      <4>2. /\ \A x \in On(k) \cup {n} : d[x] \in Pair
            /\ \A x \in On(k) : d[x] # d[n]
        BY <3>3 DEF d
      <4>3. Ahead(entry, p, d[n]) /\ (f[p] # Nil => ~LessPair(entry[f[p]], d[n]))
        BY <3>4 DEF d, f
      <4>4. \A x \in Place : g[x] = IF x = n THEN f[p] ELSE IF x = p THEN n ELSE f[x]
        BY <3>2 DEF f, g
      <4>5. Chain(On(k), f, entry) /\ On(k) \subseteq Cell
        BY <2>1 DEF f
      <4>6. Chain(On(k) \cup {n}, g, d)
        BY <3>0, <4>1, <4>2, <4>3, <4>4, <4>5, ChainInsert
      <4> QED BY <4>6 DEF g, d
    <3> QED BY <2>3, <3>5
  <2>4. CASE ~(k <= h)
    <3>1. \A x \in Place : Links(forward', k)[x] = Links(forward, k)[x]
      BY <1>8, <2>4
    <3>2. Chain(On(k), Links(forward', k), entry')
      BY <2>1, <2>2, <3>1, ChainSame
    <3> QED BY <2>4, <3>2
  <2> QED BY <2>3, <2>4
<1>11. ASSUME NEW k \in Level PROVE On(k)' = N(k)
  <2>1. N(k) \subseteq Used' /\ Used' \subseteq Cell
    BY <1>1, <1>3, <1>6
  <2> HIDE DEF N
  <2>2. {c \in Used' : \E x \in Used' \cup {HeadNode} : Links(forward', k)[x] = c} = N(k)
    BY <1>10, <2>1, ChainNodes
  <2>3. \A x \in Used' \cup {HeadNode} : Links(forward', k)[x] = forward'[x][k]
    BY <2>1 DEF Links, Place
  <2> QED BY <2>2, <2>3 DEF On
<1>12. level' \in Level /\ level' >= level /\ level' >= h /\ level' \in {level, h}
  <2>1. CASE level >= h
    <3>1. Max({level, h}) = level
      BY <1>4, <2>1, MaxIs
    <3> QED BY <1>1, <1>4, <2>1, <3>1
  <2>2. CASE ~(level >= h)
    <3>1. Max({level, h}) = h
      BY <1>4, <2>2, MaxIs
    <3> QED BY <1>1, <1>4, <2>2, <3>1
  <2> QED BY <2>1, <2>2
<1>13. ListOK'
  <2>1. memberScores' \in [Member -> Score \cup {None}] /\ size' \in Int
    BY <1>0, <1>2 DEF ListOK
  <2> QED BY <1>5, <1>9, <1>12, <2>1 DEF ListOK
<1>14. Chained'
  BY <1>10, <1>11 DEF Chained
<1>15. Nested'
  <2>1. On(1)' = Used'
    BY <1>0, <1>4, <1>6, <1>11 DEF Nested
  <2>2. ASSUME NEW j \in Level, NEW k \in Level, j <= k PROVE On(k)' \subseteq On(j)'
    BY <1>0, <1>4, <1>11, <2>2 DEF Nested
  <2>3. ASSUME NEW k \in Level, k > level' PROVE On(k)' = {}
    BY <1>0, <1>4, <1>11, <1>12, <2>3 DEF Nested
  <2>4. (level > 1 => On(level) # {})'
    <3>1. PICK l \in Level : l = level'
      BY <1>12
    <3>2. l <= h => On(l)' # {}
      BY <1>11
    <3>3. ~(l <= h) /\ l > 1 => On(l)' # {}
      <4>1. ~(l <= h) => l = level /\ On(l)' = On(l)
        BY <1>11, <1>12, <3>1
      <4> QED BY <1>0, <4>1 DEF Nested
    <3>4. On(l)' # {} \/ ~(l > 1)
      BY <3>2, <3>3
    <3> QED BY <3>1, <3>4
  <2> QED BY <2>1, <2>2, <2>3, <2>4 DEF Nested
<1>16. Tabled'
  <2>0. /\ memberScores'[asked.member] = asked.score
        /\ \A m \in Member : m # asked.member => memberScores'[m] = memberScores[m]
        /\ goal[1] = asked.score /\ goal[2] = asked.member
    BY <1>0, <1>2 DEF ListOK
  <2>1. size' = Cardinality(Used')
    BY <1>0, <1>1, <1>3, <1>6, FS_AddElement DEF Tabled
  <2>2. ASSUME NEW c \in Used' PROVE memberScores'[entry'[c][2]] = entry'[c][1]
    <3>1. CASE c = n
      BY <1>5, <2>0, <3>1
    <3>2. CASE c # n
      <4>1. c \in Used /\ entry'[c] = entry[c] /\ entry[c][2] \in Member
        BY <1>3, <1>5, <1>6, <3>2 DEF Pair
      <4> QED BY <1>0, <1>2, <2>0, <4>1 DEF Tabled
    <3> QED BY <3>1, <3>2
  <2>3. ASSUME NEW m \in Member, memberScores'[m] # None
        PROVE  \E c \in Used' : entry'[c][2] = m
    <3>1. CASE m = asked.member
      BY <1>5, <1>6, <2>0, <3>1
    <3>2. CASE m # asked.member
      <4>1. PICK c \in Used : entry[c][2] = m
        BY <1>0, <2>0, <2>3, <3>2 DEF Tabled
      <4> QED BY <1>1, <1>3, <1>5, <1>6, <4>1
    <3> QED BY <3>1, <3>2
  <2>4. ASSUME NEW c \in Used', NEW d \in Used', entry'[c][2] = entry'[d][2] PROVE c = d
    <3>1. /\ c # n => c \in Used /\ entry'[c] = entry[c]
          /\ d # n => d \in Used /\ entry'[d] = entry[d]
      BY <1>3, <1>5, <1>6
    <3> QED BY <1>0, <1>2, <1>5, <2>0, <2>4, <3>1 DEF Tabled
  <2> QED BY <2>1, <2>2, <2>3, <2>4 DEF Tabled
<1> QED BY <1>13, <1>14, <1>15, <1>16 DEF ListPart

-----------------------------------------------------------------------------
(***************************************************************************)
(* Taking a node out.                                                      *)
(***************************************************************************)
\* remove reaches the node on exactly the levels it is on.
LEMMA UnlinksAll ==
  ASSUME ListInv, pc = "found", IsThere, NEW k \in Level
  PROVE  Unlinked(k) <=> Target \in On(k)
<1>0. /\ ListPart /\ Nested /\ entry[Target] = goal /\ Target # Nil
      /\ \A j \in 1 .. level : Stopped(j)
  BY DEF ListInv, ListPart, IsThere, Position
<1>1. /\ k \in Int /\ k >= 1 /\ level \in Int /\ level \in Level
      /\ \A j \in 1 .. k : j \in Level /\ j <= k
      /\ k <= level => k \in 1 .. level /\ k \in 1 .. k /\ \A j \in 1 .. k : j \in 1 .. level
  BY <1>0, SkipListAssumption DEF ListPart, ListOK, Level
<1>2. ASSUME Unlinked(k) PROVE Target \in On(k)
  <2>1. k \in 1 .. level /\ forward[update[k]][k] = Target
    BY <1>1, <1>2 DEF Unlinked
  <2>2. update[k] \in On(k) \cup {HeadNode} /\ On(k) \subseteq Used /\ Used \subseteq Cell
    BY <1>0, <2>1, Entries DEF Stopped, Reached
  <2>3. Links(forward, k)[update[k]] = Target
    BY <2>1, <2>2 DEF Links, Place
  <2> QED BY <1>0, <2>2, <2>3 DEF ListPart, Chained, Chain
<1>3. ASSUME Target \in On(k) PROVE Unlinked(k)
  <2>1. k <= level
    BY <1>0, <1>1, <1>3 DEF Nested
  <2>2. ASSUME NEW j \in 1 .. k PROVE forward[update[j]][j] = Target
    <3>1. j \in 1 .. level /\ Target \in On(j)
      BY <1>0, <1>1, <1>3, <2>1 DEF Nested
    <3> QED BY <1>0, <3>1, Found
  <2> QED BY <2>1, <2>2 DEF Unlinked
<1> QED BY <1>2, <1>3

\* Unlinking a node and lowering level_ keeps the list in order.
LEMMA RemoveList ==
  ASSUME ListInv, pc = "found", Remove, IsThere
  PROVE  ListPart'
<1>0. /\ asked.op \in {"zrem", "zadd"} /\ LocalsOK
      /\ ListPart /\ ListOK /\ Chained /\ Nested /\ Tabled
      /\ \A k \in 1 .. level : Stopped(k)
  BY DEF Remove, ListInv, ListPart, Position
<1>1. PICK t \in Used : t = Target
  BY Bottom DEF IsThere
<1>2. /\ entry' = [entry EXCEPT ![t] = <<>>]
      /\ forward' = [x \in DOMAIN forward |-> [k \in Level |->
           IF x = t THEN Nil
           ELSE IF Unlinked(k) /\ x = update[k] THEN forward[t][k]
           ELSE forward[x][k]]]
      /\ level' = Shrunk(forward'[HeadNode])
      /\ memberScores' = [memberScores EXCEPT ![asked.member] = None]
      /\ size' = size - 1
  BY <1>1 DEF Remove
<1>3. /\ Used \subseteq Cell /\ IsFiniteSet(Used)
      /\ \A c \in Used : entry[c] \in Pair
      /\ \A k : On(k) \subseteq Used
      /\ \A c, d \in Used : entry[c] = entry[d] => c = d
      /\ \A c \in Cell \ Used : entry[c] = <<>>
  BY <1>0, Entries
<1>4. entry[t] = goal /\ goal[2] = asked.member /\ asked.member \in Member /\ t \in Cell
  BY <1>0, <1>1, <1>3 DEF IsThere, LocalsOK
<1>5. /\ entry' \in [Cell -> Pair \cup {<<>>}]
      /\ entry'[t] = <<>> /\ \A c \in Cell : c # t => entry'[c] = entry[c]
  BY <1>0, <1>2, <1>4 DEF ListOK
<1>6. Used' = Used \ {t}
  BY <1>4, <1>5 DEF Used
<1>7. \A k \in Level : Unlinked(k) <=> t \in On(k)
  BY <1>1, UnlinksAll
<1>8. ASSUME NEW k \in Level, NEW x \in Place
      PROVE  /\ Links(forward', k)[x] = IF x = t THEN Nil
                                        ELSE IF t \in On(k) /\ x = update[k] THEN forward[t][k]
                                        ELSE forward[x][k]
             /\ Links(forward, k)[x] = forward[x][k] /\ Links(forward', k)[x] = forward'[x][k]
  <2>1. DOMAIN forward = Place
    BY <1>0 DEF ListOK
  <2> QED BY <1>2, <1>7, <2>1 DEF Links
<1>9. forward' \in [Place -> [Level -> Cell \cup {Nil}]]
  <2>1. \A x \in Place, k \in Level : forward[x][k] \in Cell \cup {Nil}
    BY <1>0 DEF ListOK
  <2>2. DOMAIN forward = Place /\ t \in Place
    BY <1>0, <1>4 DEF ListOK, Place
  <2> QED BY <1>2, <2>1, <2>2
<1>10. ASSUME NEW k \in Level PROVE Chain(On(k) \ {t}, Links(forward', k), entry')
  <2> DEFINE f == Links(forward, k)
             g == Links(forward', k)
             d == entry'
  <2>1. Chain(On(k), f, entry) /\ On(k) \subseteq Cell
    BY <1>0, <1>3 DEF Chained
  <2>2. \A x \in On(k) \ {t} : d[x] = entry[x]
    BY <1>5, <2>1
  <2>3. CASE t \in On(k)
    <3>0. k \in 1 .. level
      BY <1>0, <2>3, SkipListAssumption DEF Nested, ListOK, Level
    <3>1. PICK p \in On(k) \cup {HeadNode} : p = update[k]
      BY <1>0, <3>0 DEF Stopped, Reached
    <3>2. f[p] = t /\ f[t] = forward[t][k]
      <4>1. forward[update[k]][k] = t
        BY <1>4, <2>3, <3>0, Found
      <4>2. p \in Place /\ t \in Place
        BY <1>4, <2>1 DEF Place
      <4> QED BY <1>8, <3>1, <4>1, <4>2
    <3>3. \A x \in Place : g[x] = IF x = t THEN Nil ELSE IF x = p THEN f[t] ELSE f[x]
      BY <1>8, <2>3, <3>1, <3>2
    <3>4. /\ \A x \in On(k) : entry[x] \in Pair
          /\ \A x, y \in On(k) : entry[x] = entry[y] => x = y
      BY <1>3
    <3> HIDE DEF f, g, d
    <3>5. Distinct(On(k), entry) /\ Bypass(f, g, p, t)
      BY <3>2, <3>3, <3>4 DEF Distinct, Bypass
    <3>6. Chain(On(k) \ {t}, g, d)
      BY <2>1, <2>2, <2>3, <3>1, <3>5, ChainRemove
    <3> QED BY <3>6 DEF g, d
  <2>4. CASE t \notin On(k)
    <3>1. \A x \in Place : g[x] = f[x]
      <4>1. t \in Place /\ f[t] = Nil
        BY <1>4, <2>1, <2>4 DEF Place, Chain
      <4> QED BY <1>8, <2>4, <4>1
    <3>2. On(k) \ {t} = On(k) /\ \A x \in On(k) : d[x] = entry[x]
      BY <2>2, <2>4
    <3> HIDE DEF f, g, d
    <3>3. Chain(On(k), g, d)
      BY <2>1, <3>1, <3>2, ChainSame
    <3> QED BY <3>2, <3>3 DEF g, d
  <2> QED BY <2>3, <2>4
<1>11. ASSUME NEW k \in Level PROVE On(k)' = On(k) \ {t}
  <2>1. On(k) \ {t} \subseteq Used' /\ Used' \subseteq Cell
    BY <1>3, <1>6
  <2>2. {c \in Used' : \E x \in Used' \cup {HeadNode} : Links(forward', k)[x] = c} = On(k) \ {t}
    BY <1>10, <2>1, ChainNodes
  <2>3. \A x \in Used' \cup {HeadNode} : Links(forward', k)[x] = forward'[x][k]
    BY <2>1 DEF Links, Place
  <2> QED BY <2>2, <2>3 DEF On
<1>12. \A k \in Level : forward'[HeadNode][k] # Nil <=> On(k)' # {}
  <2> SUFFICES ASSUME NEW k \in Level PROVE forward'[HeadNode][k] # Nil <=> On(k)' # {}
    OBVIOUS
  <2>1. Chain(On(k)', Links(forward', k), entry')
    BY <1>10, <1>11
  <2>2. Links(forward', k)[HeadNode] = forward'[HeadNode][k]
    BY DEF Links, Place
  <2>3. \A y \in On(k)' : Ahead(entry', HeadNode, entry'[y])
    BY DEF Ahead
  <2> QED BY <2>1, <2>2, <2>3 DEF Chain
<1>13. /\ level' \in Level /\ level' \in 1 .. level /\ level \in Int
       /\ level' > 1 => forward'[HeadNode][level'] # Nil
       /\ \A k \in Level : k <= level /\ k > level' => forward'[HeadNode][k] = Nil
  <2> DEFINE S == {1} \cup {k \in 1 .. level : forward'[HeadNode][k] # Nil}
  <2>0. level \in Int /\ level >= 1 /\ level <= MaxLevel /\ MaxLevel \in Int
    BY <1>0, SkipListAssumption DEF ListOK, Level
  <2>1. level' = Max(S)
    BY <1>2 DEF Shrunk
  <2>2. S \subseteq 1 .. level /\ S # {} /\ S \subseteq Int /\ 1 .. level \subseteq Level
    BY <2>0 DEF Level
  <2>3. IsFiniteSet(S)
    BY <2>0, <2>2, FS_Interval, FS_Subset
  <2>4. level' \in S /\ \A y \in S : level' >= y
    <3> HIDE DEF S
    <3> QED BY <2>1, <2>2, <2>3, MinMax
  <2>5. level' \in 1 .. level /\ (level' > 1 => forward'[HeadNode][level'] # Nil)
    BY <2>0, <2>2, <2>4
  <2>6. ASSUME NEW k \in Level, k <= level, k > level' PROVE forward'[HeadNode][k] = Nil
    <3>1. k \in 1 .. level /\ k \notin S
      BY <2>0, <2>2, <2>4, <2>6 DEF Level
    <3> QED BY <3>1
  <2> QED BY <2>0, <2>2, <2>5, <2>6
<1>14. ListOK'
  <2>1. memberScores' \in [Member -> Score \cup {None}] /\ size' \in Int
    BY <1>0, <1>2, <1>4 DEF ListOK
  <2> QED BY <1>5, <1>9, <1>13, <2>1 DEF ListOK
<1>15. Chained'
  BY <1>10, <1>11 DEF Chained
<1>16. Nested'
  <2>0. 1 \in Level /\ Level \subseteq Int
    BY SkipListAssumption DEF Level
  <2>1. On(1)' = Used'
    BY <1>0, <1>6, <1>11, <2>0 DEF Nested
  <2>2. ASSUME NEW j \in Level, NEW k \in Level, j <= k PROVE On(k)' \subseteq On(j)'
    BY <1>0, <1>11, <2>2 DEF Nested
  <2>3. ASSUME NEW k \in Level, k > level' PROVE On(k)' = {}
    <3>1. CASE k <= level
      BY <1>12, <1>13, <2>3, <3>1
    <3>2. CASE k > level
      BY <1>0, <1>11, <3>2 DEF Nested
    <3> QED BY <1>13, <2>0, <3>1, <3>2
  <2>4. (level > 1 => On(level) # {})'
    <3>1. PICK l \in Level : l = level'
      BY <1>13
    <3>2. l > 1 => On(l)' # {}
      BY <1>12, <1>13, <3>1
    <3> QED BY <3>1, <3>2
  <2> QED BY <2>1, <2>2, <2>3, <2>4 DEF Nested
<1>17. Tabled'
  <2>0. /\ memberScores'[asked.member] = None
        /\ \A m \in Member : m # asked.member => memberScores'[m] = memberScores[m]
    BY <1>0, <1>2, <1>4 DEF ListOK
  <2>1. size' = Cardinality(Used')
    BY <1>0, <1>1, <1>2, <1>3, <1>6, FS_RemoveElement DEF Tabled
  <2>2. ASSUME NEW c \in Used'
        PROVE  /\ c \in Used /\ c # t /\ entry'[c] = entry[c]
               /\ entry[c][2] \in Member /\ entry[c][2] # asked.member
    <3>1. c \in Used /\ c # t /\ entry'[c] = entry[c]
      BY <1>3, <1>5, <1>6
    <3>2. entry[c][2] \in Member
      BY <1>3, <3>1 DEF Pair
    <3> QED BY <1>0, <1>1, <1>4, <3>1, <3>2 DEF Tabled
  <2>3. \A c \in Used' : memberScores'[entry'[c][2]] = entry'[c][1]
    BY <1>0, <2>0, <2>2 DEF Tabled
  <2>4. ASSUME NEW m \in Member, memberScores'[m] # None
        PROVE  \E c \in Used' : entry'[c][2] = m
    <3>1. PICK c \in Used : entry[c][2] = m
      BY <1>0, <2>0, <2>4 DEF Tabled
    <3>2. c # t
      BY <1>4, <2>0, <2>4, <3>1
    <3> QED BY <1>3, <1>5, <1>6, <3>1, <3>2
  <2>5. \A c, d \in Used' : entry'[c][2] = entry'[d][2] => c = d
    BY <1>0, <2>2 DEF Tabled
  <2> QED BY <2>1, <2>3, <2>4, <2>5 DEF Tabled
<1> QED BY <1>14, <1>15, <1>16, <1>17 DEF ListPart

-----------------------------------------------------------------------------
(***************************************************************************)
(* The invariant.                                                          *)
(***************************************************************************)
LEMMA DispatchStep ==
  ASSUME LocalsOK, NEW c \in Abstract!Request, Dispatch(c)
  PROVE  LocalsOK' /\ Position'
<1>1. pc' = "asked" /\ asked' = c /\ UNCHANGED <<goal, update>>
  BY DEF Dispatch
<1>2. /\ c.op \in Commands
      /\ c.op \in {"zadd", "zrem", "zscore", "zrank"} => c.member \in Member
      /\ c.op = "zadd" => c.score \in Score
      /\ c.op = "zrangebyscore" => c.min \in Score
  BY DEF Abstract!Request, Commands
<1> QED BY <1>1, <1>2 DEF LocalsOK, Position

\* Steps that only read the list.
LEMMA ReaderStep ==
  ASSUME ListInv,
         \/ ZAdd \/ ZRem \/ ZScore \/ ZCard \/ ZRange \/ ZRangeByScore \/ ZRank
         \/ InsertAgain \/ CollectStart \/ Walk \/ Reply
  PROVE  LocalsOK' /\ Position' /\ UNCHANGED list
<1>0. LocalsOK /\ ListOK
  BY DEF ListInv
<1>1. UNCHANGED list
  BY DEF ZAdd, ZRem, ZScore, ZCard, ZRange, ZRangeByScore, ZRank, InsertAgain, CollectStart,
         Walk, Reply, StartWalk, Return
<1>2. level' \in Level
  BY <1>0, <1>1 DEF list, ListOK
<1>3. CASE ZAdd
  <2>1. /\ pc # "idle" /\ StartSearch(<<asked.score, asked.member>>)
        /\ asked.score \in Score /\ asked.member \in Member
    BY <1>0, <1>3 DEF ZAdd, Is, LocalsOK
  <2>2. <<asked.score, asked.member>> \in Pair /\ <<asked.score, asked.member>> \in Int \X Nat
    BY <2>1, Goals
  <2> QED BY <1>0, <1>1, <1>2, <2>1, <2>2, SearchStart
<1>4. CASE ZRem
  <2>1. pc # "idle" /\ asked.op = "zrem" /\ asked.member \in Member
    BY <1>0, <1>4 DEF ZRem, Is, LocalsOK
  <2>2. CASE memberScores[asked.member] = None
    BY <1>0, <1>1, <1>4, <2>1, <2>2, ReturnStep DEF ZRem
  <2>3. CASE memberScores[asked.member] # None
    <3> DEFINE g == <<memberScores[asked.member], asked.member>>
    <3>1. memberScores[asked.member] \in Score /\ StartSearch(g)
      BY <1>0, <1>4, <2>1, <2>3 DEF ZRem, ListOK
    <3>2. g \in Pair /\ g \in Int \X Nat /\ g[2] = asked.member
      BY <2>1, <3>1, Goals
    <3> HIDE DEF g
    <3> QED BY <1>0, <1>1, <1>2, <2>1, <3>1, <3>2, SearchStart
  <2> QED BY <2>2, <2>3
<1>5. CASE ZScore \/ ZCard
  BY <1>0, <1>1, <1>5, ReturnStep DEF ZScore, ZCard, Is
<1>6. CASE ZRangeByScore
  <2>1. /\ pc # "idle" /\ StartSearch(<<asked.min, 0>>) /\ asked.op = "zrangebyscore"
        /\ <<asked.min, 0>> \in Int \X Nat
    BY <1>0, <1>6, Goals DEF ZRangeByScore, Is, LocalsOK
  <2> QED BY <1>0, <1>1, <1>2, <2>1, SearchStart
<1>7. ASSUME StartWalk, pc = "asked" PROVE LocalsOK' /\ Position'
  BY <1>0, <1>7 DEF StartWalk, LocalsOK, Position
<1>8. CASE ZRange
  BY <1>1, <1>7, <1>8 DEF ZRange, Is
<1>9. CASE ZRank
  BY <1>0, <1>1, <1>7, <1>9, ReturnStep DEF ZRank, Is
<1>10. CASE InsertAgain
  <2>1. /\ pc = "found" /\ asked.op = "zadd" /\ asked.member \in Member
    BY <1>0, <1>10 DEF InsertAgain, Inserting, LocalsOK
  <2>2. CASE Return(0)
    BY <1>0, <1>1, <2>1, <2>2, ReturnStep
  <2>3. CASE ~Return(0)
    <3> DEFINE g == <<memberScores[asked.member], asked.member>>
    <3>1. memberScores[asked.member] \in Score /\ StartSearch(g)
      BY <1>0, <1>10, <2>1, <2>3 DEF InsertAgain, ListOK
    <3>2. g \in Pair /\ g \in Int \X Nat /\ g[2] = asked.member
      BY <2>1, <3>1, Goals
    <3> HIDE DEF g
    <3> QED BY <1>0, <1>1, <1>2, <2>1, <3>1, <3>2, SearchStart
  <2> QED BY <2>2, <2>3
<1>11. CASE CollectStart
  BY <1>0, <1>1, <1>11 DEF CollectStart, LocalsOK, Position
<1>12. CASE Walk
  <2>1. CASE cur # Nil /\ InRange
    BY <1>0, <1>1, <1>12, <2>1 DEF Walk, LocalsOK, Position
  <2>2. CASE ~(cur # Nil /\ InRange)
    BY <1>0, <1>1, <1>12, <2>2, ReturnStep DEF Walk
  <2> QED BY <2>1, <2>2
<1>13. CASE Reply
  BY <1>0, <1>1, <1>13 DEF Reply, LocalsOK, Position
<1> QED BY <1>3, <1>4, <1>5, <1>6, <1>8, <1>9, <1>10, <1>11, <1>12, <1>13

\* A removal, of a known or an unknown member, preserves the invariant.
LEMMA RemoveStep ==
  ASSUME ListInv, Remove
  PROVE  ListPart' /\ LocalsOK' /\ Position'
<1>0. /\ pc = "found" /\ LocalsOK /\ ListPart /\ asked.op \in {"zrem", "zadd"}
      /\ asked.member \in Member
  BY DEF Remove, ListInv, ListPart, LocalsOK
<1>1. ListPart'
  <2>1. CASE IsThere
    BY <1>0, <2>1, RemoveList
  <2>2. CASE ~IsThere
    BY <1>0, <2>2, ListSame DEF Remove
  <2> QED BY <2>1, <2>2
<1>2. level' \in Level
  BY <1>1 DEF ListPart, ListOK
<1>3. CASE asked.op = "zrem"
  BY <1>0, <1>1, <1>3, ReturnStep DEF Remove
<1>4. CASE asked.op = "zadd"
  <2> DEFINE g == <<asked.score, asked.member>>
  <2>1. g \in Pair /\ g \in Int \X Nat /\ g[2] = asked.member
    BY <1>0, <1>4, Goals DEF LocalsOK
  <2>2. StartSearch(g)
    BY <1>4 DEF Remove
  <2> HIDE DEF g
  <2> QED BY <1>0, <1>1, <1>2, <2>1, <2>2, SearchStart
<1> QED BY <1>0, <1>3, <1>4

\* Every step of every command preserves the invariant.
LEMMA ListInvNext == ListInv /\ [Next]_vars => ListInv'
<1> SUFFICES ASSUME ListInv, [Next]_vars PROVE ListPart' /\ LocalsOK' /\ Position'
  BY DEF ListInv, ListPart
<1>0. ListPart /\ LocalsOK /\ Position
  BY DEF ListInv, ListPart
<1>1. CASE UNCHANGED vars
  <2>1. ListPart' /\ (\A k : On(k)' = On(k)) /\ entry' = entry /\ forward' = forward
        /\ level' = level
    BY <1>0, <1>1, ListSame DEF vars, list
  <2>2. LocalsOK' /\ UNCHANGED <<pc, i, cur, update, goal>>
    BY <1>0, <1>1 DEF vars, LocalsOK
  <2>3. \A k : Stopped(k)' <=> Stopped(k)
    BY <2>1, <2>2 DEF Stopped, Reached
  <2>4. Reached(i, cur)' <=> Reached(i, cur)
    BY <2>1, <2>2 DEF Reached
  <2> QED BY <1>0, <2>1, <2>2, <2>3, <2>4 DEF Position
<1>2. CASE \E c \in Abstract!Request : Dispatch(c)
  <2>1. UNCHANGED list
    BY <1>2 DEF Dispatch
  <2> QED BY <1>0, <1>2, <2>1, DispatchStep, ListSame
<1>3. CASE \/ ZAdd \/ ZRem \/ ZScore \/ ZCard \/ ZRange \/ ZRangeByScore \/ ZRank
           \/ InsertAgain \/ CollectStart \/ Walk \/ Reply
  BY <1>0, <1>3, ReaderStep, ListSame
<1>4. CASE Search
  <2>1. UNCHANGED list
    BY <1>4 DEF Search
  <2> QED BY <1>0, <1>4, <2>1, SearchStep, ListSame
<1>5. CASE Insert
  <2>1. pc # "idle" /\ \E r : Return(r)
    BY <1>5 DEF Insert, Inserting
  <2> QED BY <1>0, <1>5, <2>1, InsertList, ReturnStep
<1>6. CASE Remove
  BY <1>6, RemoveStep
<1> QED BY <1>1, <1>2, <1>3, <1>4, <1>5, <1>6 DEF Next

\* Levels sorted, nested and in agreement with the table follow from ListInv.
LEMMA ListInvSound == ListInv => ListSound
<1> SUFFICES ASSUME ListInv PROVE LevelsSorted /\ LevelsNested /\ TableAgrees
  BY DEF ListSound
<1>0. ListPart /\ ListOK /\ Chained /\ Nested /\ Tabled
  BY DEF ListInv, ListPart
<1>1. /\ Used \subseteq Cell /\ \A c \in Used : entry[c] \in Pair
      /\ \A k : On(k) \subseteq Used
      /\ \A c, d \in Used : entry[c] = entry[d] => c = d
  BY <1>0, Entries
<1>2. ASSUME NEW k \in Level, NEW x \in Cell \cup {HeadNode}
      PROVE  LET after == {y \in On(k) \ {x} : x \in On(k) \cup {HeadNode} /\ Less(x, y)}
             IN IF after = {} THEN forward[x][k] = Nil
                ELSE /\ forward[x][k] \in after
                     /\ \A y \in after : forward[x][k] # y => Less(forward[x][k], y)
  <2> DEFINE after == {y \in On(k) \ {x} : x \in On(k) \cup {HeadNode} /\ Less(x, y)}
             f == Links(forward, k)
  <2>1. Chain(On(k), f, entry) /\ f[x] = forward[x][k] /\ On(k) \subseteq Cell
    BY <1>0, <1>1 DEF Chained, Links, Place
  <2>2. \A y \in On(k) : \A z : Less(z, y) <=> Ahead(entry, z, entry[y])
    BY DEF Less, Ahead, LessPair
  <2>3. CASE x \notin On(k) \cup {HeadNode}
    <3>1. after = {} /\ f[x] = Nil
      BY <2>1, <2>3 DEF Chain
    <3> QED BY <2>1, <3>1
  <2>4. CASE x \in On(k) \cup {HeadNode}
    <3>1. \A y \in On(k) : Ahead(entry, x, entry[y]) => y # x
      <4>1. \A y \in On(k) : y # HeadNode /\ entry[y] \in Int \X Int
        BY <1>1, <2>1, Apart
      <4> QED BY <4>1, PairOrder DEF Ahead
    <3>2. \A y : y \in after <=> y \in On(k) /\ Ahead(entry, x, entry[y])
      BY <2>2, <2>4, <3>1
    <3> HIDE DEF after, f
    <3>3. CASE f[x] = Nil
      <4>1. after = {}
        BY <2>1, <2>4, <3>2, <3>3 DEF Chain
      <4> QED BY <2>1, <3>3, <4>1 DEF after
    <3>4. CASE f[x] # Nil
      <4>1. f[x] \in after /\ \A y \in after : f[x] # y => Ahead(entry, f[x], entry[y])
        BY <2>1, <2>4, <3>2, <3>4 DEF Chain
      <4>2. \A y \in after : f[x] # y => Less(f[x], y)
        BY <2>2, <3>2, <4>1
      <4> QED BY <2>1, <4>1, <4>2 DEF after
    <3> QED BY <3>3, <3>4
  <2> QED BY <2>3, <2>4
<1>3. LevelsSorted
  BY <1>2 DEF LevelsSorted
<1>4. LevelsNested
  <2>0. Level \subseteq Int /\ 1 \in Level /\ level \in Level /\ level >= 1
        /\ \A k \in 2 .. MaxLevel : k \in Level /\ k - 1 \in Level /\ k - 1 <= k
    BY <1>0, SkipListAssumption DEF Level, ListOK
  <2>1. On(1) = Used /\ \A k \in 2 .. MaxLevel : On(k) \subseteq On(k - 1)
    BY <1>0, <2>0 DEF Nested
  <2> DEFINE S == {1} \cup {k \in Level : On(k) # {}}
  <2>2. S \subseteq Int /\ level \in S /\ \A k \in S : level >= k
    <3>1. level = 1 \/ On(level) # {}
      BY <1>0, <2>0 DEF Nested
    <3>2. \A k \in Level : On(k) # {} => level >= k
      BY <1>0, <2>0 DEF Nested
    <3> QED BY <2>0, <3>1, <3>2
  <2>3. Max(S) = level
    <3> HIDE DEF S
    <3> QED BY <2>2, MaxIs
  <2> QED BY <2>1, <2>3 DEF LevelsNested
<1>5. TableAgrees
  <2>1. ASSUME NEW m \in Member
        PROVE  {entry[c] : c \in {d \in Used : entry[d][2] = m}} =
                 IF memberScores[m] = None THEN {} ELSE {<<memberScores[m], m>>}
    <3>1. ASSUME NEW c \in Used, entry[c][2] = m
          PROVE  entry[c] = <<memberScores[m], m>> /\ memberScores[m] # None
      <4>1. entry[c] = <<entry[c][1], entry[c][2]>> /\ entry[c][1] \in Score
        BY <1>1 DEF Pair
      <4>2. memberScores[m] = entry[c][1]
        BY <1>0, <3>1 DEF Tabled
      <4> QED BY <3>1, <4>1, <4>2, SkipListAssumption
    <3>2. CASE memberScores[m] = None
      BY <3>1, <3>2
    <3>3. CASE memberScores[m] # None
      <4>1. PICK c \in Used : entry[c][2] = m
        BY <1>0, <3>3 DEF Tabled
      <4> QED BY <3>1, <3>3, <4>1
    <3> QED BY <3>2, <3>3
  <2> QED BY <1>0, <1>1, <2>1 DEF TableAgrees, Tabled
<1> QED BY <1>3, <1>4, <1>5

\* Whatever heights are drawn, and however members are added, moved and
\* removed, every level of the list is sorted and complete, levels are nested
\* under level_, no link leads to a freed node, and member_scores_ and size_
\* agree with the nodes (skiplist.cpp:48-124).
THEOREM ListSoundAlways == Spec => []ListSound
<1>1. Init => ListInv
  BY ListInvInit
<1>2. ListInv /\ [Next]_vars => ListInv'
  BY ListInvNext
<1>3. ListInv => ListSound
  BY ListInvSound
<1> QED BY <1>1, <1>2, <1>3, PTL DEF Spec

-----------------------------------------------------------------------------
(***************************************************************************)
(* The list as a sorted set.                                               *)
(***************************************************************************)
\* Which call a search serves, and what insert knows of the score it replaces:
\* nothing yet, the score it looks for to remove, or the one it has removed.
Serving ==
  /\ asked = None <=> pc = "idle"
  /\ pc # "idle" => asked \in Abstract!Request
  /\ pc # "replied" => reply = None
  /\ pc # "walk" => out = <<>>
  /\ moving # None => pc \in {"search", "found"} /\ asked.op = "zadd"
  /\ pc \in {"search", "found"} =>
       \/ /\ asked.op = "zadd"
          /\ \/ goal = <<asked.score, asked.member>> /\ moving = None
             \/ /\ goal = <<memberScores[asked.member], asked.member>>
                /\ moving = memberScores[asked.member] /\ moving \notin {None, asked.score}
             \/ /\ goal = <<asked.score, asked.member>> /\ moving # None
                /\ memberScores[asked.member] = None
       \/ /\ asked.op = "zrem" /\ memberScores[asked.member] # None
          /\ goal = <<memberScores[asked.member], asked.member>>
       \/ asked.op = "zrangebyscore" /\ goal = <<asked.min, 0>>

\* The nodes a walk has left behind, how many a node has before it, and the
\* rank of the first one that is collected.
PassedAt(x) == {c \in Used : x = Nil \/ LessPair(entry[c], entry[x])}
Passed == PassedAt(cur)
NodeRank(c) == Cardinality({d \in Used : LessPair(entry[d], entry[c])})
Below(s) == {c \in Used : entry[c][1] < s}
First == IF asked.op = "zrangebyscore" THEN Cardinality(Below(asked.min))
         ELSE IF Start < 0 THEN 0 ELSE Start

Walking ==
  pc = "walk" =>
    /\ cur \in Used \cup {Nil} /\ out \in Seq(Pair)
    /\ Len(out) = IF Cardinality(Passed) > First THEN Cardinality(Passed) - First ELSE 0
    /\ \A k \in 1 .. Len(out) : \E c \in Used : out[k] = entry[c] /\ NodeRank(c) = First + k - 1
    /\ \/ /\ asked.op = "zrange" \/ (asked.op = "zrank" /\ memberScores[asked.member] # None)
          /\ i = Cardinality(Passed) /\ (i = 0 \/ i <= Stop + 1)
       \/ /\ asked.op = "zrangebyscore" /\ Below(asked.min) \subseteq Passed
          /\ \A c \in Passed : entry[c][1] < asked.min \/ entry[c][1] <= asked.max

SetInv == ListInv /\ Serving /\ Walking
\* The abstract set counts as the list does.
LEMMA SameCount == \A S : Abstract!Cardinality(S) = Cardinality(S)
BY DEF Abstract!Cardinality, Cardinality


\* The set as member_scores_ tells it.
Scores == [m \in Member |->
             IF memberScores[m] # None THEN memberScores[m]
             ELSE IF asked # None /\ asked.op = "zadd" /\ asked.member = m THEN moving ELSE None]

\* A member shows the score of its node or, while it is moved, the one it had.
LEMMA ScoreIs == ListInv => SetScore = Scores
<1> SUFFICES ASSUME ListInv, NEW m \in Member PROVE SetScore[m] = Scores[m]
  BY DEF SetScore, Scores
<1>0. ListPart /\ Tabled /\ ListOK
  BY DEF ListInv, ListPart
<1> DEFINE its == {c \in Used : entry[c][2] = m}
<1>1. \A c \in its : entry[c][1] = memberScores[m] /\ memberScores[m] # None
  <2> SUFFICES ASSUME NEW c \in its PROVE entry[c][1] = memberScores[m] /\ memberScores[m] # None
    OBVIOUS
  <2>1. entry[c] \in Pair
    BY <1>0, Entries
  <2>2. entry[c][1] \in Score
    BY <2>1 DEF Pair
  <2>3. entry[c][1] # None
    BY <2>2, SkipListAssumption
  <2> QED BY <1>0, <2>3 DEF Tabled
<1>2. memberScores[m] # None => its # {}
  BY <1>0 DEF Tabled
<1>3. SetScore[m] =
        IF its # {} THEN entry[CHOOSE c \in its : TRUE][1]
        ELSE IF asked # None /\ asked.op = "zadd" /\ asked.member = m THEN moving ELSE None
  BY DEF SetScore
<1>4. its # {} => (CHOOSE c \in its : TRUE) \in its
  OBVIOUS
<1> HIDE DEF its
<1>5. CASE its # {}
  <2>1. SetScore[m] = memberScores[m] /\ memberScores[m] # None
    BY <1>1, <1>3, <1>4, <1>5
  <2> QED BY <2>1 DEF Scores
<1>6. CASE its = {}
  BY <1>2, <1>3, <1>6 DEF Scores
<1> QED BY <1>5, <1>6

\* ScoreIs in the state after a step.
LEMMA ScoreIsNext == (ListInv => SetScore = Scores)'
  BY ScoreIs, PTL

\* As long as insert is not moving a member the set is the table.
LEMMA ScoresAtRest == ListInv /\ moving = None => SetScore = memberScores
<1> SUFFICES ASSUME ListInv, moving = None PROVE Scores = memberScores
  BY ScoreIs
<1>1. memberScores \in [Member -> Score \cup {None}]
  BY DEF ListInv, ListOK
<1> QED BY <1>1 DEF Scores

-----------------------------------------------------------------------------
(***************************************************************************)
(* Ranks of members are ranks of nodes.                                    *)
(***************************************************************************)
\* Nodes have different members, so counting either is the same.
LEMMA MembersCount ==
  ASSUME ListPart, NEW U \in SUBSET Used
  PROVE  Cardinality({entry[c][2] : c \in U}) = Cardinality(U)
<1> DEFINE M == {entry[c][2] : c \in U}
           f == [c \in U |-> entry[c][2]]
<1>1. f \in [U -> M] /\ (\A c, d \in U : f[c] = f[d] => c = d) /\ \A m \in M : \E c \in U : f[c] = m
  BY DEF ListPart, Tabled
<1>2. IsFiniteSet(U)
  BY Entries, FS_Subset
<1> HIDE DEF M, f
<1>3. f \in Bijection(U, M)
  BY <1>1 DEF Bijection, Injection, Surjection, IsInjective
<1>4. ExistsBijection(U, M)
  BY <1>3 DEF ExistsBijection
<1>5. Cardinality(M) = Cardinality(U)
  BY <1>2, <1>4, FS_Bijection
<1> QED BY <1>5 DEF M

\* What member_scores_ says of a member is what its node says.
LEMMA NodeOf ==
  ASSUME ListPart
  PROVE  /\ \A c \in Used : /\ entry[c] = <<memberScores[entry[c][2]], entry[c][2]>>
                            /\ entry[c][2] \in Member /\ memberScores[entry[c][2]] # None
                            /\ entry[c][1] = memberScores[entry[c][2]]
                            /\ entry[c][1] \in Int /\ entry[c][2] \in Int /\ entry[c][2] > 0
         /\ \A m \in Member : memberScores[m] # None =>
              \E c \in Used : entry[c] = <<memberScores[m], m>> /\ entry[c][2] = m
<1>1. ASSUME NEW c \in Used
      PROVE  /\ entry[c] = <<memberScores[entry[c][2]], entry[c][2]>>
             /\ entry[c][2] \in Member /\ memberScores[entry[c][2]] # None
             /\ entry[c][1] = memberScores[entry[c][2]]
             /\ entry[c][1] \in Int /\ entry[c][2] \in Int /\ entry[c][2] > 0
  <2>1. entry[c] \in Pair
    BY Entries
  <2>2. entry[c] = <<entry[c][1], entry[c][2]>> /\ entry[c][1] \in Score /\ entry[c][2] \in Member
    BY <2>1 DEF Pair
  <2>3. entry[c][1] = memberScores[entry[c][2]]
    BY DEF ListPart, Tabled
  <2>4. entry[c][1] # None /\ entry[c][1] \in Int /\ entry[c][2] \in Nat \ {0}
    <3>1. Score \subseteq Int /\ None \notin Int /\ Member \subseteq Nat \ {0}
      BY SkipListAssumption
    <3> QED BY <2>2, <3>1
  <2> QED BY <2>2, <2>3, <2>4
<1>2. ASSUME NEW m \in Member, memberScores[m] # None
      PROVE  \E c \in Used : entry[c] = <<memberScores[m], m>> /\ entry[c][2] = m
  BY <1>1, <1>2 DEF ListPart, Tabled
<1> QED BY <1>1, <1>2

\* Ranks and sizes of the set are those of the nodes.
LEMMA Ranks ==
  ASSUME ListPart, SetScore = memberScores
  PROVE  /\ Abstract!Present = {m \in Member : memberScores[m] # None}
         /\ Cardinality(Abstract!Present) = size
         /\ \A c \in Used : Abstract!Rank(entry[c][2]) = NodeRank(c)
         /\ \A s \in Int : Cardinality({m \in Abstract!Present : SetScore[m] < s})
                             = Cardinality(Below(s))
         /\ \A s \in Int : Cardinality({m \in Abstract!Present : SetScore[m] <= s})
                             = Cardinality({c \in Used : entry[c][1] <= s})
<1> DEFINE P == {m \in Member : memberScores[m] # None}
<1>0. Abstract!Present = P
  BY DEF Abstract!Present
<1>1. P = {entry[c][2] : c \in Used}
  BY NodeOf
<1>2. Cardinality(P) = size
  <2>1. Cardinality({entry[c][2] : c \in Used}) = Cardinality(Used)
    BY MembersCount
  <2> QED BY <1>1, <2>1 DEF ListPart, Tabled
<1>3. ASSUME NEW c \in Used PROVE Abstract!Rank(entry[c][2]) = NodeRank(c)
  <2> DEFINE U == {d \in Used : LessPair(entry[d], entry[c])}
             m == entry[c][2]
             R == {n \in P : \/ memberScores[n] < memberScores[m]
                             \/ memberScores[n] = memberScores[m] /\ n < m}
  <2>1. R = {entry[d][2] : d \in U}
    BY NodeOf DEF LessPair
  <2>2. Cardinality({entry[d][2] : d \in U}) = Cardinality(U)
    BY MembersCount
  <2>3. Abstract!Rank(m) = Cardinality(R)
    <3>1. {n \in Abstract!Present : \/ SetScore[n] < SetScore[m]
                                    \/ SetScore[n] = SetScore[m] /\ n < m} = R
      BY <1>0
    <3> QED BY <3>1, SameCount DEF Abstract!Rank
  <2> QED BY <2>1, <2>2, <2>3 DEF NodeRank
<1>4. ASSUME NEW s \in Int
      PROVE  Cardinality({m \in P : memberScores[m] < s}) = Cardinality(Below(s))
  <2>1. {m \in P : memberScores[m] < s} = {entry[c][2] : c \in Below(s)}
    BY NodeOf DEF Below
  <2>2. Below(s) \in SUBSET Used
    BY DEF Below
  <2> QED BY <2>1, <2>2, MembersCount
<1>5. ASSUME NEW s \in Int
      PROVE  Cardinality({m \in P : memberScores[m] <= s})
               = Cardinality({c \in Used : entry[c][1] <= s})
  <2> DEFINE U == {c \in Used : entry[c][1] <= s}
  <2>1. {m \in P : memberScores[m] <= s} = {entry[c][2] : c \in U}
    BY NodeOf
  <2>2. Cardinality({entry[c][2] : c \in U}) = Cardinality(U)
    BY MembersCount
  <2> QED BY <2>1, <2>2
<1> QED BY <1>0, <1>2, <1>3, <1>4, <1>5

\* No two nodes have the same rank.
LEMMA RankUnique ==
  ASSUME ListPart, NEW c \in Used, NEW d \in Used, NodeRank(c) = NodeRank(d)
  PROVE  c = d
<1> DEFINE Under(x) == {y \in Used : LessPair(entry[y], entry[x])}
<1>0. /\ \A x \in Used : entry[x] \in Int \X Int
      /\ \A x, y \in Used : entry[x] = entry[y] => x = y
      /\ IsFiniteSet(Used)
  BY Entries, Apart
<1>1. ASSUME NEW x \in Used, NEW y \in Used, LessPair(entry[x], entry[y])
      PROVE  NodeRank(x) # NodeRank(y)
  <2>1. Under(x) \subseteq Under(y)
    BY <1>0, <1>1, PairOrder
  <2>2. x \in Under(y) /\ x \notin Under(x)
    BY <1>0, <1>1, PairOrder
  <2>3. IsFiniteSet(Under(y))
    BY <1>0, FS_Subset
  <2>4. NodeRank(x) = Cardinality(Under(x)) /\ NodeRank(y) = Cardinality(Under(y))
    BY DEF NodeRank
  <2> HIDE DEF Under
  <2> QED BY <2>1, <2>2, <2>3, <2>4, FS_Subset
<1> QED BY <1>0, <1>1, PairOrder

\* The entries of the nodes in the order of their ranks, the first at rank first.
Collected(o, first) ==
  \A k \in 1 .. Len(o) : \E c \in Used : o[k] = entry[c] /\ NodeRank(c) = first + k - 1

\* A vector of the nodes with the ranks from first to last is the answer.
LEMMA RankedIs ==
  ASSUME ListPart, SetScore = memberScores, NEW first \in Int, NEW last \in Int,
         NEW o \in Seq(Pair),
         Len(o) = IF last - first + 1 > 0 THEN last - first + 1 ELSE 0,
         Collected(o, first)
  PROVE  Abstract!Ranked(first, last) = o
<1>1. 1 .. last - first + 1 = 1 .. Len(o)
  OBVIOUS
<1>2. ASSUME NEW k \in 1 .. Len(o)
      PROVE  LET m == CHOOSE x \in Abstract!Present : Abstract!Rank(x) = first + k - 1
             IN  <<SetScore[m], m>> = o[k]
  <2>1. PICK c \in Used : o[k] = entry[c] /\ NodeRank(c) = first + k - 1
    BY DEF Collected
  <2>2. entry[c][2] \in Abstract!Present /\ Abstract!Rank(entry[c][2]) = first + k - 1
    BY <2>1, NodeOf, Ranks
  <2>3. ASSUME NEW x \in Abstract!Present, Abstract!Rank(x) = first + k - 1
        PROVE  x = entry[c][2]
    <3>1. PICK d \in Used : entry[d][2] = x
      BY NodeOf, Ranks
    <3>2. NodeRank(d) = NodeRank(c)
      BY <2>1, <2>3, <3>1, Ranks
    <3> QED BY <3>1, <3>2, RankUnique
  <2>4. (CHOOSE x \in Abstract!Present : Abstract!Rank(x) = first + k - 1) = entry[c][2]
    BY <2>2, <2>3
  <2> QED BY <2>1, <2>4, NodeOf
<1>3. o = [k \in 1 .. Len(o) |-> o[k]]
  OBVIOUS
<1> QED BY <1>1, <1>2, <1>3 DEF Abstract!Ranked

-----------------------------------------------------------------------------
(***************************************************************************)
(* Walks along the bottom list.                                            *)
(***************************************************************************)
\* The bottom list has all nodes, in order.
LEMMA BottomList ==
  ASSUME ListPart
  PROVE  /\ Chain(Used, Links(forward, 1), entry)
         /\ \A x \in Used \cup {HeadNode} : Links(forward, 1)[x] = forward[x][1]
         /\ \A x \in Used : x # Nil /\ x # HeadNode /\ entry[x] \in Int \X Int
         /\ \A x, y \in Used : entry[x] = entry[y] => x = y
         /\ IsFiniteSet(Used)
<1>1. 1 \in Level
  BY SkipListAssumption DEF Level
<1>2. Chain(On(1), Links(forward, 1), entry) /\ On(1) = Used
  BY <1>1 DEF ListPart, Chained, Nested
<1>3. Used \subseteq Cell /\ \A x \in Used : entry[x] \in Pair
  BY Entries
<1>4. \A x \in Used \cup {HeadNode} : Links(forward, 1)[x] = forward[x][1]
  BY <1>3 DEF Links, Place
<1> QED BY <1>2, <1>3, <1>4, Entries, Apart

\* A walk that goes on has passed one node more.
LEMMA Advance ==
  ASSUME ListPart, NEW x \in Used
  PROVE  /\ forward[x][1] \in Used \cup {Nil}
         /\ PassedAt(forward[x][1]) = PassedAt(x) \cup {x}
         /\ Cardinality(PassedAt(x)) = NodeRank(x)
         /\ Cardinality(PassedAt(forward[x][1])) = NodeRank(x) + 1
         /\ NodeRank(x) \in Nat /\ NodeRank(x) < size
<1> DEFINE y == forward[x][1]
<1>1. /\ Chain(Used, Links(forward, 1), entry) /\ Links(forward, 1)[x] = y
      /\ \A z \in Used : z # Nil /\ z # HeadNode /\ entry[z] \in Int \X Int
      /\ \A z, c \in Used : entry[z] = entry[c] => z = c
      /\ IsFiniteSet(Used)
  BY BottomList
<1>2. /\ y \in Used \cup {Nil}
      /\ y = Nil => \A c \in Used : ~LessPair(entry[x], entry[c])
      /\ y # Nil => /\ LessPair(entry[x], entry[y])
                    /\ \A c \in Used : LessPair(entry[x], entry[c])
                                         => c = y \/ LessPair(entry[y], entry[c])
  BY <1>1 DEF Chain, Ahead
<1>3. x \notin PassedAt(x)
  BY <1>1, PairOrder DEF PassedAt
<1>4. PassedAt(y) = PassedAt(x) \cup {x}
  <2> HIDE DEF y
  <2>1. ASSUME NEW c \in Used, y = Nil PROVE c \in PassedAt(x) \cup {x}
    BY <1>1, <1>2, <2>1, PairOrder DEF PassedAt
  <2>2. ASSUME NEW c \in Used, y # Nil
        PROVE  LessPair(entry[c], entry[y]) <=> LessPair(entry[c], entry[x]) \/ c = x
    <3>1. entry[c] \in Int \X Int /\ entry[y] \in Int \X Int /\ entry[x] \in Int \X Int
      BY <1>1, <1>2, <2>2
    <3> QED BY <1>1, <1>2, <2>2, <3>1, PairOrder
  <2>3. CASE y = Nil
    BY <1>1, <2>1, <2>3 DEF PassedAt
  <2>4. CASE y # Nil
    BY <1>1, <2>2, <2>4 DEF PassedAt
  <2> QED BY <2>3, <2>4
<1>5. PassedAt(x) \subseteq Used /\ PassedAt(x) = {d \in Used : LessPair(entry[d], entry[x])}
  BY <1>1 DEF PassedAt
<1>6. Cardinality(PassedAt(x)) = NodeRank(x)
  BY <1>5 DEF NodeRank
<1>7. IsFiniteSet(PassedAt(x)) /\ Cardinality(PassedAt(x)) \in Nat
  BY <1>1, <1>5, FS_Subset, FS_CardinalityType
<1>8. Cardinality(PassedAt(x) \cup {x}) = Cardinality(PassedAt(x)) + 1
  BY <1>3, <1>7, FS_AddElement
<1>9. Cardinality(PassedAt(x) \cup {x}) <= Cardinality(Used) /\ Cardinality(Used) \in Nat
  <2>1. PassedAt(x) \cup {x} \subseteq Used
    BY <1>5
  <2> QED BY <1>1, <2>1, FS_Subset, FS_CardinalityType
<1>10. size = Cardinality(Used)
  BY DEF ListPart, Tabled
<1> QED BY <1>2, <1>4, <1>6, <1>7, <1>8, <1>9, <1>10

\* A walk from head_ has passed nothing.
LEMMA WalkStarts ==
  ASSUME ListPart
  PROVE  forward[HeadNode][1] \in Used \cup {Nil} /\ PassedAt(forward[HeadNode][1]) = {}
<1> DEFINE y == forward[HeadNode][1]
<1>1. /\ Chain(Used, Links(forward, 1), entry) /\ Links(forward, 1)[HeadNode] = y
      /\ \A z \in Used : z # Nil /\ z # HeadNode /\ entry[z] \in Int \X Int
  BY BottomList
<1>2. /\ y \in Used \cup {Nil}
      /\ y = Nil => Used = {}
      /\ y # Nil => \A c \in Used : c = y \/ LessPair(entry[y], entry[c])
  BY <1>1 DEF Chain, Ahead
<1>3. ASSUME NEW c \in Used, y # Nil PROVE ~LessPair(entry[c], entry[y])
  BY <1>1, <1>2, <1>3, PairOrder
<1> QED BY <1>2, <1>3 DEF PassedAt

\* range_by_score starts at the first node that is not below the minimum.
LEMMA RangeStarts ==
  ASSUME ListInv, pc = "found", NEW s \in Score, goal = <<s, 0>>
  PROVE  Target \in Used \cup {Nil} /\ PassedAt(Target) = Below(s)
<1> DEFINE u == update[1]
<1>0. ListPart /\ s \in Int /\ 1 \in 1 .. level
  BY Bottom, SkipListAssumption DEF ListInv, ListPart
<1>1. /\ Chain(Used, Links(forward, 1), entry)
      /\ \A z \in Used \cup {HeadNode} : Links(forward, 1)[z] = forward[z][1]
      /\ \A z \in Used : z # Nil /\ z # HeadNode /\ entry[z] \in Int \X Int
      /\ On(1) = Used
  BY <1>0, BottomList DEF ListPart, Nested
<1>2. /\ u \in Used \cup {HeadNode} /\ Ahead(entry, u, goal)
      /\ Target = forward[u][1]
      /\ Target # Nil => ~LessPair(entry[Target], goal)
  BY <1>0, <1>1 DEF ListInv, Position, Stopped, Reached, Target
<1>3. /\ Target \in Used \cup {Nil}
      /\ Target = Nil => \A c \in Used : ~Ahead(entry, u, entry[c])
      /\ Target # Nil => \A c \in Used : Ahead(entry, u, entry[c])
                           => c = Target \/ LessPair(entry[Target], entry[c])
  <2>1. Links(forward, 1)[u] = Target
    BY <1>1, <1>2
  <2> QED BY <1>1, <1>2, <2>1 DEF Chain, Ahead
<1>4. ASSUME NEW c \in Used PROVE LessPair(entry[c], goal) <=> entry[c][1] < s
  <2>1. entry[c][1] \in Int /\ entry[c][2] \in Nat
    BY <1>0, NodeOf
  <2> QED BY <1>0, <2>1 DEF LessPair
<1>5. goal \in Int \X Int
  BY <1>0
<1>6. ASSUME NEW c \in Used, ~LessPair(entry[c], goal) PROVE Ahead(entry, u, entry[c])
  <2>1. CASE u = HeadNode
    BY <2>1 DEF Ahead
  <2>2. CASE u # HeadNode
    <3>1. u \in Used /\ LessPair(entry[u], goal)
      BY <1>2, <2>2 DEF Ahead
    <3>2. LessPair(entry[u], entry[c])
      BY <1>1, <1>5, <1>6, <3>1, PairOrder
    <3> QED BY <3>2 DEF Ahead
  <2> QED BY <2>1, <2>2
<1> HIDE DEF u
<1>7. CASE Target = Nil
  <2>1. \A c \in Used : LessPair(entry[c], goal)
    BY <1>3, <1>6, <1>7
  <2> QED BY <1>3, <1>4, <1>7, <2>1 DEF PassedAt, Below
<1>8. CASE Target # Nil
  <2>1. ASSUME NEW c \in Used
        PROVE  LessPair(entry[c], goal) <=> LessPair(entry[c], entry[Target])
    <3>0. Target \in Used /\ entry[c] \in Int \X Int /\ entry[Target] \in Int \X Int
          /\ ~LessPair(entry[Target], goal)
      BY <1>1, <1>2, <1>3, <1>8
    <3>1. CASE LessPair(entry[c], goal)
      BY <1>5, <3>0, <3>1, PairOrder
    <3>2. CASE ~LessPair(entry[c], goal)
      <4>1. c = Target \/ LessPair(entry[Target], entry[c])
        BY <1>3, <1>6, <1>8, <3>2
      <4>2. ~LessPair(entry[c], entry[Target])
        BY <3>0, <4>1, PairOrder
      <4> QED BY <3>2, <4>2
    <3> QED BY <3>1, <3>2
  <2> QED BY <1>3, <1>4, <1>8, <2>1 DEF PassedAt, Below
<1> QED BY <1>3, <1>7, <1>8

-----------------------------------------------------------------------------
(***************************************************************************)
(* Every step is a step of the sorted set or leaves it alone.              *)
(***************************************************************************)
SetStep == [Abstract!Next]_<<SetScore, asked, reply>>

\* What a command brings along.
LEMMA Requests ==
  ASSUME NEW c \in Abstract!Request
  PROVE  /\ c # None /\ c.op \in Commands
         /\ c.op \in {"zadd", "zrem", "zscore", "zrank"} => c.member \in Member
         /\ c.op = "zadd" => c.score \in Score /\ c.score \in Int
         /\ c.op = "zrange" => c.start \in Int /\ c.stop \in Int
         /\ c.op = "zrangebyscore" => /\ c.min \in Score /\ c.min \in Int
                                      /\ c.max \in Int
<1>1. Score \subseteq Int /\ Bound \subseteq Int
  BY SkipListAssumption
<1>2. c # None
  BY NoneAssumption
<1> QED BY <1>1, <1>2 DEF Abstract!Request, Commands

\* A command that answers as the set does is a step of the set.
LEMMA Answers ==
  ASSUME asked \in Abstract!Request, reply = None, UNCHANGED asked,
         Abstract!ZAdd \/ Abstract!ZRem \/ Abstract!Query
  PROVE  SetStep
<1>1. Abstract!Answer
  BY Requests DEF Abstract!Answer
<1> QED BY <1>1 DEF SetStep, Abstract!Next

\* Returning ends the search or walk.
LEMMA ReturnServes ==
  ASSUME Serving, pc # "idle", NEW r, Return(r)
  PROVE  /\ Serving' /\ Walking' /\ UNCHANGED asked /\ reply' = r /\ moving' = None
         /\ asked \in Abstract!Request
<1>1. /\ pc' = "replied" /\ asked' = asked /\ reply' = r /\ moving' = None /\ out' = <<>>
  BY DEF Return
<1>2. asked # None /\ asked \in Abstract!Request
  BY DEF Serving
<1>3. Serving'
  BY <1>1, <1>2 DEF Serving
<1> QED BY <1>1, <1>2, <1>3 DEF Walking

\* The set stays the same if the table and what insert is moving do.
LEMMA SameScores ==
  ASSUME ListInv, ListInv', UNCHANGED <<memberScores, moving>>,
         UNCHANGED asked \/ moving = None
  PROVE  SetScore' = SetScore
<1>1. SetScore = Scores /\ SetScore' = Scores'
  BY ScoreIs, ScoreIsNext
<1>2. Scores' = Scores
  BY DEF Scores
<1> QED BY <1>1, <1>2

\* A command that is begun or ended.
LEMMA DispatchSet ==
  ASSUME SetInv, ListInv', NEW c \in Abstract!Request, Dispatch(c)
  PROVE  Serving' /\ Walking' /\ SetStep
<1>0. /\ pc = "idle" /\ pc' = "asked" /\ asked' = c
      /\ UNCHANGED <<memberScores, reply, moving, out>>
      /\ ListInv /\ Serving
  BY DEF Dispatch, SetInv, list
<1>1. asked = None /\ reply = None /\ out = <<>> /\ moving = None /\ c # None
  BY <1>0, Requests DEF Serving
<1>2. SetScore' = SetScore
  BY <1>0, <1>1, SameScores
<1>3. Serving' /\ Walking'
  BY <1>0, <1>1 DEF Serving, Walking
<1>4. Abstract!Ask(c)
  BY <1>0, <1>1, <1>2 DEF Abstract!Ask
<1> QED BY <1>3, <1>4 DEF SetStep, Abstract!Next

\* A command that is ended.
LEMMA ReplySet ==
  ASSUME SetInv, ListInv', Reply
  PROVE  Serving' /\ Walking' /\ SetStep
<1>0. /\ pc = "replied" /\ pc' = "idle" /\ asked' = None /\ reply' = None
      /\ UNCHANGED <<memberScores, moving, out>>
      /\ ListInv /\ Serving
  BY DEF Reply, SetInv, list
<1>1. asked # None /\ out = <<>> /\ moving = None
  BY <1>0 DEF Serving
<1>2. SetScore' = SetScore
  BY <1>0, <1>1, SameScores
<1>3. Serving' /\ Walking'
  BY <1>0, <1>1 DEF Serving, Walking
<1>4. Abstract!Done
  BY <1>0, <1>1, <1>2 DEF Abstract!Done
<1> QED BY <1>3, <1>4 DEF SetStep, Abstract!Next

\* A query that is answered from the table.
LEMMA LookupSet ==
  ASSUME SetInv, ListInv', ZScore \/ ZCard
  PROVE  Serving' /\ Walking' /\ SetStep
<1>0. /\ pc = "asked" /\ UNCHANGED memberScores /\ ListInv /\ ListPart /\ Serving
  BY DEF ZScore, ZCard, Is, SetInv, ListInv, ListPart, list
<1>1. moving = None /\ reply = None /\ asked \in Abstract!Request
  BY <1>0 DEF Serving
<1>2. PICK r : Return(r) /\ \/ asked.op = "zscore" /\ r = memberScores[asked.member]
                            \/ asked.op = "zcard" /\ r = size
  BY DEF ZScore, ZCard, Is
<1>3. /\ Serving' /\ Walking' /\ UNCHANGED asked /\ reply' = r /\ moving' = None
  BY <1>0, <1>2, ReturnServes
<1>4. SetScore' = SetScore /\ SetScore = memberScores
  BY <1>0, <1>1, <1>3, SameScores, ScoresAtRest
<1>5. Abstract!Cardinality(Abstract!Present) = size
  BY <1>0, <1>4, Ranks, SameCount
<1>6. Abstract!Query
  BY <1>2, <1>3, <1>4, <1>5 DEF Abstract!Query
<1> QED BY <1>1, <1>3, <1>6, Answers

\* Searches, as they begin and as they go.
LEMMA SearchSet ==
  ASSUME SetInv, ListInv', ZAdd \/ ZRangeByScore \/ Search
  PROVE  Serving' /\ Walking' /\ SetStep
<1>0. /\ UNCHANGED <<memberScores, moving, asked, reply, out>> /\ ListInv /\ Serving
      /\ pc # "idle" /\ pc' \in {"search", "found"} /\ pc \in {"asked", "search"}
  BY DEF ZAdd, ZRangeByScore, Search, StartSearch, Is, SetInv, list
<1>1. reply = None /\ out = <<>> /\ asked # None /\ asked \in Abstract!Request
  BY <1>0 DEF Serving
<1>2. SetScore' = SetScore
  BY <1>0, SameScores
<1>3. CASE ZAdd \/ ZRangeByScore
  <2>1. /\ pc = "asked" /\ pc' = "search"
        /\ \/ asked.op = "zadd" /\ goal' = <<asked.score, asked.member>>
           \/ asked.op = "zrangebyscore" /\ goal' = <<asked.min, 0>>
    BY <1>3 DEF ZAdd, ZRangeByScore, StartSearch, Is
  <2>2. moving = None
    BY <1>0, <2>1 DEF Serving
  <2>3. Serving'
    BY <1>0, <1>1, <2>1, <2>2 DEF Serving
  <2> QED BY <1>0, <1>2, <2>1, <2>3 DEF Walking, SetStep
<1>4. CASE Search
  <2>1. pc = "search" /\ goal' = goal
    BY <1>4 DEF Search
  <2>2. Serving'
    BY <1>0, <1>1, <2>1 DEF Serving
  <2> QED BY <1>0, <1>2, <2>2 DEF Walking, SetStep
<1> QED BY <1>3, <1>4

\* What a finished search for a member's own node has found.
LEMMA FoundMember ==
  ASSUME ListInv, pc = "found", NEW m \in Member, NEW s, goal = <<s, m>>
  PROVE  IsThere <=> memberScores[m] = s /\ s # None
<1>0. ListPart
  BY DEF ListInv, ListPart
<1>1. ASSUME NEW c \in Used, entry[c] = goal PROVE memberScores[m] = s /\ s # None
  BY <1>0, <1>1, NodeOf
<1>2. ASSUME memberScores[m] = s, s # None PROVE \E c \in Used : entry[c] = goal
  BY <1>0, <1>2, NodeOf
<1> QED BY <1>1, <1>2, Bottom

\* insert finds the pair, or the member under another score.
LEMMA InsertAgainSet ==
  ASSUME SetInv, ListInv', InsertAgain
  PROVE  Serving' /\ Walking' /\ SetStep
<1> DEFINE m == asked.member
           s == asked.score
<1>0. /\ pc = "found" /\ asked.op = "zadd" /\ goal = <<s, m>> /\ UNCHANGED memberScores
      /\ ListInv /\ Serving
  BY DEF InsertAgain, Inserting, SetInv, list
<1>1. /\ asked \in Abstract!Request /\ asked # None /\ reply = None /\ out = <<>>
      /\ m \in Member /\ s \in Int
  BY <1>0, Requests DEF Serving
<1>2. IsThere <=> memberScores[m] = s /\ s # None
  BY <1>0, <1>1, FoundMember
<1>3. CASE IsThere /\ Return(0)
  <2>1. moving = None
    BY <1>0, <1>2, <1>3 DEF Serving
  <2>2. Serving' /\ Walking' /\ UNCHANGED asked /\ reply' = 0 /\ moving' = None
    BY <1>0, <1>3, ReturnServes
  <2>3. SetScore' = SetScore /\ SetScore = memberScores
    BY <1>0, <2>1, <2>2, SameScores, ScoresAtRest
  <2>4. memberScores = [memberScores EXCEPT ![m] = s]
    BY <1>0, <1>1, <1>2, <1>3 DEF ListInv, ListOK
  <2>5. m \in Abstract!Present
    BY <1>1, <1>2, <1>3, <2>3 DEF Abstract!Present
  <2>6. Abstract!ZAdd
    BY <1>0, <2>2, <2>3, <2>4, <2>5 DEF Abstract!ZAdd
  <2> QED BY <1>1, <2>2, <2>6, Answers
<1>4. CASE /\ ~IsThere /\ memberScores[m] \notin {None, s}
           /\ moving' = memberScores[m] /\ StartSearch(<<memberScores[m], m>>)
  <2>1. /\ pc' = "search" /\ goal' = <<memberScores[m], m>> /\ UNCHANGED <<asked, reply, out>>
    BY <1>4 DEF StartSearch
  <2>2. Serving' /\ Walking'
    BY <1>0, <1>1, <1>4, <2>1 DEF Serving, Walking
  <2>3. Scores' = Scores
    BY <1>0, <1>4, <2>1 DEF Scores
  <2>4. SetScore' = SetScore
    BY <1>0, <2>3, ScoreIs, ScoreIsNext
  <2> QED BY <2>1, <2>2, <2>4 DEF SetStep
<1> QED BY <1>3, <1>4 DEF InsertAgain

\* The new node makes the new score visible, and the old one goes.
LEMMA InsertSet ==
  ASSUME SetInv, ListInv', Insert
  PROVE  Serving' /\ Walking' /\ SetStep
<1> DEFINE m == asked.member
           s == asked.score
           r == IF moving = None THEN 1 ELSE 0
<1>0. /\ pc = "found" /\ asked.op = "zadd" /\ goal = <<s, m>> /\ ~IsThere
      /\ memberScores[m] \in {None, s}
      /\ memberScores' = [memberScores EXCEPT ![m] = s]
      /\ Return(r) /\ ListInv /\ Serving
  BY DEF Insert, Inserting, SetInv
<1>1. /\ asked \in Abstract!Request /\ asked # None /\ reply = None
      /\ m \in Member /\ s \in Int
  BY <1>0, Requests DEF Serving
<1>2. memberScores[m] = None /\ memberScores \in [Member -> Score \cup {None}]
  BY <1>0, <1>1, FoundMember DEF ListInv, ListOK
<1>3. Serving' /\ Walking' /\ UNCHANGED asked /\ reply' = r /\ moving' = None
  BY <1>0, ReturnServes
<1>4. SetScore' = memberScores'
  <2>1. Scores' = memberScores'
    BY <1>0, <1>2, <1>3 DEF Scores
  <2> QED BY <2>1, ScoreIsNext
<1>5. SetScore = Scores /\ Scores = [memberScores EXCEPT ![m] = moving]
  BY <1>0, <1>1, <1>2, ScoreIs DEF Scores
<1>6. SetScore' = [SetScore EXCEPT ![m] = s]
  BY <1>0, <1>2, <1>4, <1>5
<1>7. m \in Abstract!Present <=> moving # None
  BY <1>1, <1>2, <1>5 DEF Abstract!Present
<1>8. Abstract!ZAdd
  BY <1>0, <1>3, <1>6, <1>7 DEF Abstract!ZAdd
<1> QED BY <1>1, <1>3, <1>8, Answers

\* remove, for ZREM or within insert, which keeps the old score in sight.
LEMMA RemoveSet ==
  ASSUME SetInv, ListInv', Remove
  PROVE  Serving' /\ Walking' /\ SetStep
<1> DEFINE m == asked.member
           s == asked.score
<1>0. /\ pc = "found" /\ asked.op \in {"zrem", "zadd"} /\ ~Inserting
      /\ ListInv /\ Serving
  BY DEF Remove, SetInv
<1>1. /\ asked \in Abstract!Request /\ asked # None /\ reply = None /\ out = <<>>
      /\ m \in Member
  BY <1>0, Requests DEF Serving
<1>2. /\ goal = <<memberScores[m], m>> /\ memberScores[m] # None
      /\ asked.op = "zadd" => moving = memberScores[m]
      /\ asked.op = "zrem" => moving = None
  BY <1>0 DEF Serving, Inserting
<1>3. IsThere
  BY <1>0, <1>1, <1>2, FoundMember
<1>4. /\ memberScores' = [memberScores EXCEPT ![m] = None]
      /\ memberScores \in [Member -> Score \cup {None}]
  BY <1>0, <1>3 DEF Remove, ListInv, ListOK
<1>5. CASE asked.op = "zrem"
  <2>1. Return(1)
    BY <1>3, <1>5 DEF Remove
  <2>2. Serving' /\ Walking' /\ UNCHANGED asked /\ reply' = 1 /\ moving' = None
    BY <1>0, <2>1, ReturnServes
  <2>3. SetScore = memberScores
    BY <1>0, <1>2, <1>5, ScoresAtRest
  <2>4. SetScore' = memberScores'
    <3>1. Scores' = memberScores'
      BY <1>4, <2>2 DEF Scores
    <3> QED BY <3>1, ScoreIsNext
  <2>5. m \in Abstract!Present
    BY <1>1, <1>2, <2>3 DEF Abstract!Present
  <2>6. Abstract!ZRem
    BY <1>4, <1>5, <2>2, <2>3, <2>4, <2>5 DEF Abstract!ZRem
  <2> QED BY <1>1, <2>2, <2>6, Answers
<1>6. CASE asked.op = "zadd"
  <2>1. /\ pc' = "search" /\ goal' = <<s, m>> /\ UNCHANGED <<asked, reply, out, moving>>
    BY <1>6 DEF Remove, StartSearch
  <2>2. Serving' /\ Walking'
    BY <1>0, <1>1, <1>2, <1>4, <1>6, <2>1 DEF Serving, Walking
  <2>3. Scores' = Scores
    BY <1>1, <1>2, <1>4, <1>6, <2>1 DEF Scores
  <2>4. SetScore' = SetScore
    BY <1>0, <2>3, ScoreIs, ScoreIsNext
  <2> QED BY <2>1, <2>2, <2>4 DEF SetStep
<1> QED BY <1>0, <1>5, <1>6

\* ZREM looks the member up before it searches.
LEMMA ZRemSet ==
  ASSUME SetInv, ListInv', ZRem
  PROVE  Serving' /\ Walking' /\ SetStep
<1> DEFINE m == asked.member
<1>0. /\ pc = "asked" /\ asked.op = "zrem" /\ UNCHANGED memberScores /\ ListInv /\ Serving
  BY DEF ZRem, Is, SetInv, list
<1>1. /\ asked \in Abstract!Request /\ asked # None /\ reply = None /\ out = <<>>
      /\ m \in Member /\ moving = None
  BY <1>0, Requests DEF Serving
<1>2. SetScore = memberScores /\ memberScores \in [Member -> Score \cup {None}]
  BY <1>0, <1>1, ScoresAtRest DEF ListInv, ListOK
<1>3. CASE memberScores[m] = None /\ Return(0)
  <2>1. Serving' /\ Walking' /\ UNCHANGED asked /\ reply' = 0 /\ moving' = None
    BY <1>0, <1>3, ReturnServes
  <2>2. SetScore' = SetScore
    BY <1>0, <1>1, <2>1, SameScores
  <2>3. m \notin Abstract!Present /\ memberScores = [memberScores EXCEPT ![m] = None]
    BY <1>1, <1>2, <1>3 DEF Abstract!Present
  <2>4. Abstract!ZRem
    BY <1>0, <1>2, <2>1, <2>2, <2>3 DEF Abstract!ZRem
  <2> QED BY <1>1, <2>1, <2>4, Answers
<1>4. CASE memberScores[m] # None /\ StartSearch(<<memberScores[m], m>>) /\ UNCHANGED moving
  <2>1. /\ pc' = "search" /\ goal' = <<memberScores[m], m>> /\ UNCHANGED <<asked, reply, out>>
    BY <1>4 DEF StartSearch
  <2>2. Serving' /\ Walking'
    BY <1>0, <1>1, <1>4, <2>1 DEF Serving, Walking
  <2>3. SetScore' = SetScore
    BY <1>0, <1>4, <2>1, SameScores
  <2> QED BY <2>1, <2>2, <2>3 DEF SetStep
<1> QED BY <1>3, <1>4 DEF ZRem

-----------------------------------------------------------------------------
\* Ranks and what has been passed depend on the nodes only.
LEMMA SameNodes ==
  ASSUME UNCHANGED list
  PROVE  /\ Used' = Used /\ entry' = entry /\ forward' = forward /\ memberScores' = memberScores
         /\ size' = size /\ Passed' = PassedAt(cur')
         /\ \A c : NodeRank(c)' = NodeRank(c)
         /\ \A s : Below(s)' = Below(s)
<1>1. /\ Used' = Used /\ entry' = entry /\ forward' = forward /\ memberScores' = memberScores
      /\ size' = size
  BY DEF list, Used
<1> QED BY <1>1 DEF Passed, PassedAt, NodeRank, Below

\* The first rank that is collected is not negative.
LEMMA FirstRank ==
  ASSUME ListPart, asked \in Abstract!Request, asked.op \in {"zrange", "zrank", "zrangebyscore"}
  PROVE  First \in Nat
<1>1. Start \in Int
  BY Requests DEF Start
<1>2. ASSUME NEW s PROVE Cardinality(Below(s)) \in Nat
  <2>1. Below(s) \subseteq Used
    BY DEF Below
  <2> QED BY <2>1, Entries, FS_Subset, FS_CardinalityType
<1> QED BY <1>1, <1>2 DEF First

\* range_by_rank and range_by_score set out with an empty vector.
LEMMA WalkBegins ==
  ASSUME SetInv, ListInv', UNCHANGED <<list, asked, reply, moving, out>>,
         pc \in {"asked", "found"}, pc' = "walk",
         \/ /\ asked.op = "zrange" \/ (asked.op = "zrank" /\ memberScores[asked.member] # None)
            /\ cur' = forward[HeadNode][1] /\ i' = 0
         \/ asked.op = "zrangebyscore" /\ pc = "found" /\ cur' = Target
  PROVE  Serving' /\ Walking' /\ SetStep
<1>0. /\ Serving /\ ListInv /\ ListPart
  BY DEF SetInv, ListInv, ListPart
<1>1. /\ Used' = Used /\ entry' = entry /\ memberScores' = memberScores /\ size' = size
      /\ Passed' = PassedAt(cur') /\ \A s : Below(s)' = Below(s)
  BY SameNodes
<1>2. /\ asked \in Abstract!Request /\ asked # None /\ reply = None /\ out = <<>>
      /\ moving # None => asked.op = "zadd"
  BY <1>0 DEF Serving
<1>3. moving = None
  BY <1>2
<1>4. SetScore' = SetScore
  BY <1>0, <1>1, <1>3, SameScores
<1>5. Serving'
  BY <1>2, <1>3 DEF Serving
<1>6. First' = First
  BY <1>1 DEF First, Start
<1>7. First \in Nat
  BY <1>0, <1>2, FirstRank
<1>8. out' = <<>> /\ <<>> \in Seq(Pair) /\ Len(<<>>) = 0
  BY <1>2
<1>9. CASE /\ asked.op = "zrange" \/ (asked.op = "zrank" /\ memberScores[asked.member] # None)
           /\ cur' = forward[HeadNode][1] /\ i' = 0
  <2>1. cur' \in Used' \cup {Nil} /\ Passed' = {}
    BY <1>0, <1>1, <1>9, WalkStarts
  <2>2. Cardinality(Passed') = 0
    BY <2>1, FS_EmptySet
  <2>3. Len(out') = IF Cardinality(Passed') > First' THEN Cardinality(Passed') - First' ELSE 0
    BY <1>6, <1>7, <1>8, <2>2
  <2>4. Walking'
    BY <1>1, <1>8, <1>9, <2>1, <2>2, <2>3 DEF Walking
  <2> QED BY <1>4, <1>5, <2>4 DEF SetStep
<1>10. CASE asked.op = "zrangebyscore" /\ pc = "found" /\ cur' = Target
  <2>0. asked.min \in Score /\ goal = <<asked.min, 0>>
    BY <1>0, <1>2, <1>10, Requests DEF Serving
  <2>1. cur' \in Used' \cup {Nil} /\ Passed' = Below(asked.min)
    BY <1>0, <1>1, <1>10, <2>0, RangeStarts
  <2>2. Cardinality(Passed') = First
    BY <1>10, <2>1 DEF First
  <2>3. Len(out') = IF Cardinality(Passed') > First' THEN Cardinality(Passed') - First' ELSE 0
    BY <1>6, <1>7, <1>8, <2>2
  <2>4. \A c \in Passed' : entry'[c][1] < asked'.min
    BY <1>1, <2>1 DEF Below
  <2>5. Walking'
    BY <1>1, <1>8, <1>10, <2>1, <2>3, <2>4 DEF Walking
  <2> QED BY <1>4, <1>5, <2>5 DEF SetStep
<1> QED BY <1>9, <1>10

\* ZRANGE starts at the head of the list, ZRANGEBYSCORE where its search has led.
LEMMA RangeSet ==
  ASSUME SetInv, ListInv', ZRange \/ CollectStart
  PROVE  Serving' /\ Walking' /\ SetStep
<1>1. CASE ZRange
  BY <1>1, WalkBegins DEF ZRange, StartWalk, Is
<1>2. CASE CollectStart
  BY <1>2, WalkBegins DEF CollectStart
<1> QED BY <1>1, <1>2

\* ZRANK of an unknown member is answered from the table, of a known one by a walk.
LEMMA ZRankSet ==
  ASSUME SetInv, ListInv', ZRank
  PROVE  Serving' /\ Walking' /\ SetStep
<1>0. /\ pc = "asked" /\ asked.op = "zrank" /\ ListInv /\ Serving
  BY DEF ZRank, Is, SetInv
<1>1. CASE memberScores[asked.member] # None /\ StartWalk
  BY <1>0, <1>1, WalkBegins DEF StartWalk
<1>2. CASE memberScores[asked.member] = None /\ Return(-1) /\ UNCHANGED list
  <2>1. asked \in Abstract!Request /\ reply = None /\ moving = None
    BY <1>0 DEF Serving
  <2>2. Serving' /\ Walking' /\ UNCHANGED asked /\ reply' = -1 /\ moving' = None
    BY <1>0, <1>2, ReturnServes
  <2>3. SetScore' = SetScore /\ SetScore = memberScores
    BY <1>0, <1>2, <2>1, <2>2, SameScores, ScoresAtRest DEF list
  <2>4. asked.member \notin Abstract!Present
    BY <1>2, <2>3 DEF Abstract!Present
  <2>5. Abstract!Query
    BY <1>0, <2>2, <2>3, <2>4 DEF Abstract!Query
  <2> QED BY <2>1, <2>2, <2>5, Answers
<1> QED BY <1>1, <1>2 DEF ZRank

\* One more node is passed, and collected if its rank is asked for.
LEMMA WalkOn ==
  ASSUME SetInv, ListInv', Walk, cur # Nil, InRange
  PROVE  Serving' /\ Walking' /\ SetStep
<1> DEFINE n == NodeRank(cur)
           takes == asked.op = "zrangebyscore" \/ i >= Start
<1>0. /\ pc = "walk" /\ pc' = "walk" /\ UNCHANGED <<list, asked, reply, moving>>
      /\ out' = IF takes THEN Append(out, entry[cur]) ELSE out
      /\ cur' = forward[cur][1]
      /\ i' = IF asked.op = "zrangebyscore" THEN i ELSE i + 1
      /\ Serving /\ Walking /\ ListInv /\ ListPart
  BY DEF Walk, SetInv, ListInv, ListPart
<1>1. /\ Used' = Used /\ entry' = entry /\ memberScores' = memberScores /\ size' = size
      /\ Passed' = PassedAt(cur') /\ (\A s : Below(s)' = Below(s))
      /\ \A c : NodeRank(c)' = NodeRank(c)
  BY <1>0, SameNodes
<1>2. /\ asked \in Abstract!Request /\ asked # None /\ reply = None /\ moving = None
  BY <1>0 DEF Serving
<1>3. /\ cur \in Used /\ out \in Seq(Pair)
      /\ Len(out) = IF Cardinality(Passed) > First THEN Cardinality(Passed) - First ELSE 0
      /\ \A k \in 1 .. Len(out) : \E c \in Used : out[k] = entry[c] /\ NodeRank(c) = First + k - 1
      /\ \/ /\ asked.op = "zrange" \/ (asked.op = "zrank" /\ memberScores[asked.member] # None)
            /\ i = Cardinality(Passed) /\ (i = 0 \/ i <= Stop + 1)
         \/ /\ asked.op = "zrangebyscore" /\ Below(asked.min) \subseteq Passed
            /\ \A c \in Passed : entry[c][1] < asked.min \/ entry[c][1] <= asked.max
  BY <1>0 DEF Walking
<1>4. /\ cur' \in Used \cup {Nil} /\ Passed' = Passed \cup {cur}
      /\ Cardinality(Passed) = n /\ Cardinality(Passed') = n + 1 /\ n \in Nat
  BY <1>0, <1>1, <1>3, Advance DEF Passed
<1>5. First' = First /\ First \in Nat /\ Stop' = Stop
  BY <1>0, <1>1, <1>2, <1>3, FirstRank DEF First, Start, Stop
<1>6. takes <=> n >= First
  <2>1. CASE asked.op = "zrangebyscore"
    <3>1. Below(asked.min) \subseteq Passed /\ First = Cardinality(Below(asked.min))
      BY <1>3, <2>1 DEF First
    <3>2. IsFiniteSet(Passed)
      <4>1. Passed \subseteq Used
        BY DEF Passed, PassedAt
      <4> QED BY <1>0, <4>1, Entries, FS_Subset
    <3>3. First <= Cardinality(Passed)
      BY <3>1, <3>2, FS_Subset
    <3> QED BY <1>4, <1>5, <2>1, <3>3
  <2>2. CASE asked.op # "zrangebyscore"
    <3>1. i = n
      BY <1>3, <1>4, <2>2
    <3>2. First = IF Start < 0 THEN 0 ELSE Start
      BY <2>2 DEF First
    <3>3. Start \in Int
      BY <1>2, <1>3, Requests DEF Start
    <3> QED BY <1>4, <2>2, <3>1, <3>2, <3>3
  <2> QED BY <2>1, <2>2
<1>7. entry[cur] \in Pair
  BY <1>0, <1>3, Entries
<1> HIDE DEF n, takes
<1>8. /\ out' \in Seq(Pair)
      /\ Len(out') = IF n + 1 > First THEN n + 1 - First ELSE 0
      /\ \A k \in 1 .. Len(out') : \E c \in Used : out'[k] = entry[c] /\ NodeRank(c) = First + k - 1
  <2>0. Len(out) = IF n > First THEN n - First ELSE 0
    BY <1>3, <1>4
  <2>1. CASE takes
    <3>1. /\ out' = Append(out, entry[cur]) /\ out' \in Seq(Pair) /\ Len(out') = Len(out) + 1
          /\ (\A k \in 1 .. Len(out) : out'[k] = out[k]) /\ out'[Len(out) + 1] = entry[cur]
          /\ Len(out) \in Nat
      BY <1>0, <1>3, <1>7, <2>1
    <3>2. n >= First /\ Len(out) = n - First
      BY <1>4, <1>5, <1>6, <2>0, <2>1
    <3>3. ASSUME NEW k \in 1 .. Len(out')
          PROVE  \E c \in Used : out'[k] = entry[c] /\ NodeRank(c) = First + k - 1
      <4>1. CASE k \in 1 .. Len(out)
        BY <1>3, <3>1, <4>1
      <4>2. CASE k = Len(out) + 1
        <5>1. out'[k] = entry[cur] /\ NodeRank(cur) = First + k - 1
          BY <1>4, <1>5, <3>1, <3>2, <4>2 DEF n
        <5> QED BY <1>3, <5>1
      <4> QED BY <3>1, <4>1, <4>2
    <3> QED BY <1>4, <1>5, <3>1, <3>2, <3>3
  <2>2. CASE ~takes
    BY <1>0, <1>3, <1>4, <1>5, <1>6, <2>0, <2>2
  <2> QED BY <2>1, <2>2
<1>9. Serving'
  BY <1>0, <1>1, <1>2 DEF Serving
<1>10. \/ /\ asked.op = "zrange" \/ (asked.op = "zrank" /\ memberScores[asked.member] # None)
          /\ i' = n + 1 /\ i' <= Stop + 1
       \/ /\ asked.op = "zrangebyscore" /\ Below(asked.min) \subseteq Passed'
          /\ \A c \in Passed' : entry[c][1] < asked.min \/ entry[c][1] <= asked.max
  <2>1. CASE asked.op = "zrangebyscore"
    BY <1>3, <1>4, <2>1 DEF InRange
  <2>2. CASE asked.op # "zrangebyscore"
    <3>1. i = n /\ i' = i + 1 /\ i <= Stop /\ Stop \in Int
      BY <1>0, <1>2, <1>3, <1>4, <2>2, Requests DEF InRange, Stop, ListInv, ListOK
    <3> QED BY <1>3, <1>4, <2>2, <3>1
  <2> QED BY <2>1, <2>2
<1>11. Walking'
  <2>1. /\ cur' \in Used' \cup {Nil} /\ out' \in Seq(Pair)
        /\ Len(out') = IF Cardinality(Passed') > First' THEN Cardinality(Passed') - First' ELSE 0
        /\ \A k \in 1 .. Len(out') :
             \E c \in Used' : out'[k] = entry'[c] /\ NodeRank(c)' = First' + k - 1
    <3>1. ASSUME NEW k \in 1 .. Len(out')
          PROVE  \E c \in Used' : out'[k] = entry'[c] /\ NodeRank(c)' = First' + k - 1
      <4>1. PICK c \in Used : out'[k] = entry[c] /\ NodeRank(c) = First + k - 1
        BY <1>8
      <4>2. out'[k] = entry'[c] /\ NodeRank(c)' = First' + k - 1 /\ c \in Used'
        BY <1>1, <1>5, <4>1
      <4> QED BY <4>2
    <3>2. cur' \in Used' \cup {Nil} /\ out' \in Seq(Pair)
      BY <1>1, <1>4, <1>8
    <3>3. Len(out') = IF Cardinality(Passed') > First' THEN Cardinality(Passed') - First' ELSE 0
      BY <1>4, <1>5, <1>8
    <3> QED BY <3>1, <3>2, <3>3
  <2>2. \/ /\ asked'.op = "zrange" \/ (asked'.op = "zrank" /\ memberScores'[asked'.member] # None)
           /\ i' = Cardinality(Passed') /\ (i' = 0 \/ i' <= Stop' + 1)
        \/ /\ asked'.op = "zrangebyscore" /\ Below(asked.min)' \subseteq Passed'
           /\ \A c \in Passed' : entry'[c][1] < asked'.min \/ entry'[c][1] <= asked'.max
    <3>1. asked' = asked /\ Below(asked.min)' = Below(asked.min)
      BY <1>0, <1>1 DEF Below
    <3>2. CASE asked.op # "zrangebyscore"
      BY <1>1, <1>4, <1>5, <1>10, <3>1, <3>2
    <3>3. CASE asked.op = "zrangebyscore"
      BY <1>1, <1>10, <3>1, <3>3
    <3> QED BY <3>2, <3>3
  <2> QED BY <2>1, <2>2 DEF Walking
<1>12. SetScore' = SetScore
  BY <1>0, <1>1, SameScores
<1> QED BY <1>0, <1>9, <1>11, <1>12 DEF SetStep

\* Where a walk may stop, what it has passed is what the set asks for.
LEMMA StopsRight ==
  ASSUME SetInv, pc = "walk", ~(cur # Nil /\ InRange)
  PROVE  /\ First \in Nat /\ Cardinality(Passed) \in Nat
         /\ asked.op = "zrange" =>
              LET last == Abstract!Least(asked.stop, size - 1)
              IN  /\ last \in Int
                  /\ (IF Cardinality(Passed) > First THEN Cardinality(Passed) - First ELSE 0)
                       = IF last - First + 1 > 0 THEN last - First + 1 ELSE 0
         /\ asked.op = "zrank" => Cardinality(Passed) = size
         /\ asked.op = "zrangebyscore" =>
              LET last == Cardinality({c \in Used : entry[c][1] <= asked.max}) - 1
              IN  /\ last \in Int
                  /\ (IF Cardinality(Passed) > First THEN Cardinality(Passed) - First ELSE 0)
                       = IF last - First + 1 > 0 THEN last - First + 1 ELSE 0
<1> DEFINE n == Cardinality(Passed)
<1>0. ListInv /\ ListPart /\ Serving /\ Walking
  BY DEF SetInv, ListInv, ListPart
<1>1. /\ asked \in Abstract!Request /\ cur \in Used \cup {Nil}
      /\ \/ /\ asked.op = "zrange" \/ (asked.op = "zrank" /\ memberScores[asked.member] # None)
            /\ i = n /\ (i = 0 \/ i <= Stop + 1)
         \/ /\ asked.op = "zrangebyscore" /\ Below(asked.min) \subseteq Passed
            /\ \A c \in Passed : entry[c][1] < asked.min \/ entry[c][1] <= asked.max
  BY <1>0 DEF Walking, Serving
<1>2. First \in Nat
  BY <1>0, <1>1, FirstRank
<1>3. /\ IsFiniteSet(Used) /\ Cardinality(Used) = size /\ Passed \subseteq Used
      /\ \A c \in Used : entry[c][1] \in Int
  BY <1>0, Entries, NodeOf DEF Passed, PassedAt, ListPart, Tabled
<1>4. n \in Nat /\ size \in Nat
  BY <1>3, FS_Subset, FS_CardinalityType
<1>5. /\ cur = Nil => Passed = Used /\ n = size
      /\ cur # Nil => n < size
  <2>1. CASE cur = Nil
    BY <1>3, <2>1 DEF Passed, PassedAt
  <2>2. CASE cur # Nil
    BY <1>0, <1>1, <2>2, Advance DEF Passed
  <2> QED BY <2>1, <2>2
<1>6. ASSUME asked.op = "zrange"
      PROVE  LET last == Abstract!Least(asked.stop, size - 1)
             IN  /\ last \in Int
                 /\ (IF n > First THEN n - First ELSE 0)
                      = IF last - First + 1 > 0 THEN last - First + 1 ELSE 0
  <2>1. asked.stop \in Int /\ i = n /\ (n = 0 \/ n <= asked.stop + 1)
    BY <1>1, <1>6, Requests DEF Stop
  <2>2. cur # Nil => n > asked.stop
    BY <1>4, <1>6, <2>1 DEF InRange, Stop
  <2> HIDE DEF n
  <2>3. CASE n = 0
    BY <1>2, <1>4, <1>5, <2>1, <2>2, <2>3 DEF Abstract!Least
  <2>4. CASE n # 0
    BY <1>2, <1>4, <1>5, <2>1, <2>2, <2>4 DEF Abstract!Least
  <2> QED BY <2>3, <2>4
<1>7. ASSUME asked.op = "zrank" PROVE n = size
  BY <1>1, <1>4, <1>5, <1>7 DEF InRange, Stop
<1>8. ASSUME asked.op = "zrangebyscore"
      PROVE  LET last == Cardinality({c \in Used : entry[c][1] <= asked.max}) - 1
             IN  /\ last \in Int
                 /\ (IF n > First THEN n - First ELSE 0)
                      = IF last - First + 1 > 0 THEN last - First + 1 ELSE 0
  <2> DEFINE A == {c \in Used : entry[c][1] <= asked.max}
             B == Below(asked.min)
  <2>0. /\ asked.min \in Int /\ asked.max \in Int /\ B \subseteq Passed /\ First = Cardinality(B)
        /\ \A c \in Passed : entry[c][1] < asked.min \/ entry[c][1] <= asked.max
        /\ A \subseteq Used
    BY <1>1, <1>8, Requests DEF First
  <2>1. Cardinality(A) \in Nat /\ IsFiniteSet(A)
    BY <1>3, <2>0, FS_Subset, FS_CardinalityType
  <2>2. CASE asked.min <= asked.max
    <3>1. Passed \subseteq A
      BY <1>3, <2>0, <2>2
    <3>2. ASSUME NEW c \in A PROVE c \in Passed
      <4>1. CASE cur = Nil
        BY <1>5, <4>1
      <4>2. CASE cur # Nil
        <5>1. cur \in Used /\ ~(entry[cur][1] <= asked.max)
          BY <1>1, <1>8, <4>2 DEF InRange
        <5>2. entry[c][1] < entry[cur][1]
          BY <1>3, <2>0, <5>1
        <5> QED BY <5>2 DEF Passed, PassedAt, LessPair
      <4> QED BY <4>1, <4>2
    <3>3. Passed = A
      BY <3>1, <3>2
    <3>4. n = Cardinality(A)
      BY <3>3
    <3> HIDE DEF n, A, B
    <3>5. /\ Cardinality(A) - 1 \in Int
          /\ (IF n > First THEN n - First ELSE 0)
               = IF (Cardinality(A) - 1) - First + 1 > 0 THEN (Cardinality(A) - 1) - First + 1 ELSE 0
      BY <1>2, <1>4, <2>1, <3>4
    <3> QED BY <3>5 DEF A
  <2>3. CASE asked.min > asked.max
    <3>1. Passed = B
      BY <1>3, <2>0, <2>3 DEF Below
    <3>2. A \subseteq B /\ IsFiniteSet(B)
      BY <1>3, <2>0, <2>3, FS_Subset DEF Below
    <3>3. Cardinality(A) <= First /\ n = First
      BY <2>0, <3>1, <3>2, FS_Subset
    <3> HIDE DEF n, A, B
    <3>4. /\ Cardinality(A) - 1 \in Int
          /\ (IF n > First THEN n - First ELSE 0)
               = IF (Cardinality(A) - 1) - First + 1 > 0 THEN (Cardinality(A) - 1) - First + 1 ELSE 0
      BY <1>2, <1>4, <2>1, <3>3
    <3> QED BY <3>4 DEF A
  <2> QED BY <2>0, <2>2, <2>3
<1> QED BY <1>2, <1>4, <1>6, <1>7, <1>8

\* zrank finds its member in the vector of all nodes at its rank.
LEMMA RankInAll ==
  ASSUME ListPart, SetScore = memberScores, NEW m \in Member, memberScores[m] # None,
         NEW o \in Seq(Pair), Len(o) = size,
         \A k \in 1 .. Len(o) : \E c \in Used : o[k] = entry[c] /\ NodeRank(c) = k - 1
  PROVE  Min({k \in DOMAIN o : o[k][2] = m}) - 1 = Abstract!Rank(m)
<1>1. PICK c \in Used : entry[c] = <<memberScores[m], m>> /\ entry[c][2] = m
  BY NodeOf
<1> DEFINE r == NodeRank(c)
<1>2. r \in Nat /\ r < size /\ size \in Int
  BY Advance DEF ListPart, ListOK
<1>3. r + 1 \in 1 .. Len(o) /\ DOMAIN o = 1 .. Len(o)
  BY <1>2
<1>4. o[r + 1][2] = m
  <2>1. PICK d \in Used : o[r + 1] = entry[d] /\ NodeRank(d) = (r + 1) - 1
    BY <1>3
  <2>2. d = c
    BY <1>2, <2>1, RankUnique
  <2> QED BY <1>1, <2>1, <2>2
<1>5. ASSUME NEW k \in 1 .. Len(o), o[k][2] = m PROVE k = r + 1
  <2>1. PICK d \in Used : o[k] = entry[d] /\ NodeRank(d) = k - 1
    OBVIOUS
  <2>2. d = c
    BY <1>1, <1>5, <2>1 DEF ListPart, Tabled
  <2> QED BY <1>2, <2>1, <2>2
<1> HIDE DEF r
<1>6. {k \in DOMAIN o : o[k][2] = m} = {r + 1}
  BY <1>3, <1>4, <1>5
<1>7. Min({r + 1}) = r + 1
  <2>1. IsFiniteSet({r + 1})
    BY FS_Singleton, Zenon
  <2>2. {r + 1} \subseteq Int /\ {r + 1} # {}
    BY <1>2
  <2>3. Min({r + 1}) \in {r + 1}
    BY <2>1, <2>2, MinMax
  <2> QED BY <2>3
<1>8. Abstract!Rank(m) = r
  BY <1>1, Ranks DEF r
<1>9. Min({k \in DOMAIN o : o[k][2] = m}) = r + 1
  BY <1>6, <1>7, Zenon
<1> QED BY <1>2, <1>8, <1>9

\* The walk ends, and returns what the set answers.
LEMMA WalkEnds ==
  ASSUME SetInv, ListInv', Walk, ~(cur # Nil /\ InRange)
  PROVE  Serving' /\ Walking' /\ SetStep
<1> DEFINE r == IF asked.op # "zrank" THEN out
                ELSE Min({k \in DOMAIN out : out[k][2] = asked.member}) - 1
<1>0. /\ pc = "walk" /\ UNCHANGED memberScores /\ Return(r)
      /\ ListInv /\ ListPart /\ Serving /\ Walking
  BY DEF Walk, SetInv, ListInv, ListPart, list
<1>1. /\ asked \in Abstract!Request /\ reply = None /\ moving = None
  BY <1>0 DEF Serving
<1>2. Serving' /\ Walking' /\ UNCHANGED asked /\ reply' = r /\ moving' = None
  BY <1>0, ReturnServes
<1>3. SetScore' = SetScore /\ SetScore = memberScores
  BY <1>0, <1>1, <1>2, SameScores, ScoresAtRest
<1>4. /\ out \in Seq(Pair) /\ First \in Nat /\ Cardinality(Passed) \in Nat
      /\ Len(out) = IF Cardinality(Passed) > First THEN Cardinality(Passed) - First ELSE 0
      /\ \A k \in 1 .. Len(out) : \E c \in Used : out[k] = entry[c] /\ NodeRank(c) = First + k - 1
      /\ asked.op \in {"zrange", "zrank", "zrangebyscore"}
      /\ asked.op = "zrank" => memberScores[asked.member] # None
  BY <1>0, StopsRight DEF Walking
<1>5. Abstract!Cardinality(Abstract!Present) = size
  BY <1>0, <1>3, Ranks, SameCount
<1>6. Collected(out, First) /\ First \in Int
  BY <1>4 DEF Collected
<1>7. CASE asked.op = "zrange"
  <2> DEFINE last == Abstract!Least(asked.stop, size - 1)
  <2>1. /\ last \in Int
        /\ Len(out) = IF last - First + 1 > 0 THEN last - First + 1 ELSE 0
    BY <1>0, <1>4, <1>7, StopsRight
  <2> HIDE DEF last
  <2>2. Abstract!Ranked(First, last) = out
    BY <1>0, <1>3, <1>4, <1>6, <2>1, RankedIs
  <2>3. First = IF asked.start < 0 THEN 0 ELSE asked.start
    BY <1>7 DEF First, Start
  <2>4. reply' = Abstract!Ranked(IF asked.start < 0 THEN 0 ELSE asked.start,
                   Abstract!Least(asked.stop, Abstract!Cardinality(Abstract!Present) - 1))
    BY <1>2, <1>5, <1>7, <2>2, <2>3 DEF last
  <2>5. Abstract!Query
    BY <1>3, <1>7, <2>4 DEF Abstract!Query
  <2> QED BY <1>1, <1>2, <2>5, Answers
<1>8. CASE asked.op = "zrank"
  <2>1. First = 0 /\ Cardinality(Passed) = size
    BY <1>0, <1>8, StopsRight DEF First, Start
  <2>2. /\ Len(out) = size
        /\ \A k \in 1 .. Len(out) : \E c \in Used : out[k] = entry[c] /\ NodeRank(c) = k - 1
    BY <1>4, <2>1
  <2>3. asked.member \in Member
    BY <1>1, <1>8, Requests
  <2>4. r = Abstract!Rank(asked.member)
    BY <1>0, <1>3, <1>4, <1>8, <2>2, <2>3, RankInAll
  <2>5. asked.member \in Abstract!Present
    BY <1>3, <1>4, <1>8, <2>3 DEF Abstract!Present
  <2>6. Abstract!Query
    BY <1>2, <1>3, <1>8, <2>4, <2>5 DEF Abstract!Query
  <2> QED BY <1>1, <1>2, <2>6, Answers
<1>9. CASE asked.op = "zrangebyscore"
  <2> DEFINE last == Cardinality({c \in Used : entry[c][1] <= asked.max}) - 1
  <2>1. /\ last \in Int
        /\ Len(out) = IF last - First + 1 > 0 THEN last - First + 1 ELSE 0
    BY <1>0, <1>4, <1>9, StopsRight
  <2>2. /\ First = Abstract!Cardinality({m \in Abstract!Present : SetScore[m] < asked.min})
        /\ last = Abstract!Cardinality({m \in Abstract!Present : SetScore[m] <= asked.max}) - 1
    <3>1. asked.min \in Int /\ asked.max \in Int
      BY <1>1, <1>9, Requests
    <3>2. First = Cardinality(Below(asked.min))
      BY <1>9 DEF First
    <3> QED BY <1>0, <1>3, <3>1, <3>2, Ranks, SameCount
  <2> HIDE DEF last
  <2>3. Abstract!Ranked(First, last) = out
    BY <1>0, <1>3, <1>4, <1>6, <2>1, RankedIs
  <2>4. reply' = Abstract!Ranked(
                   Abstract!Cardinality({m \in Abstract!Present : SetScore[m] < asked.min}),
                   Abstract!Cardinality({m \in Abstract!Present : SetScore[m] <= asked.max}) - 1)
    BY <1>2, <1>9, <2>2, <2>3
  <2>5. Abstract!Query
    BY <1>3, <1>9, <2>4 DEF Abstract!Query
  <2> QED BY <1>1, <1>2, <2>5, Answers
<1> QED BY <1>4, <1>7, <1>8, <1>9

\* Every step of every command keeps to the sorted set.
LEMMA SetInvNext == SetInv /\ [Next]_vars => SetInv' /\ SetStep
<1> SUFFICES ASSUME SetInv, [Next]_vars PROVE Serving' /\ Walking' /\ SetStep /\ ListInv'
  BY DEF SetInv
<1>0. ListInv'
  BY ListInvNext DEF SetInv
<1>1. CASE UNCHANGED vars
  <2>1. SetScore' = SetScore /\ UNCHANGED <<asked, reply>>
    BY <1>0, <1>1, SameScores DEF vars, list, SetInv
  <2>2. Serving'
    BY <1>1 DEF vars, list, Serving, SetInv
  <2>3. Walking'
    <3>1. UNCHANGED list /\ UNCHANGED <<pc, cur, out, asked, i>>
      BY <1>1 DEF vars
    <3>2. Used' = Used /\ Passed' = Passed /\ entry' = entry /\ memberScores' = memberScores
          /\ size' = size
      BY <3>1, SameNodes DEF Passed
    <3>3. First' = First /\ Stop' = Stop /\ (\A c : NodeRank(c)' = NodeRank(c))
          /\ Below(asked.min)' = Below(asked.min)
      BY <3>1, <3>2, SameNodes DEF First, Start, Stop, Below
    <3> QED BY <3>1, <3>2, <3>3 DEF Walking, SetInv
  <2> QED BY <1>0, <2>1, <2>2, <2>3 DEF SetStep
<1>2. CASE \E c \in Abstract!Request : Dispatch(c)
  BY <1>0, <1>2, DispatchSet
<1>3. CASE Walk
  BY <1>0, <1>3, WalkOn, WalkEnds
<1>4. CASE \/ ZAdd \/ ZRem \/ ZScore \/ ZCard \/ ZRange \/ ZRangeByScore \/ ZRank
           \/ Search \/ InsertAgain \/ Insert \/ Remove \/ CollectStart \/ Reply
  BY <1>0, <1>4, SearchSet, ZRemSet, LookupSet, RangeSet, ZRankSet, InsertAgainSet, InsertSet,
     RemoveSet, ReplySet
<1> QED BY <1>1, <1>2, <1>3, <1>4 DEF Next

\* Whatever heights are drawn, every command answers what a sorted set of the
\* same history answers and changes it in one step: a member that is moved never
\* shows as gone, ranges by rank and by score come complete and in order, and
\* ranks count exactly what is before
\* (skiplist.cpp:48-187, sorted_set_engine.cpp:21-76).
THEOREM ListImplementsSortedSet == Spec => ImplementsSortedSet
<1>1. Init => SetInv /\ Abstract!Init
  <2> SUFFICES ASSUME Init PROVE Serving /\ Walking /\ Abstract!Init
    BY ListInvInit DEF SetInv
  <2>1. Serving /\ Walking
    BY DEF Init, Serving, Walking
  <2>2. SetScore = [m \in Member |-> None]
    BY ListInvInit, ScoresAtRest DEF Init
  <2> QED BY <2>1, <2>2 DEF Init, Abstract!Init
<1>2. SetInv /\ [Next]_vars => SetInv' /\ [Abstract!Next]_<<SetScore, asked, reply>>
  BY SetInvNext DEF SetStep
<1> QED BY <1>1, <1>2, PTL DEF Spec, ImplementsSortedSet, Abstract!Spec, Abstract!vars
=============================================================================
