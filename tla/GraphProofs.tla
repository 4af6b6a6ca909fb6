---------------------------- MODULE GraphProofs ----------------------------
(***************************************************************************)
(* Proofs about the graph, for any nodes, relations, keys and values.      *)
(* First the lists of DynamicGraph: the reverse lists mirror the forward   *)
(* lists, a removed node is mentioned nowhere, and edge_count_ is exact as *)
(* long as remove_edge is not called.  The bounds of DynamicGraph only     *)
(* restrict AddEdge and RemoveEdge further and are not used.               *)
(*                                                                         *)
(* Then the engine under the commands of the dispatcher.  The inductive    *)
(* invariant says that an index entry can be found from its node: the      *)
(* value a node is listed under is among those node_entries_ has recorded  *)
(* for it.  Nothing else would let remove_node, which only looks there,    *)
(* clean every list.                                                       *)
(***************************************************************************)
EXTENDS Dispatcher, FiniteSetTheorems, TLAPS

\* The part of TypeOK that the argument needs.
ListsOK == /\ adj \in [Node -> [Link -> Nat]]
           /\ radj \in [Node -> [Link -> Nat]]

GraphInv == ListsOK /\ Mirror

\* DropTo and DropLink return lists.
LEMMA DropType ==
  ASSUME NEW links \in [Link -> Nat], NEW x \in Node, NEW r \in Rel
  PROVE  /\ DropTo(links, x) \in [Link -> Nat]
         /\ DropLink(links, x, r) \in [Link -> Nat]
  BY DEF DropTo, DropLink

\* What the lists look like after remove_node, given that they mirrored each
\* other: every entry with the node at either end is gone, the others stay.
LEMMA RemoveNodeEffect ==
  ASSUME GraphInv, NEW id \in Node, RemoveNode(id)
  PROVE  /\ adj' \in [Node -> [Link -> Nat]]
         /\ radj' \in [Node -> [Link -> Nat]]
         /\ \A x, y \in Node, r \in Rel :
              /\ adj'[x][<<y, r>>] = IF x = id \/ y = id THEN 0 ELSE adj[x][<<y, r>>]
              /\ radj'[x][<<y, r>>] = IF x = id \/ y = id THEN 0 ELSE radj[x][<<y, r>>]
<1> DEFINE radj1 == [x \in Node |-> IF LinksTo(adj[id], x) THEN DropTo(radj[x], id)
                                                           ELSE radj[x]]
           adj1  == [adj EXCEPT ![id] = NoLinks]
<1>1. /\ adj \in [Node -> [Link -> Nat]] /\ radj \in [Node -> [Link -> Nat]]
      /\ \A x, y \in Node, r \in Rel : adj[x][<<y, r>>] = radj[y][<<x, r>>]
  BY DEF GraphInv, ListsOK, Mirror
<1>2. /\ adj' = [x \in Node |-> IF LinksTo(radj1[id], x) THEN DropTo(adj1[x], id)
                                                         ELSE adj1[x]]
      /\ radj' = [radj1 EXCEPT ![id] = NoLinks]
  BY DEF RemoveNode
<1>3. \A x, y \in Node, r \in Rel : <<y, r>> \in Link
  BY DEF Link
<1>4. radj1 \in [Node -> [Link -> Nat]] /\ adj1 \in [Node -> [Link -> Nat]]
  BY <1>1 DEF DropTo, NoLinks
<1>5. adj' \in [Node -> [Link -> Nat]] /\ radj' \in [Node -> [Link -> Nat]]
  <2> HIDE DEF radj1, adj1
  <2> QED BY <1>2, <1>4 DEF DropTo, NoLinks
<1>6. ASSUME NEW x \in Node, NEW y \in Node, NEW r \in Rel
      PROVE  radj1[x][<<y, r>>] = IF y = id THEN 0 ELSE radj[x][<<y, r>>]
  <2>1. <<y, r>> \in Link
    BY <1>3
  <2>2. CASE LinksTo(adj[id], x)
    BY <2>1, <2>2 DEF DropTo
  <2>3. CASE ~LinksTo(adj[id], x)
    <3>1. radj1[x] = radj[x]
      BY <2>3
    <3>2. adj[id][<<x, r>>] \in Nat /\ adj[id][<<x, r>>] = radj[x][<<id, r>>]
      BY <1>1, <1>3
    <3>3. ~(adj[id][<<x, r>>] > 0)
      BY <2>3 DEF LinksTo
    <3> QED BY <3>1, <3>2, <3>3
  <2> QED BY <2>2, <2>3
<1>7. ASSUME NEW x \in Node, NEW y \in Node, NEW r \in Rel
      PROVE  radj'[x][<<y, r>>] = IF x = id \/ y = id THEN 0 ELSE radj[x][<<y, r>>]
  <2>1. radj1[x][<<y, r>>] = IF y = id THEN 0 ELSE radj[x][<<y, r>>]
    BY <1>6
  <2>2. <<y, r>> \in Link
    BY <1>3
  <2> HIDE DEF radj1
  <2> QED BY <1>2, <1>4, <2>1, <2>2 DEF NoLinks
<1>8. ASSUME NEW x \in Node, NEW y \in Node, NEW r \in Rel
      PROVE  adj'[x][<<y, r>>] = IF x = id \/ y = id THEN 0 ELSE adj[x][<<y, r>>]
  <2>1. <<y, r>> \in Link /\ <<x, r>> \in Link
    BY <1>3
  <2>2. CASE x = id
    <3>1. adj1[x] = NoLinks
      BY <1>1, <2>2
    <3> HIDE DEF adj1, radj1
    <3> QED BY <1>2, <2>1, <2>2, <3>1 DEF NoLinks, DropTo
  <2>3. CASE x # id /\ LinksTo(radj1[id], x)
    <3>1. adj1[x] = adj[x]
      BY <1>1, <2>3
    <3> HIDE DEF adj1, radj1
    <3> QED BY <1>2, <2>1, <2>3, <3>1 DEF DropTo
  <2>4. CASE x # id /\ ~LinksTo(radj1[id], x)
    <3>1. adj1[x] = adj[x]
      BY <1>1, <2>4
    <3>2. ~(radj1[id][<<x, r>>] > 0)
      BY <2>4 DEF LinksTo
    <3>3. radj1[id][<<x, r>>] = radj[id][<<x, r>>]
      BY <1>6, <2>4
    <3>4. adj[x][<<id, r>>] = radj[id][<<x, r>>] /\ radj[id][<<x, r>>] \in Nat
      BY <1>1, <1>3
    <3> HIDE DEF adj1, radj1
    <3>5. adj'[x] = adj[x]
      BY <1>2, <2>4, <3>1
    <3>6. adj[x][<<id, r>>] = 0
      BY <3>2, <3>3, <3>4
    <3> QED BY <2>4, <3>5, <3>6
  <2> QED BY <2>2, <2>3, <2>4
<1> QED BY <1>5, <1>7, <1>8

\* GraphInv holds initially and every mutation preserves it.
LEMMA GraphInvInit == Init => GraphInv
BY DEF Init, GraphInv, ListsOK, Mirror, NoLinks, Link

\* Each of the four mutations changes both lists alike.
LEMMA GraphInvNext == GraphInv /\ [Mutate]_gvars => GraphInv'
<1> SUFFICES ASSUME GraphInv, [Mutate]_gvars PROVE GraphInv'
  OBVIOUS
<1>0. /\ adj \in [Node -> [Link -> Nat]] /\ radj \in [Node -> [Link -> Nat]]
      /\ \A x, y \in Node, r \in Rel : adj[x][<<y, r>>] = radj[y][<<x, r>>]
      /\ \A y \in Node, r \in Rel : <<y, r>> \in Link
  BY DEF GraphInv, ListsOK, Mirror, Link
<1>1. ASSUME NEW x \in Node, AddNode(x) PROVE GraphInv'
  BY <1>1 DEF AddNode, GraphInv, ListsOK, Mirror
<1>2. ASSUME NEW x \in Node, RemoveNode(x) PROVE GraphInv'
  <2>1. /\ adj' \in [Node -> [Link -> Nat]] /\ radj' \in [Node -> [Link -> Nat]]
        /\ \A y, z \in Node, r \in Rel :
             /\ adj'[y][<<z, r>>] = IF y = x \/ z = x THEN 0 ELSE adj[y][<<z, r>>]
             /\ radj'[y][<<z, r>>] = IF y = x \/ z = x THEN 0 ELSE radj[y][<<z, r>>]
    BY <1>2, RemoveNodeEffect
  <2> QED BY <1>0, <2>1 DEF GraphInv, ListsOK, Mirror
<1>3. ASSUME NEW x \in Node, NEW y \in Node, NEW r \in Rel, AddEdge(x, y, r)
      PROVE  GraphInv'
  <2>1. /\ adj' = [adj EXCEPT ![x][<<y, r>>] = @ + 1]
        /\ radj' = [radj EXCEPT ![y][<<x, r>>] = @ + 1]
    BY <1>3 DEF AddEdge
  <2>2. ListsOK'
    BY <1>0, <2>1 DEF ListsOK
  <2>3. ASSUME NEW u \in Node, NEW v \in Node, NEW q \in Rel
        PROVE  adj'[u][<<v, q>>] = radj'[v][<<u, q>>]
    <3>1. adj'[u][<<v, q>>] = IF u = x /\ v = y /\ q = r THEN adj[u][<<v, q>>] + 1
                                                        ELSE adj[u][<<v, q>>]
      BY <1>0, <2>1
    <3>2. radj'[v][<<u, q>>] = IF u = x /\ v = y /\ q = r THEN radj[v][<<u, q>>] + 1
                                                         ELSE radj[v][<<u, q>>]
      BY <1>0, <2>1
    <3> QED BY <1>0, <3>1, <3>2
  <2> QED BY <2>2, <2>3 DEF GraphInv, Mirror
<1>4. ASSUME NEW x \in Node, NEW y \in Node, NEW r \in Rel, RemoveEdge(x, y, r)
      PROVE  GraphInv'
  <2>1. /\ adj' = [adj EXCEPT ![x] = DropLink(@, y, r)]
        /\ radj' = [radj EXCEPT ![y] = DropLink(@, x, r)]
    BY <1>4 DEF RemoveEdge
  <2>2. ListsOK'
    BY <1>0, <2>1, DropType DEF ListsOK
  <2>3. ASSUME NEW u \in Node, NEW v \in Node, NEW q \in Rel
        PROVE  adj'[u][<<v, q>>] = radj'[v][<<u, q>>]
    <3>1. adj'[u][<<v, q>>] = IF u = x /\ v = y /\ q = r THEN 0 ELSE adj[u][<<v, q>>]
      BY <1>0, <2>1 DEF DropLink
    <3>2. radj'[v][<<u, q>>] = IF u = x /\ v = y /\ q = r THEN 0 ELSE radj[v][<<u, q>>]
      BY <1>0, <2>1 DEF DropLink
    <3> QED BY <1>0, <3>1, <3>2
  <2> QED BY <2>2, <2>3 DEF GraphInv, Mirror
<1>5. CASE UNCHANGED gvars
  BY <1>5 DEF gvars, GraphInv, ListsOK, Mirror
<1> QED BY <1>1, <1>2, <1>3, <1>4, <1>5 DEF Mutate

\* In every reachable state adj_ and radj_ describe the same edges
\* (dynamic_graph.cpp:16-62).
THEOREM MirrorAlways == Spec => []Mirror
<1>1. GraphInv => Mirror
  BY DEF GraphInv
<1> QED BY GraphInvInit, GraphInvNext, <1>1, PTL DEF Spec

\* No step of remove_node leaves an edge behind that mentions the node
\* (dynamic_graph.cpp:16-42).
THEOREM RemovedNodeGoneAlways == Spec => RemovedNodeGone
<1>1. ASSUME GraphInv, NEW x \in Node, RemoveNode(x)
      PROVE  /\ \A y \in Node : ~LinksTo(adj'[y], x) /\ ~LinksTo(radj'[y], x)
             /\ adj'[x] = NoLinks /\ radj'[x] = NoLinks
  <2>1. /\ adj' \in [Node -> [Link -> Nat]] /\ radj' \in [Node -> [Link -> Nat]]
        /\ \A y, z \in Node, r \in Rel :
             /\ adj'[y][<<z, r>>] = IF y = x \/ z = x THEN 0 ELSE adj[y][<<z, r>>]
             /\ radj'[y][<<z, r>>] = IF y = x \/ z = x THEN 0 ELSE radj[y][<<z, r>>]
    BY <1>1, RemoveNodeEffect
  <2>3. \A y \in Node : ~LinksTo(adj'[y], x) /\ ~LinksTo(radj'[y], x)
    <3>1. ASSUME NEW y \in Node, NEW r \in Rel
          PROVE  adj'[y][<<x, r>>] = 0 /\ radj'[y][<<x, r>>] = 0
      BY <2>1
    <3>2. \A y \in Node, r \in Rel : ~(adj'[y][<<x, r>>] > 0) /\ ~(radj'[y][<<x, r>>] > 0)
      BY <3>1
    <3> QED BY <3>2, Zenon DEF LinksTo
  <2>4. adj'[x] = NoLinks /\ radj'[x] = NoLinks
    <3>1. adj'[x] \in [Link -> Nat] /\ radj'[x] \in [Link -> Nat]
      BY <2>1
    <3>2. ASSUME NEW l \in Link PROVE adj'[x][l] = 0 /\ radj'[x][l] = 0
      <4>1. PICK z \in Node, r \in Rel : l = <<z, r>>
        BY DEF Link
      <4>2. adj'[x][<<z, r>>] = 0 /\ radj'[x][<<z, r>>] = 0
        BY <2>1
      <4> QED BY <4>1, <4>2
    <3> QED BY <3>1, <3>2 DEF NoLinks
  <2> QED BY <2>3, <2>4
<1>2. GraphInv /\ [Mutate]_gvars =>
        [\A x \in Node \ meta' : RemoveNode(x) =>
          /\ \A y \in Node : ~LinksTo(adj'[y], x) /\ ~LinksTo(radj'[y], x)
          /\ adj'[x] = NoLinks /\ radj'[x] = NoLinks]_gvars
  BY <1>1
<1> QED BY GraphInvInit, GraphInvNext, <1>2, PTL DEF Spec, RemovedNodeGone
-----------------------------------------------------------------------------
(***************************************************************************)
(* Sums over finite sets.  The fold behind SumFunction picks the elements  *)
(* in an unknown order; here is what it comes to.                          *)
(***************************************************************************)
\* The subsets of a finite set are well-founded.
LEMMA SubsetsWellFounded ==
  ASSUME NEW S, IsFiniteSet(S)
  PROVE  IsWellFoundedOn(StrictSubsetOrdering(S), SUBSET S)
  BY FS_StrictSubsetOrderingWellFounded, FS_FiniteSubsetsOfFinite

\* Induction over the subsets of a finite set.
LEMMA SubsetInduction ==
  ASSUME NEW S, IsFiniteSet(S), NEW G,
         \A T \in SUBSET S : (\A U \in SUBSET T : U # T => U \in G) => T \in G
  PROVE  S \in G
<1> DEFINE B == {T \in SUBSET S : T \notin G}
<1> SUFFICES ASSUME B # {} PROVE FALSE
  OBVIOUS
<1>1. IsWellFoundedOn(StrictSubsetOrdering(S), SUBSET S)
  BY SubsetsWellFounded
<1>2. PICK T \in B : \A U \in B : ~(<<U, T>> \in StrictSubsetOrdering(S))
  <2>1. B \subseteq SUBSET S
    OBVIOUS
  <2> HIDE DEF B
  <2> QED BY <1>1, <2>1, WFMin
<1>3. ASSUME NEW U \in SUBSET T, U # T PROVE U \in G
  <2>1. U \in SUBSET S /\ T \in SUBSET S /\ U \subseteq T
    OBVIOUS
  <2>2. <<U, T>> \in StrictSubsetOrdering(S)
    BY <1>3, <2>1 DEF StrictSubsetOrdering
  <2> QED BY <1>2, <2>1, <2>2
<1> QED BY <1>3

\* The same, one element at a time.
LEMMA ElementInduction ==
  ASSUME NEW S, IsFiniteSet(S), NEW G, {} \in G,
         \A T \in SUBSET S : T \in G => \A x \in S \ T : T \cup {x} \in G
  PROVE  S \in G
<1>1. ASSUME NEW T \in SUBSET S, \A U \in SUBSET T : U # T => U \in G PROVE T \in G
  <2>1. CASE T = {}
    BY <2>1
  <2>2. CASE T # {}
    <3>1. PICK x \in T : TRUE
      BY <2>2
    <3>2. /\ T \ {x} \in SUBSET T /\ T \ {x} # T /\ T \ {x} \in SUBSET S
          /\ x \in S \ (T \ {x}) /\ (T \ {x}) \cup {x} = T
      BY <3>1
    <3>3. T \ {x} \in G
      BY <1>1, <3>2
    <3> QED BY <3>2, <3>3
  <2> QED BY <2>1, <2>2
<1> QED BY <1>1, SubsetInduction

Sum(f, T) == SumFunctionOnSet(f, T)

\* The recursion the fold is defined by.
Pick(s) == CHOOSE x \in s : TRUE
FoldOf(f, S, g) ==
  g = [s \in SUBSET S |-> IF s = {} THEN 0 ELSE f[Pick(s)] + g[s \ {Pick(s)}]]

\* Sum is the fold of the library over the element it chooses.
LEMMA SumIsFold ==
  ASSUME NEW f, NEW S
  PROVE  Sum(f, S) = (CHOOSE g : FoldOf(f, S, g))[S]
  BY DEF Sum, SumFunctionOnSet, FoldFunctionOnSet, MapThenFoldSet, FoldOf, Pick

\* The element a fold takes first is one of the set.
LEMMA PickIn == \A s : s # {} => Pick(s) \in s
  BY DEF Pick

\* Two functions that satisfy the equation of a fold agree on a finite set.
LEMMA FoldUnique ==
  ASSUME NEW f, NEW S, IsFiniteSet(S), NEW g, NEW h, FoldOf(f, S, g), FoldOf(f, S, h)
  PROVE  g[S] = h[S]
<1> DEFINE G == {T \in SUBSET S : g[T] = h[T]}
<1>1. ASSUME NEW T \in SUBSET S, \A U \in SUBSET T : U # T => U \in G PROVE T \in G
  <2>1. /\ g[T] = IF T = {} THEN 0 ELSE f[Pick(T)] + g[T \ {Pick(T)}]
        /\ h[T] = IF T = {} THEN 0 ELSE f[Pick(T)] + h[T \ {Pick(T)}]
    BY DEF FoldOf
  <2>2. T # {} => T \ {Pick(T)} \in G
    BY <1>1, PickIn
  <2> QED BY <2>1, <2>2
<1>2. S \in G
  <2> HIDE DEF G
  <2> QED BY <1>1, SubsetInduction
<1> QED BY <1>2

\* A sum is that of the element picked and of the others.
LEMMA SumStep ==
  ASSUME NEW f, NEW S, IsFiniteSet(S)
  PROVE  Sum(f, S) = IF S = {} THEN 0 ELSE f[Pick(S)] + Sum(f, S \ {Pick(S)})
<1> DEFINE Step(T) == IF T = {} THEN 0 ELSE f[Pick(T)] + Sum(f, T \ {Pick(T)})
           G == {T \in SUBSET S : Sum(f, T) = Step(T)}
<1>1. ASSUME NEW T \in SUBSET S, \A U \in SUBSET T : U # T => U \in G PROVE T \in G
  <2> DEFINE g == [U \in SUBSET T |-> IF U = T THEN Step(T) ELSE Sum(f, U)]
             c == CHOOSE h : FoldOf(f, T, h)
  <2>1. ASSUME NEW U \in SUBSET T
        PROVE  g[U] = IF U = {} THEN 0 ELSE f[Pick(U)] + g[U \ {Pick(U)}]
    <3>1. U # {} => /\ Pick(U) \in U /\ U \ {Pick(U)} \in SUBSET T
                    /\ U \ {Pick(U)} # T
      BY PickIn
    <3>2. U # {} => g[U \ {Pick(U)}] = Sum(f, U \ {Pick(U)})
      BY <3>1
    <3>3. g[U] = Step(U)
      BY <1>1
    <3> HIDE DEF g
    <3> QED BY <3>2, <3>3
  <2>2. FoldOf(f, T, g)
    <3>1. g = [U \in SUBSET T |-> g[U]]
      OBVIOUS
    <3> HIDE DEF g
    <3> QED BY <2>1, <3>1 DEF FoldOf
  <2>3. FoldOf(f, T, c)
    <3> HIDE DEF g
    <3> QED BY <2>2
  <2>4. IsFiniteSet(T)
    BY FS_Subset
  <2>5. Sum(f, T) = c[T]
    BY SumIsFold
  <2>6. c[T] = g[T]
    <3> HIDE DEF g, c
    <3> QED BY <2>2, <2>3, <2>4, FoldUnique
  <2>7. g[T] = Step(T)
    OBVIOUS
  <2> HIDE DEF g, c, Step
  <2> QED BY <2>5, <2>6, <2>7
<1>2. S \in G
  <2> HIDE DEF G
  <2> QED BY <1>1, SubsetInduction
<1> QED BY <1>2

Numbers(f, S) == \A x \in S : f[x] \in Int

\* A sum of integers over a finite set is an integer.
LEMMA SumType ==
  ASSUME NEW f, NEW S, IsFiniteSet(S), Numbers(f, S)
  PROVE  Sum(f, S) \in Int
<1> DEFINE G == {T \in SUBSET S : Sum(f, T) \in Int}
<1>1. ASSUME NEW T \in SUBSET S, \A U \in SUBSET T : U # T => U \in G PROVE T \in G
  <2>1. IsFiniteSet(T)
    BY FS_Subset
  <2>2. Sum(f, T) = IF T = {} THEN 0 ELSE f[Pick(T)] + Sum(f, T \ {Pick(T)})
    BY <2>1, SumStep
  <2>3. T # {} => T \ {Pick(T)} \in G /\ f[Pick(T)] \in Int
    BY <1>1, PickIn DEF Numbers
  <2> QED BY <2>2, <2>3
<1>2. S \in G
  <2> HIDE DEF G
  <2> QED BY <1>1, SubsetInduction
<1> QED BY <1>2

\* Any element can be split off.
LEMMA SumSplit ==
  ASSUME NEW f, NEW S, IsFiniteSet(S), Numbers(f, S), NEW x \in S
  PROVE  Sum(f, S) = f[x] + Sum(f, S \ {x})
<1> DEFINE G == {T \in SUBSET S : \A y \in T : Sum(f, T) = f[y] + Sum(f, T \ {y})}
<1>1. ASSUME NEW T \in SUBSET S, \A U \in SUBSET T : U # T => U \in G PROVE T \in G
  <2> SUFFICES ASSUME NEW y \in T PROVE Sum(f, T) = f[y] + Sum(f, T \ {y})
    OBVIOUS
  <2> DEFINE p == Pick(T)
  <2>1. p \in T
    BY PickIn
  <2>2. IsFiniteSet(T)
    BY FS_Subset
  <2>3. Sum(f, T) = f[p] + Sum(f, T \ {p})
    BY <2>2, SumStep
  <2> HIDE DEF p
  <2>4. CASE y = p
    BY <2>3, <2>4
  <2>5. CASE y # p
    <3>1. T \ {p} \in G /\ T \ {y} \in G
      BY <1>1, <2>1
    <3>2. Sum(f, T \ {p}) = f[y] + Sum(f, (T \ {p}) \ {y})
      BY <2>5, <3>1
    <3>3. Sum(f, T \ {y}) = f[p] + Sum(f, (T \ {y}) \ {p})
      BY <2>1, <2>5, <3>1
    <3>4. (T \ {p}) \ {y} = (T \ {y}) \ {p}
      OBVIOUS
    <3>5. f[p] \in Int /\ f[y] \in Int /\ Sum(f, (T \ {p}) \ {y}) \in Int
      <4>1. IsFiniteSet((T \ {p}) \ {y}) /\ Numbers(f, (T \ {p}) \ {y})
        BY <2>2, FS_Subset DEF Numbers
      <4> QED BY <2>1, <4>1, SumType DEF Numbers
    <3> DEFINE s == Sum(f, (T \ {p}) \ {y})
    <3>6. Sum(f, T) = f[p] + (f[y] + s) /\ Sum(f, T \ {y}) = f[p] + s /\ s \in Int
      BY <2>3, <3>2, <3>3, <3>4, <3>5
    <3> HIDE DEF s
    <3>7. f[p] + (f[y] + s) = f[y] + (f[p] + s)
      BY <3>5, <3>6
    <3> QED BY <3>6, <3>7
  <2> QED BY <2>4, <2>5
<1>2. S \in G
  <2> HIDE DEF G
  <2> QED BY <1>1, SubsetInduction
<1> QED BY <1>2

\* One more summand.
LEMMA SumAdd ==
  ASSUME NEW f, NEW S, IsFiniteSet(S), NEW x, x \notin S, Numbers(f, S \cup {x})
  PROVE  Sum(f, S \cup {x}) = f[x] + Sum(f, S)
<1>1. IsFiniteSet(S \cup {x}) /\ (S \cup {x}) \ {x} = S /\ x \in S \cup {x}
  BY FS_AddElement
<1> QED BY <1>1, SumSplit

\* An empty sum.
LEMMA SumEmpty == \A f : Sum(f, {}) = 0
  BY SumStep, FS_EmptySet

\* A sum depends on the values over its set only.
LEMMA SumSame ==
  ASSUME NEW f, NEW g, NEW S, IsFiniteSet(S), Numbers(f, S), \A x \in S : g[x] = f[x]
  PROVE  Sum(g, S) = Sum(f, S)
<1> DEFINE G == {T \in SUBSET S : Sum(g, T) = Sum(f, T)}
<1>1. {} \in G
  BY SumEmpty
<1>2. ASSUME NEW T \in SUBSET S, T \in G, NEW x \in S \ T PROVE T \cup {x} \in G
  <2>1. IsFiniteSet(T) /\ Numbers(f, T \cup {x}) /\ Numbers(g, T \cup {x}) /\ x \notin T
    BY FS_Subset DEF Numbers
  <2>2. Sum(f, T \cup {x}) = f[x] + Sum(f, T) /\ Sum(g, T \cup {x}) = g[x] + Sum(g, T)
    BY <2>1, SumAdd
  <2> QED BY <1>2, <2>2
<1>3. S \in G
  <2> HIDE DEF G
  <2> QED BY <1>1, <1>2, ElementInduction
<1> QED BY <1>3

\* Sums over disjoint sets add up.
LEMMA SumUnion ==
  ASSUME NEW f, NEW R, NEW S, IsFiniteSet(R), IsFiniteSet(S), R \cap S = {},
         Numbers(f, R \cup S)
  PROVE  Sum(f, R \cup S) = Sum(f, R) + Sum(f, S)
<1> DEFINE G == {T \in SUBSET S : Sum(f, R \cup T) = Sum(f, R) + Sum(f, T)}
<1>0. Sum(f, R) \in Int
  BY SumType DEF Numbers
<1>1. {} \in G
  BY <1>0, SumEmpty
<1>2. ASSUME NEW T \in SUBSET S, T \in G, NEW x \in S \ T PROVE T \cup {x} \in G
  <2>1. /\ IsFiniteSet(T) /\ IsFiniteSet(R \cup T) /\ x \notin T /\ x \notin R \cup T
        /\ Numbers(f, T) /\ Numbers(f, T \cup {x}) /\ Numbers(f, (R \cup T) \cup {x})
        /\ R \cup (T \cup {x}) = (R \cup T) \cup {x} /\ f[x] \in Int
    BY FS_Subset, FS_Union DEF Numbers
  <2>2. Sum(f, T) \in Int
    BY <2>1, SumType
  <2>3. /\ Sum(f, T \cup {x}) = f[x] + Sum(f, T)
        /\ Sum(f, (R \cup T) \cup {x}) = f[x] + Sum(f, R \cup T)
    BY <2>1, SumAdd
  <2>4. Sum(f, R \cup T) = Sum(f, R) + Sum(f, T)
    BY <1>2
  <2> DEFINE r == Sum(f, R)
             s == Sum(f, T)
  <2>5. r \in Int /\ s \in Int /\ f[x] \in Int
    BY <1>0, <2>1, <2>2
  <2>6. Sum(f, R \cup (T \cup {x})) = f[x] + (r + s) /\ Sum(f, T \cup {x}) = f[x] + s
    BY <2>1, <2>3, <2>4
  <2>7. f[x] + (r + s) = r + (f[x] + s)
    <3> HIDE DEF r, s
    <3> QED BY <2>5
  <2> QED BY <2>6, <2>7
<1>3. S \in G
  <2> HIDE DEF G
  <2> QED BY <1>1, <1>2, ElementInduction
<1> QED BY <1>3

\* A sum of zeros.
LEMMA SumZero ==
  ASSUME NEW f, NEW S, IsFiniteSet(S), \A x \in S : f[x] = 0
  PROVE  Sum(f, S) = 0
<1> DEFINE G == {T \in SUBSET S : Sum(f, T) = 0}
<1>1. {} \in G
  BY SumEmpty
<1>2. ASSUME NEW T \in SUBSET S, T \in G, NEW x \in S \ T PROVE T \cup {x} \in G
  <2>1. IsFiniteSet(T) /\ Numbers(f, T \cup {x}) /\ x \notin T /\ f[x] = 0
    BY FS_Subset DEF Numbers
  <2>2. Sum(f, T \cup {x}) = f[x] + Sum(f, T)
    BY <2>1, SumAdd
  <2> QED BY <1>2, <2>1, <2>2
<1>3. S \in G
  <2> HIDE DEF G
  <2> QED BY <1>1, <1>2, ElementInduction
<1> QED BY <1>3

\* One value changes by d.
LEMMA SumBump ==
  ASSUME NEW f, NEW g, NEW S, IsFiniteSet(S), Numbers(f, S), NEW x \in S, NEW d \in Int,
         g[x] = f[x] + d, \A y \in S \ {x} : g[y] = f[y]
  PROVE  Sum(g, S) = Sum(f, S) + d
<1>1. /\ IsFiniteSet(S \ {x}) /\ Numbers(f, S \ {x}) /\ Numbers(g, S) /\ f[x] \in Int
  BY FS_Subset DEF Numbers
<1>2. Sum(g, S \ {x}) = Sum(f, S \ {x}) /\ Sum(f, S \ {x}) \in Int
  BY <1>1, SumSame, SumType
<1>3. Sum(f, S) = f[x] + Sum(f, S \ {x}) /\ Sum(g, S) = g[x] + Sum(g, S \ {x})
  BY <1>1, SumSplit
<1> QED BY <1>1, <1>2, <1>3

-----------------------------------------------------------------------------
(***************************************************************************)
(* The number of edges.                                                    *)
(***************************************************************************)
Sizes(a) == [x \in Node |-> Size(a[x])]
Row(x) == {x} \X Rel

\* There are finitely many links, and finitely many towards one node.
LEMMA FiniteLinks == /\ IsFiniteSet(Node) /\ IsFiniteSet(Rel) /\ IsFiniteSet(Link)
                     /\ \A x \in Node : IsFiniteSet(Row(x)) /\ Row(x) \subseteq Link
<1>1. IsFiniteSet(Node) /\ IsFiniteSet(Rel)
  BY GraphAssumption
<1>2. IsFiniteSet(Link)
  BY <1>1, FS_Product DEF Link
<1>3. \A x \in Node : Row(x) \subseteq Link
  BY DEF Row, Link
<1> QED BY <1>1, <1>2, <1>3, FS_Subset

\* The length of an adjacency list is the sum of its multiplicities.
LEMMA SizeIsSum ==
  ASSUME NEW links \in [Link -> Nat]
  PROVE  Size(links) = Sum(links, Link) /\ Size(links) \in Int /\ Numbers(links, Link)
<1>1. Numbers(links, Link)
  BY DEF Numbers
<1>2. Size(links) = Sum(links, Link)
  BY DEF Size, SumFunction, Sum
<1> QED BY <1>1, <1>2, FiniteLinks, SumType

\* The length of all lists together is the sum of their lengths.
LEMMA TotalIsSum ==
  ASSUME NEW a \in [Node -> [Link -> Nat]]
  PROVE  /\ SumFunction([x \in Node |-> Size(a[x])]) = Sum(Sizes(a), Node)
         /\ Sum(Sizes(a), Node) \in Int /\ Numbers(Sizes(a), Node)
<1>1. Numbers(Sizes(a), Node)
  BY SizeIsSum DEF Numbers, Sizes
<1>2. SumFunction([x \in Node |-> Size(a[x])]) = Sum(Sizes(a), Node)
  BY DEF Sizes, SumFunction, Sum
<1> QED BY <1>1, <1>2, FiniteLinks, SumType

\* add_edge adds one edge.
LEMMA AddEdgeCount ==
  ASSUME GraphInv, NEW from \in Node, NEW to \in Node, NEW r \in Rel, AddEdge(from, to, r)
  PROVE  Sum(Sizes(adj'), Node) = Sum(Sizes(adj), Node) + 1
<1> DEFINE l == <<to, r>>
<1>0. adj \in [Node -> [Link -> Nat]] /\ l \in Link
  BY DEF GraphInv, ListsOK, Link
<1>1. adj' = [adj EXCEPT ![from][l] = @ + 1]
  BY DEF AddEdge
<1> HIDE DEF l
<1>2. /\ adj' \in [Node -> [Link -> Nat]]
      /\ \A y \in Node \ {from} : adj'[y] = adj[y]
      /\ adj'[from][l] = adj[from][l] + 1
      /\ \A k \in Link \ {l} : adj'[from][k] = adj[from][k]
  BY <1>0, <1>1
<1>3. Size(adj'[from]) = Size(adj[from]) + 1
  <2> DEFINE f == adj[from]
             g == adj'[from]
  <2>1. /\ f \in [Link -> Nat] /\ g \in [Link -> Nat]
        /\ g[l] = f[l] + 1 /\ \A k \in Link \ {l} : g[k] = f[k]
    BY <1>0, <1>2
  <2> HIDE DEF f, g
  <2>2. Sum(g, Link) = Sum(f, Link) + 1
    BY <1>0, <2>1, FiniteLinks, SizeIsSum, SumBump
  <2>3. Size(g) = Size(f) + 1
    BY <2>1, <2>2, SizeIsSum
  <2> QED BY <2>3 DEF f, g
<1>4. /\ Sizes(adj')[from] = Sizes(adj)[from] + 1
      /\ \A y \in Node \ {from} : Sizes(adj')[y] = Sizes(adj)[y]
  BY <1>2, <1>3 DEF Sizes
<1> QED
  <2> DEFINE f == Sizes(adj)
             g == Sizes(adj')
  <2>1. Numbers(f, Node) /\ g[from] = f[from] + 1 /\ \A y \in Node \ {from} : g[y] = f[y]
    BY <1>0, <1>4, TotalIsSum
  <2> HIDE DEF f, g
  <2>2. Sum(g, Node) = Sum(f, Node) + 1
    BY <2>1, FiniteLinks, SumBump
  <2> QED BY <2>2 DEF f, g

\* The entries of one row of a list, found in another.
LEMMA RowSum ==
  ASSUME NEW f, NEW g, NEW a \in Node, NEW b \in Node, Numbers(f, Row(a)),
         \A r \in Rel : g[<<b, r>>] = f[<<a, r>>]
  PROVE  Sum(g, Row(b)) = Sum(f, Row(a))
<1> DEFINE G == {T \in SUBSET Rel : Sum(g, {b} \X T) = Sum(f, {a} \X T)}
<1>1. {} \in G
  <2>1. {b} \X {} = {} /\ {a} \X {} = {}
    OBVIOUS
  <2> QED BY <2>1, SumEmpty
<1>2. ASSUME NEW T \in SUBSET Rel, T \in G, NEW r \in Rel \ T PROVE T \cup {r} \in G
  <2>1. \A c : {c} \X (T \cup {r}) = ({c} \X T) \cup {<<c, r>>} /\ <<c, r>> \notin {c} \X T
    OBVIOUS
  <2>2. Numbers(f, ({a} \X T) \cup {<<a, r>>}) /\ Numbers(g, ({b} \X T) \cup {<<b, r>>})
    <3>1. \A q \in T \cup {r} : f[<<a, q>>] \in Int /\ g[<<b, q>>] \in Int
      BY DEF Numbers, Row
    <3>2. \A c : \A l \in ({c} \X T) \cup {<<c, r>>} : \E q \in T \cup {r} : l = <<c, q>>
      OBVIOUS
    <3>3. ASSUME NEW l \in ({a} \X T) \cup {<<a, r>>} PROVE f[l] \in Int
      <4>1. PICK p \in T \cup {r} : l = <<a, p>>
        BY <3>2
      <4> QED BY <3>1, <4>1
    <3>4. ASSUME NEW l \in ({b} \X T) \cup {<<b, r>>} PROVE g[l] \in Int
      <4>1. PICK p \in T \cup {r} : l = <<b, p>>
        BY <3>2
      <4> QED BY <3>1, <4>1
    <3> QED BY <3>3, <3>4 DEF Numbers
  <2>3. IsFiniteSet({a} \X T) /\ IsFiniteSet({b} \X T)
    <3>1. {a} \X T \subseteq Row(a) /\ {b} \X T \subseteq Row(b)
      BY DEF Row
    <3> QED BY <3>1, FiniteLinks, FS_Subset
  <2>4. /\ Sum(f, ({a} \X T) \cup {<<a, r>>}) = f[<<a, r>>] + Sum(f, {a} \X T)
        /\ Sum(g, ({b} \X T) \cup {<<b, r>>}) = g[<<b, r>>] + Sum(g, {b} \X T)
    BY <2>1, <2>2, <2>3, SumAdd
  <2>5. Sum(g, {b} \X T) = Sum(f, {a} \X T) /\ g[<<b, r>>] = f[<<a, r>>]
    BY <1>2
  <2> QED BY <2>1, <2>4, <2>5
<1>3. Rel \in G
  <2> HIDE DEF G
  <2> QED BY <1>1, <1>2, FiniteLinks, ElementInduction
<1> QED BY <1>3 DEF Row

\* What one list loses when its entries for id go.
LEMMA DropCount ==
  ASSUME NEW f \in [Link -> Nat], NEW g \in [Link -> Nat], NEW id \in Node,
         \A y \in Node, r \in Rel : g[<<y, r>>] = IF y = id THEN 0 ELSE f[<<y, r>>]
  PROVE  Sum(f, Link) = Sum(g, Link) + Sum(f, Row(id)) /\ Sum(f, Row(id)) \in Int
<1> DEFINE Rest == Link \ Row(id)
<1>1. /\ IsFiniteSet(Row(id)) /\ IsFiniteSet(Rest) /\ Row(id) \cap Rest = {}
      /\ Row(id) \cup Rest = Link
      /\ Numbers(f, Link) /\ Numbers(g, Link) /\ Numbers(f, Row(id)) /\ Numbers(f, Rest)
  BY FiniteLinks, FS_Subset DEF Numbers
<1>2. \A l \in Row(id) : g[l] = 0
  BY DEF Row
<1>3. \A l \in Rest : g[l] = f[l]
  <2> SUFFICES ASSUME NEW l \in Rest PROVE g[l] = f[l]
    OBVIOUS
  <2>1. PICK y \in Node, r \in Rel : l = <<y, r>>
    BY DEF Link
  <2>2. y # id
    BY <2>1 DEF Row
  <2> QED BY <2>1, <2>2
<1> HIDE DEF Rest
<1>4. /\ Sum(f, Link) = Sum(f, Row(id)) + Sum(f, Rest)
      /\ Sum(g, Link) = Sum(g, Row(id)) + Sum(g, Rest)
  BY <1>1, SumUnion
<1>5. /\ Sum(g, Row(id)) = 0 /\ Sum(g, Rest) = Sum(f, Rest)
      /\ Sum(f, Rest) \in Int /\ Sum(f, Row(id)) \in Int
  BY <1>1, <1>2, <1>3, SumZero, SumSame, SumType
<1> QED BY <1>4, <1>5

\* remove_node counts what it takes away: its out-edges, and the in-edges that
\* are left once those are gone, so that a self-loop counts once.
LEMMA RemoveNodeCount ==
  ASSUME GraphInv, NEW id \in Node, RemoveNode(id), edgeCount \in Int
  PROVE  /\ edgeCount' \in Int
         /\ edgeCount - edgeCount' = Sum(Sizes(adj), Node) - Sum(Sizes(adj'), Node)
<1> DEFINE radj1 == [x \in Node |-> IF LinksTo(adj[id], x) THEN DropTo(radj[x], id)
                                                           ELSE radj[x]]
           A == Sizes(adj)
           B == Sizes(adj')
<1>1. /\ adj \in [Node -> [Link -> Nat]] /\ radj \in [Node -> [Link -> Nat]]
      /\ \A x, y \in Node, r \in Rel : adj[x][<<y, r>>] = radj[y][<<x, r>>]
      /\ \A y \in Node, r \in Rel : <<y, r>> \in Link
  BY DEF GraphInv, ListsOK, Mirror, Link
<1>2. /\ adj' \in [Node -> [Link -> Nat]]
      /\ \A x, y \in Node, r \in Rel :
           adj'[x][<<y, r>>] = IF x = id \/ y = id THEN 0 ELSE adj[x][<<y, r>>]
  BY RemoveNodeEffect
<1>3. edgeCount' = edgeCount - Size(adj[id]) - Size(radj1[id])
  BY DEF RemoveNode
<1>4. PICK R \in [Link -> Nat] :
        /\ R = radj1[id]
        /\ \A x \in Node, r \in Rel :
             R[<<x, r>>] = IF x = id THEN 0 ELSE adj[x][<<id, r>>]
  <2>1. radj1[id] \in [Link -> Nat]
    BY <1>1 DEF DropTo
  <2>2. ASSUME NEW x \in Node, NEW r \in Rel
        PROVE  radj1[id][<<x, r>>] = IF x = id THEN 0 ELSE adj[x][<<id, r>>]
    <3>1. CASE LinksTo(adj[id], id)
      <4>1. radj1[id] = DropTo(radj[id], id)
        BY <3>1
      <4> QED BY <1>1, <4>1 DEF DropTo
    <3>2. CASE ~LinksTo(adj[id], id)
      <4>1. radj1[id] = radj[id]
        BY <3>2
      <4>2. adj[id][<<id, r>>] = 0
        <5>1. adj[id][<<id, r>>] \in Nat /\ ~(adj[id][<<id, r>>] > 0)
          BY <1>1, <3>2 DEF LinksTo
        <5> QED BY <5>1
      <4> QED BY <1>1, <4>1, <4>2
    <3> QED BY <3>1, <3>2
  <2> HIDE DEF radj1
  <2> QED BY <2>1, <2>2
<1> HIDE DEF radj1
<1>5. /\ \A x \in Node : A[x] = Sum(adj[x], Link) /\ B[x] = Sum(adj'[x], Link)
      /\ Numbers(A, Node) /\ Numbers(B, Node) /\ Numbers(R, Link)
      /\ A[id] = Size(adj[id]) /\ Sum(R, Link) = Size(R)
  <2>1. \A x \in Node : adj[x] \in [Link -> Nat] /\ adj'[x] \in [Link -> Nat]
    BY <1>1, <1>2
  <2>2. \A x \in Node : A[x] = Size(adj[x]) /\ B[x] = Size(adj'[x])
    BY DEF Sizes
  <2> QED BY <1>1, <1>2, <2>1, <2>2, SizeIsSum, TotalIsSum
<1>6. /\ \A x \in Node \ {id} : A[x] = B[x] + Sum(R, Row(x))
      /\ B[id] = 0 /\ Sum(R, Row(id)) = 0
      /\ \A x \in Node : Sum(R, Row(x)) \in Int
  <2>1. ASSUME NEW x \in Node \ {id} PROVE A[x] = B[x] + Sum(R, Row(x))
    <3> DEFINE f == adj[x]
               g == adj'[x]
    <3>1. /\ f \in [Link -> Nat] /\ g \in [Link -> Nat]
          /\ \A y \in Node, r \in Rel : g[<<y, r>>] = IF y = id THEN 0 ELSE f[<<y, r>>]
          /\ \A r \in Rel : R[<<x, r>>] = f[<<id, r>>]
      BY <1>1, <1>2, <1>4
    <3>2. A[x] = Sum(f, Link) /\ B[x] = Sum(g, Link)
      BY <1>5
    <3> HIDE DEF f, g, A, B
    <3>3. Sum(f, Link) = Sum(g, Link) + Sum(f, Row(id))
      BY <3>1, DropCount
    <3>4. Numbers(f, Row(id))
      BY <3>1, FiniteLinks DEF Numbers
    <3>5. Sum(R, Row(x)) = Sum(f, Row(id))
      BY <3>1, <3>4, RowSum
    <3> QED BY <3>2, <3>3, <3>5
  <2>2. B[id] = 0
    <3>1. \A l \in Link : adj'[id][l] = 0
      BY <1>2 DEF Link
    <3> QED BY <1>5, <3>1, FiniteLinks, SumZero
  <2>3. Sum(R, Row(id)) = 0
    <3>1. \A l \in Row(id) : R[l] = 0
      BY <1>4 DEF Row
    <3> QED BY <3>1, FiniteLinks, SumZero
  <2>4. ASSUME NEW x \in Node PROVE Sum(R, Row(x)) \in Int
    <3>1. Numbers(R, Row(x))
      BY <1>5, FiniteLinks DEF Numbers
    <3> QED BY <3>1, FiniteLinks, SumType
  <2> QED BY <2>1, <2>2, <2>3, <2>4
<1> HIDE DEF A, B
<1> DEFINE Own(T) == IF id \in T THEN A[id] ELSE 0
           G == {T \in SUBSET Node : Sum(A, T) = Sum(B, T) + Sum(R, T \X Rel) + Own(T)}
<1>7. {} \in G
  <2>1. {} \X Rel = {}
    OBVIOUS
  <2> QED BY <2>1, SumEmpty
<1>8. ASSUME NEW T \in SUBSET Node, T \in G, NEW x \in Node \ T PROVE T \cup {x} \in G
  <2>1. /\ IsFiniteSet(T) /\ x \notin T
        /\ Numbers(A, T \cup {x}) /\ Numbers(B, T \cup {x}) /\ Numbers(A, T) /\ Numbers(B, T)
        /\ A[x] \in Int /\ B[x] \in Int /\ A[id] \in Int
    BY <1>5, FiniteLinks, FS_Subset DEF Numbers
  <2>2. /\ (T \cup {x}) \X Rel = (T \X Rel) \cup Row(x) /\ (T \X Rel) \cap Row(x) = {}
        /\ T \X Rel \subseteq Link
    BY DEF Row, Link
  <2>3. /\ IsFiniteSet(T \X Rel) /\ Numbers(R, T \X Rel)
        /\ Numbers(R, (T \X Rel) \cup Row(x)) /\ IsFiniteSet(Row(x))
    BY <1>5, <2>2, FiniteLinks, FS_Subset DEF Numbers
  <2>4. /\ Sum(A, T \cup {x}) = A[x] + Sum(A, T)
        /\ Sum(B, T \cup {x}) = B[x] + Sum(B, T)
        /\ Sum(R, (T \cup {x}) \X Rel) = Sum(R, T \X Rel) + Sum(R, Row(x))
    <3>1. Sum(A, T \cup {x}) = A[x] + Sum(A, T) /\ Sum(B, T \cup {x}) = B[x] + Sum(B, T)
      BY <2>1, SumAdd
    <3>2. Sum(R, (T \X Rel) \cup Row(x)) = Sum(R, T \X Rel) + Sum(R, Row(x))
      BY <2>2, <2>3, SumUnion
    <3> QED BY <2>2, <3>1, <3>2
  <2>5. Sum(A, T) \in Int /\ Sum(B, T) \in Int /\ Sum(R, T \X Rel) \in Int
        /\ Sum(R, Row(x)) \in Int
    BY <1>6, <2>1, <2>3, SumType
  <2>6. Sum(A, T) = Sum(B, T) + Sum(R, T \X Rel) + Own(T)
    BY <1>8
  <2> DEFINE a == Sum(A, T)
             b == Sum(B, T)
             c == Sum(R, T \X Rel)
             d == Sum(R, Row(x))
  <2>7. CASE x = id
    <3>1. a = b + c /\ B[x] = 0 /\ d = 0 /\ Own(T \cup {x}) = A[x]
      BY <1>6, <2>1, <2>5, <2>6, <2>7
    <3>2. A[x] + a = (B[x] + b) + (c + d) + A[x]
      <4> HIDE DEF a, b, c, d
      <4>1. a \in Int /\ b \in Int /\ c \in Int
        BY <2>5 DEF a, b, c
      <4> QED BY <2>1, <3>1, <4>1
    <3> QED BY <2>4, <3>1, <3>2
  <2>8. CASE x # id
    <3>1. A[x] = B[x] + d /\ Own(T \cup {x}) = Own(T)
      BY <1>6, <2>8
    <3>2. A[x] + a = (B[x] + b) + (c + d) + Own(T)
      <4> HIDE DEF a, b, c, d
      <4>1. a \in Int /\ b \in Int /\ c \in Int /\ d \in Int /\ a = b + c + Own(T)
        BY <2>5, <2>6 DEF a, b, c, d
      <4>2. Own(T) \in Int
        BY <2>1
      <4> HIDE DEF Own
      <4> QED BY <2>1, <3>1, <4>1, <4>2
    <3> QED BY <2>4, <3>1, <3>2
  <2> QED BY <2>7, <2>8
<1>9. Node \in G
  <2> HIDE DEF G
  <2> QED BY <1>7, <1>8, FiniteLinks, ElementInduction
<1>10. Sum(A, Node) = Sum(B, Node) + Size(R) + Size(adj[id])
  BY <1>5, <1>9 DEF Link
<1>11. Size(R) \in Int /\ Size(adj[id]) \in Int /\ Sum(A, Node) \in Int /\ Sum(B, Node) \in Int
  BY <1>1, <1>2, SizeIsSum, TotalIsSum DEF A, B
<1>12. edgeCount' = edgeCount - Size(adj[id]) - Size(R)
  BY <1>3, <1>4
<1>13. edgeCount' \in Int /\ edgeCount - edgeCount' = Sum(A, Node) - Sum(B, Node)
  BY <1>10, <1>11, <1>12
<1> QED BY <1>13 DEF A, B

\* edge_count_ is the number of edges until remove_edge is called.
CountInv == /\ GraphInv /\ removed \in Nat /\ edgeCount \in Int
            /\ removed = 0 => edgeCount = Sum(Sizes(adj), Node)

\* add_edge and remove_edge change edge_count_ as they change the lists.
LEMMA CountInvNext == CountInv /\ [Mutate]_gvars => CountInv'
<1> SUFFICES ASSUME CountInv, [Mutate]_gvars PROVE CountInv'
  OBVIOUS
<1>0. GraphInv /\ GraphInv' /\ removed \in Nat /\ edgeCount \in Int
      /\ (removed = 0 => edgeCount = Sum(Sizes(adj), Node))
      /\ Sum(Sizes(adj), Node) \in Int /\ Sum(Sizes(adj'), Node) \in Int
  BY GraphInvNext, TotalIsSum DEF CountInv, GraphInv, ListsOK
<1>1. ASSUME NEW x \in Node, AddNode(x) PROVE CountInv'
  BY <1>0, <1>1 DEF AddNode, CountInv
<1>2. ASSUME NEW x \in Node, RemoveNode(x) PROVE CountInv'
  <2>1. /\ edgeCount' \in Int /\ removed' = removed
        /\ edgeCount - edgeCount' = Sum(Sizes(adj), Node) - Sum(Sizes(adj'), Node)
    BY <1>0, <1>2, RemoveNodeCount DEF RemoveNode
  <2>2. removed' = 0 => edgeCount' = Sum(Sizes(adj'), Node)
    BY <1>0, <2>1
  <2> QED BY <1>0, <2>1, <2>2 DEF CountInv
<1>3. ASSUME NEW x \in Node, NEW y \in Node, NEW r \in Rel, AddEdge(x, y, r)
      PROVE  CountInv'
  <2>1. edgeCount' = edgeCount + 1 /\ removed' = removed
        /\ Sum(Sizes(adj'), Node) = Sum(Sizes(adj), Node) + 1
    BY <1>0, <1>3, AddEdgeCount DEF AddEdge
  <2> QED BY <1>0, <2>1 DEF CountInv
<1>4. ASSUME NEW x \in Node, NEW y \in Node, NEW r \in Rel, RemoveEdge(x, y, r)
      PROVE  CountInv'
  <2>1. removed' = removed + 1 /\ edgeCount' \in Int
    BY <1>0, <1>4 DEF RemoveEdge
  <2> QED BY <1>0, <2>1 DEF CountInv
<1>5. CASE UNCHANGED gvars
  BY <1>0, <1>5 DEF gvars, CountInv
<1> QED BY <1>1, <1>2, <1>3, <1>4, <1>5 DEF Mutate

\* As long as remove_edge has not been called, edge_count_ is the number of
\* edges of the graph, parallel edges and self-loops included, in a graph of
\* any size (dynamic_graph.cpp:16-62).
THEOREM CountExactAlways == Spec => []CountExact
<1>1. Init => CountInv
  <2> SUFFICES ASSUME Init PROVE CountInv
    OBVIOUS
  <2>1. GraphInv /\ removed = 0 /\ edgeCount = 0
    BY GraphInvInit DEF Init
  <2>2. \A x \in Node : Sizes(adj)[x] = 0
    <3>1. NoLinks \in [Link -> Nat] /\ \A l \in Link : NoLinks[l] = 0
      BY DEF NoLinks
    <3>2. Size(NoLinks) = 0
      BY <3>1, SizeIsSum, SumZero, FiniteLinks
    <3> QED BY <3>2 DEF Init, Sizes
  <2>3. Sum(Sizes(adj), Node) = 0
    BY <2>2, FiniteLinks, SumZero
  <2> QED BY <2>1, <2>3 DEF CountInv
<1>2. CountInv => CountExact
  BY TotalIsSum DEF CountInv, CountExact, Total, GraphInv, ListsOK
<1> QED BY <1>1, <1>2, CountInvNext, PTL DEF Spec

-----------------------------------------------------------------------------
(***************************************************************************)
(* The property index and the compacted copy.                              *)
(***************************************************************************)
IndexType == /\ index \in [IndexKey -> [Node -> Value \cup {NoValue}]]
             /\ entries \in [Node -> SUBSET (IndexKey \X Value)]

Recorded == \A k \in IndexKey, x \in Node :
              index[k][x] # NoValue => <<k, index[k][x]>> \in entries[x]

IndexInv == IndexType /\ Recorded

\* Whatever is dispatched, the engine sees one of its calls or nothing.
LEMMA EngineSteps ==
  ASSUME DispatcherNext
  PROVE  UNCHANGED engine \/ CsrQuery \/ \E cmd \in GraphName : Write(cmd)
<1>1. ASSUME NEW cmd, NEW n, NEW parses, Dispatch(cmd, n, parses)
      PROVE  UNCHANGED engine \/ (cmd \in GraphName /\ Write(cmd))
  BY <1>1, Zenon DEF Dispatch, HandleGraph, HandleZset, HandleKv
<1>2. Sent \/ Ended => UNCHANGED engine
  BY DEF Sent, Ended, dvars, vars, engine
<1>3. Copy => CsrQuery
  BY DEF Copy
<1> QED BY <1>1, <1>2, <1>3, Zenon DEF DispatcherNext

\* What a command may do to the index: nothing, list one node under a value, or
\* take one node out.
LEMMA IndexSteps ==
  ASSUME DispatcherNext
  PROVE  \/ UNCHANGED ivars /\ meta \subseteq meta'
         \/ \E x \in Node : UNCHANGED ivars /\ x \notin meta /\ meta' = meta \ {x}
         \/ \E k \in IndexKey, v \in Value, x \in Node : IndexAdd(k, v, x) /\ meta' = meta
         \/ \E x \in Node : IndexRemove(x) /\ meta' = meta \ {x}
<1> DEFINE Quiet == UNCHANGED ivars /\ meta \subseteq meta'
           Absent == \E x \in Node : UNCHANGED ivars /\ x \notin meta /\ meta' = meta \ {x}
           Adds == \E k \in IndexKey, v \in Value, x \in Node :
                     IndexAdd(k, v, x) /\ meta' = meta
           Removes == \E x \in Node : IndexRemove(x) /\ meta' = meta \ {x}
<1>1. UNCHANGED engine => Quiet
  BY DEF engine, gvars, ivars
<1>2. ASSUME NEW cmd, Write(cmd) PROVE Quiet \/ Absent \/ Adds \/ Removes
  <2>1. ASSUME NEW x \in Node, EngineAddNode(x) PROVE Quiet
    BY <2>1 DEF EngineAddNode, AddNode, ivars
  <2>2. ASSUME NEW x \in Node, EngineRemoveNode(x) PROVE Absent \/ Removes
    <3>1. meta' = meta \ {x}
      BY <2>2 DEF EngineRemoveNode, RemoveNode
    <3>2. CASE x \in meta
      BY <3>1, <3>2, <2>2 DEF EngineRemoveNode
    <3>3. CASE x \notin meta
      BY <3>1, <3>3, <2>2 DEF EngineRemoveNode
    <3> QED BY <3>2, <3>3
  <2>3. ASSUME NEW x \in Node, NEW y \in Node, NEW r \in Rel,
               EngineAddEdge(x, y, r) \/ EngineRemoveEdge(x, y, r)
        PROVE  Quiet
    BY <2>3 DEF EngineAddEdge, EngineRemoveEdge, AddEdge, RemoveEdge, ivars
  <2>4. ASSUME NEW k \in IndexKey, NEW v \in Value, NEW x \in Node, IndexProperty(k, v, x)
        PROVE  Adds
    BY <2>4 DEF IndexProperty, gvars
  <2> QED BY <1>2, <2>1, <2>2, <2>3, <2>4 DEF Write
<1>3. CsrQuery => Quiet
  BY DEF CsrQuery, ivars
<1> HIDE DEF Quiet, Absent, Adds, Removes
<1>4. Quiet \/ Absent \/ Adds \/ Removes
  BY EngineSteps, <1>1, <1>2, <1>3
<1> QED BY <1>4 DEF Quiet, Absent, Adds, Removes

\* A new listing is recorded, and older records stay (property_index.cpp:4-14).
LEMMA AddRecorded ==
  ASSUME IndexInv, NEW k \in IndexKey, NEW v \in Value, NEW x \in Node, IndexAdd(k, v, x)
  PROVE  IndexInv'
<1>1. IndexType'
  BY DEF IndexInv, IndexType, IndexAdd, Record
<1>2. ASSUME NEW j \in IndexKey, NEW y \in Node, index'[j][y] # NoValue
      PROVE  <<j, index'[j][y]>> \in entries'[y]
  <2>1. CASE j = k /\ y = x
    BY <2>1 DEF IndexInv, IndexType, IndexAdd, Record
  <2>2. CASE ~(j = k /\ y = x)
    <3>1. index'[j][y] = index[j][y] /\ entries[y] \subseteq entries'[y]
      BY <2>2 DEF IndexInv, IndexType, IndexAdd, Record
    <3> QED BY <1>2, <3>1 DEF IndexInv, Recorded
  <2> QED BY <2>1, <2>2
<1> QED BY <1>1, <1>2 DEF IndexInv, Recorded

\* remove_node empties every list of the node, and touches no other node
\* (property_index.cpp:30-39).
LEMMA RemoveUnlists ==
  ASSUME IndexInv, NEW x \in Node, IndexRemove(x)
  PROVE  IndexInv' /\ \A k \in IndexKey : index'[k][x] = NoValue
<1>1. IndexType'
  BY DEF IndexInv, IndexType, IndexRemove
<1>2. \A k \in IndexKey : index'[k][x] = NoValue
  BY DEF IndexInv, IndexType, Recorded, IndexRemove
<1>3. ASSUME NEW k \in IndexKey, NEW y \in Node, y # x
      PROVE  index'[k][y] = index[k][y] /\ entries'[y] = entries[y]
  BY <1>3 DEF IndexInv, IndexType, IndexRemove
<1>4. Recorded'
  BY <1>2, <1>3 DEF IndexInv, Recorded
<1> QED BY <1>1, <1>2, <1>4 DEF IndexInv

\* The index starts empty.
LEMMA IndexInvInit == DispatcherInit => IndexInv
BY DEF DispatcherInit, EngineInit, IndexInit, IndexInv, IndexType, Recorded

\* No command disturbs the records (add and remove_node are the only ones to
\* touch them).
LEMMA IndexInvNext == IndexInv /\ [DispatcherNext]_dvars => IndexInv'
<1> SUFFICES ASSUME IndexInv, [DispatcherNext]_dvars PROVE IndexInv'
  OBVIOUS
<1>1. UNCHANGED ivars => IndexInv'
  BY DEF IndexInv, IndexType, Recorded, ivars
<1>2. CASE DispatcherNext
  BY <1>2, <1>1, IndexSteps, AddRecorded, RemoveUnlists
<1>3. CASE UNCHANGED dvars
  BY <1>3, <1>1 DEF dvars, vars, ivars
<1> QED BY <1>2, <1>3

\* Whatever commands come before, every value a node is listed under is among
\* the entries node_entries_ has for it (property_index.cpp:12-13,33-38).
THEOREM RecordedAlways == DispatcherSpec => []Recorded
<1>1. IndexInv => Recorded
  BY DEF IndexInv
<1> QED BY IndexInvInit, IndexInvNext, <1>1, PTL DEF DispatcherSpec

\* A node the graph has just lost is found by no range query, for any nodes,
\* index keys and values (graph_engine.cpp:11-17).
THEOREM RemovedNodeUnlistedAlways == DispatcherSpec => RemovedNodeUnlisted
<1> DEFINE Unlisted == \A x \in meta \ meta', k \in IndexKey, lo, hi \in Value :
                         x \notin Listed(k, lo, hi)'
<1>1. IndexInv /\ [DispatcherNext]_dvars => [Unlisted]_vars
  <2> SUFFICES ASSUME IndexInv, DispatcherNext,
                      NEW x \in meta \ meta', NEW k \in IndexKey,
                      NEW lo \in Value, NEW hi \in Value
               PROVE  x \notin Listed(k, lo, hi)'
    BY DEF dvars
  <2>1. PICK y \in Node : IndexRemove(y) /\ meta' = meta \ {y}
    BY IndexSteps DEF IndexAdd
  <2>2. x = y
    BY <2>1
  <2>3. index'[k][x] = NoValue
    BY <2>1, <2>2, RemoveUnlists
  <2> QED BY <2>3 DEF Listed
<1> QED BY IndexInvInit, IndexInvNext, <1>1, PTL DEF DispatcherSpec, RemovedNodeUnlisted

-----------------------------------------------------------------------------
(***************************************************************************)
(* The compacted copy.  While the graph is clean the copy is, row for row, *)
(* what a compaction would give now.                                       *)
(***************************************************************************)
CsrCurrent == ~dirty => csr = BuildCsr

CsrInv == meta \subseteq Node /\ CsrCurrent

\* What a command may do to the graph: change it and say so, compact it, or
\* leave alone what a compaction reads.
LEMMA CsrSteps ==
  ASSUME meta \subseteq Node, DispatcherNext
  PROVE  /\ meta' \subseteq Node
         /\ \/ dirty' = TRUE
            \/ csr' = BuildCsr /\ UNCHANGED <<meta, adj>>
            \/ UNCHANGED <<meta, adj, dirty, csr>>
<1> DEFINE Goal == /\ meta' \subseteq Node
                   /\ \/ dirty' = TRUE
                      \/ csr' = BuildCsr /\ UNCHANGED <<meta, adj>>
                      \/ UNCHANGED <<meta, adj, dirty, csr>>
<1>1. UNCHANGED engine => Goal
  BY DEF engine, gvars
<1>2. ASSUME NEW cmd, Write(cmd) PROVE Goal
  <2>1. ASSUME NEW x \in Node, EngineAddNode(x) \/ EngineRemoveNode(x) PROVE Goal
    BY <2>1 DEF EngineAddNode, AddNode, EngineRemoveNode, RemoveNode
  <2>2. ASSUME NEW x \in Node, NEW y \in Node, NEW r \in Rel,
               EngineAddEdge(x, y, r) \/ EngineRemoveEdge(x, y, r)
        PROVE  Goal
    BY <2>2 DEF EngineAddEdge, EngineRemoveEdge, AddEdge, RemoveEdge
  <2>3. ASSUME NEW k \in IndexKey, NEW v \in Value, NEW x \in Node, IndexProperty(k, v, x)
        PROVE  Goal
    BY <2>3 DEF IndexProperty, gvars
  <2> QED BY <1>2, <2>1, <2>2, <2>3 DEF Write
<1>3. CsrQuery => Goal
  BY DEF CsrQuery
<1> HIDE DEF Goal
<1>4. Goal
  BY EngineSteps, <1>1, <1>2, <1>3
<1> QED BY <1>4 DEF Goal

\* The graph and its copy start clean and empty.
LEMMA CsrInvInit == DispatcherInit => CsrInv
<1> SUFFICES ASSUME DispatcherInit PROVE CsrInv
  OBVIOUS
<1>1. meta = {} /\ csr = EmptyCsr
  BY DEF DispatcherInit, EngineInit, Init
<1>2. BuildCsr = EmptyCsr
  BY <1>1 DEF BuildCsr, EmptyCsr
<1> QED BY <1>1, <1>2 DEF CsrInv, CsrCurrent

\* A command that changes the graph also marks the copy as dirty.
LEMMA CsrInvNext == CsrInv /\ [DispatcherNext]_dvars => CsrInv'
<1> SUFFICES ASSUME CsrInv, [DispatcherNext]_dvars PROVE CsrInv'
  OBVIOUS
<1>1. UNCHANGED <<meta, adj>> => BuildCsr' = BuildCsr
  BY DEF BuildCsr, CsrRow, Dangling
<1>2. CASE DispatcherNext
  BY <1>1, <1>2, CsrSteps DEF CsrInv, CsrCurrent
<1>3. CASE UNCHANGED dvars
  BY <1>1, <1>3 DEF CsrInv, CsrCurrent, dvars, vars, gvars
<1> QED BY <1>2, <1>3

\* Whoever finds the graph clean reads the graph as it is, for any nodes,
\* relations and commands (graph_engine.cpp:40-48).
THEOREM CsrFreshAlways == DispatcherSpec => []CsrFresh
<1>1. CsrInv => CsrFresh
  <2> SUFFICES ASSUME CsrInv, ~dirty PROVE
                      /\ csr.nodes = meta
                      /\ \A x, y \in meta, r \in Rel :
                           csr.row[x][<<y, r>>] = adj[x][<<y, r>>]
    BY DEF CsrFresh
  <2>1. csr = BuildCsr /\ meta \subseteq Node
    BY DEF CsrInv, CsrCurrent
  <2>2. csr.nodes = meta
    BY <2>1 DEF BuildCsr
  <2>3. ASSUME NEW x \in meta, NEW y \in meta, NEW r \in Rel
        PROVE  csr.row[x][<<y, r>>] = adj[x][<<y, r>>]
    <3>1. csr.row[x] = CsrRow(x)
      BY <2>1 DEF BuildCsr
    <3>2. <<y, r>> \in CsrLink /\ r # NoRel
      BY <2>1, EngineAssumption DEF CsrLink
    <3>3. CsrRow(x)[<<y, r>>] = adj[x][<<y, r>>]
      BY <3>2 DEF CsrRow
    <3> QED BY <3>1, <3>3
  <2> QED BY <2>2, <2>3
<1> QED BY CsrInvInit, CsrInvNext, <1>1, PTL DEF DispatcherSpec
=============================================================================
