-------------------------- MODULE TraversalsProofs --------------------------
(***************************************************************************)
(* The graph queries, for any finite graph with weights that are not       *)
(* negative, any query on it and any order of edges: what a query returns  *)
(* is what the reference definitions say.                                  *)
(*                                                                         *)
(* The reference definitions are recursive functions over the number of    *)
(* edges of a walk.  Each is first given a copy over an edge set as a      *)
(* parameter, with its equation, by an induction that the sections below   *)
(* state for sets of numbers.                                              *)
(***************************************************************************)
EXTENDS Traversals, SequenceTheorems, FiniteSetTheorems, WellFoundedInduction, TLAPS

-----------------------------------------------------------------------------
(***************************************************************************)
(* Induction over the numbers.                                             *)
(***************************************************************************)
\* A nonempty set of natural numbers has a least element.
LEMMA LeastNumber ==
  ASSUME NEW T, T \subseteq Nat, T # {}
  PROVE  \E m \in T : \A n \in T : m <= n
<1> DEFINE R == {ss \in Nat \X Nat : ss[1] < ss[2]}
<1>1. R = OpToRel(<, Nat)
  BY Zenon DEF OpToRel
<1>2. IsWellFoundedOn(R, Nat)
  BY <1>1, NatLessThanWellFounded, Zenon
<1>3. PICK x \in T : \A y \in T : <<y, x>> \notin R
  BY <1>2, WFMin, Zenon
<1>4. ASSUME NEW y \in T PROVE x <= y
  <2>1. <<y, x>> \notin R /\ x \in Nat /\ y \in Nat
    BY <1>3
  <2> QED BY <2>1
<1> QED BY <1>4

\* Induction over the numbers, for a set of them.
LEMMA Numbers ==
  ASSUME NEW G, 0 \in G, \A n \in Nat : n \in G => n + 1 \in G
  PROVE  \A n \in Nat : n \in G
<1> DEFINE B == {n \in Nat : n \notin G}
<1> SUFFICES ASSUME B # {} PROVE FALSE
  OBVIOUS
<1>1. PICK m \in B : \A n \in B : m <= n
  <2>1. B \subseteq Nat
    OBVIOUS
  <2> HIDE DEF B
  <2> QED BY <2>1, LeastNumber
<1>2. m \in Nat /\ m # 0 /\ m - 1 \in Nat /\ ~(m <= m - 1)
  OBVIOUS
<1>3. m - 1 \in G
  BY <1>1, <1>2
<1> QED BY <1>2, <1>3

-----------------------------------------------------------------------------
(***************************************************************************)
(* Walks by their number of edges: the equations of Within and Cheapest    *)
(* over an edge set U.                                                     *)
(***************************************************************************)
\* The heads of the edges that leave R.
Heads(U, R) == {e.to : e \in {f \in U : f.from \in R}}

\* g[j] is what walks of at most j edges reach from S, for j up to k.
WalkEq(U, S, k, g) ==
  g = [j \in 0 .. k |-> IF j = 0 THEN S ELSE g[j - 1] \cup Heads(U, g[j - 1])]

\* What walks of at most k edges reach.
W(U, S, k) == (CHOOSE g : WalkEq(U, S, k, g))[k]

\* Within is W for the edges the query may use.
LEMMA WithinIs == ASSUME NEW S, NEW k PROVE Within(S, k) = W(Usable, S, k)
  BY DEF Within, W, WalkEq, Heads

\* The equation has a solution.
LEMMA WalkExists ==
  ASSUME NEW U, NEW S PROVE \A k \in Nat : \E g : WalkEq(U, S, k, g)
<1> DEFINE G == {k \in Nat : \E g : WalkEq(U, S, k, g)}
<1>1. 0 \in G
  <2> DEFINE g == [j \in 0 .. 0 |-> S]
  <2>1. WalkEq(U, S, 0, g)
    BY DEF WalkEq
  <2> QED BY <2>1
<1>2. ASSUME NEW k \in Nat, k \in G PROVE k + 1 \in G
  <2>1. PICK g : WalkEq(U, S, k, g)
    BY <1>2
  <2> DEFINE h == [j \in 0 .. k + 1 |-> IF j = k + 1 THEN g[k] \cup Heads(U, g[k]) ELSE g[j]]
  <2>2. ASSUME NEW j \in 0 .. k + 1
        PROVE  h[j] = IF j = 0 THEN S ELSE h[j - 1] \cup Heads(U, h[j - 1])
    <3>1. CASE j = k + 1
      BY <3>1
    <3>2. CASE j # k + 1
      <4>1. j \in 0 .. k /\ (j # 0 => j - 1 \in 0 .. k) /\ j - 1 # k + 1
        BY <3>2
      <4>2. g[j] = IF j = 0 THEN S ELSE g[j - 1] \cup Heads(U, g[j - 1])
        BY <2>1, <4>1 DEF WalkEq
      <4>3. h[j] = g[j] /\ (j # 0 => h[j - 1] = g[j - 1])
        BY <3>2, <4>1
      <4> HIDE DEF h
      <4> QED BY <4>2, <4>3
    <3> QED BY <3>1, <3>2
  <2>3. WalkEq(U, S, k + 1, h)
    <3>1. h = [j \in 0 .. k + 1 |-> h[j]]
      OBVIOUS
    <3> HIDE DEF h
    <3> QED BY <2>2, <3>1 DEF WalkEq
  <2>4. \E f : WalkEq(U, S, k + 1, f)
    <3> HIDE DEF h
    <3> QED BY <2>3
  <2> QED BY <2>4
<1> HIDE DEF G
<1>3. \A k \in Nat : k \in G
  BY <1>1, <1>2, Numbers
<1> QED BY <1>3 DEF G

\* Solutions agree where both are defined.
LEMMA WalkUnique ==
  ASSUME NEW U, NEW S, NEW k \in Nat, NEW m \in Nat, k <= m,
         NEW g, WalkEq(U, S, k, g), NEW h, WalkEq(U, S, m, h)
  PROVE  \A j \in 0 .. k : g[j] = h[j]
<1> DEFINE G == {j \in Nat : j <= k => g[j] = h[j]}
<1>1. 0 \in G
  BY DEF WalkEq
<1>2. ASSUME NEW j \in Nat, j \in G PROVE j + 1 \in G
  <2> SUFFICES ASSUME j + 1 <= k PROVE g[j + 1] = h[j + 1]
    OBVIOUS
  <2>1. j + 1 \in 0 .. k /\ j + 1 \in 0 .. m /\ j + 1 # 0 /\ (j + 1) - 1 = j /\ j <= k
    OBVIOUS
  <2>2. g[j + 1] = g[j] \cup Heads(U, g[j])
    BY <2>1 DEF WalkEq
  <2>3. h[j + 1] = h[j] \cup Heads(U, h[j])
    BY <2>1 DEF WalkEq
  <2> QED BY <1>2, <2>1, <2>2, <2>3
<1> HIDE DEF G
<1>3. \A j \in Nat : j \in G
  BY <1>1, <1>2, Numbers
<1> QED BY <1>3 DEF G

\* The nodes that walks of at most 0 and of at most k + 1 edges reach.
LEMMA WalkStep ==
  ASSUME NEW U, NEW S, NEW k \in Nat
  PROVE  W(U, S, 0) = S /\ W(U, S, k + 1) = W(U, S, k) \cup Heads(U, W(U, S, k))
<1> DEFINE c(n) == CHOOSE g : WalkEq(U, S, n, g)
<1>1. \A n \in Nat : WalkEq(U, S, n, c(n))
  BY WalkExists
<1>2. W(U, S, 0) = c(0)[0] /\ W(U, S, k) = c(k)[k] /\ W(U, S, k + 1) = c(k + 1)[k + 1]
  BY DEF W
<1> HIDE DEF c
<1>3. c(0)[0] = S
  <2>1. WalkEq(U, S, 0, c(0))
    BY <1>1
  <2> QED BY <2>1 DEF WalkEq
<1>4. c(k)[k] = c(k + 1)[k]
  <2>1. WalkEq(U, S, k, c(k)) /\ WalkEq(U, S, k + 1, c(k + 1)) /\ k + 1 \in Nat
        /\ k <= k + 1 /\ k \in 0 .. k
    BY <1>1
  <2> QED BY <2>1, WalkUnique
<1>5. c(k + 1)[k + 1] = c(k + 1)[k] \cup Heads(U, c(k + 1)[k])
  <2>1. WalkEq(U, S, k + 1, c(k + 1)) /\ k + 1 \in 0 .. k + 1 /\ k + 1 # 0 /\ (k + 1) - 1 = k
    BY <1>1
  <2> QED BY <2>1 DEF WalkEq
<1> QED BY <1>2, <1>3, <1>4, <1>5

\* Longer walks reach no less, and a node reached leads on to its successors.
LEMMA WalkMono ==
  ASSUME NEW U, NEW S, NEW j \in Nat, NEW k \in Nat, j <= k
  PROVE  W(U, S, j) \subseteq W(U, S, k)
<1> DEFINE G == {n \in Nat : j <= n => W(U, S, j) \subseteq W(U, S, n)}
<1>1. 0 \in G
  OBVIOUS
<1>2. ASSUME NEW n \in Nat, n \in G PROVE n + 1 \in G
  <2>1. W(U, S, n) \subseteq W(U, S, n + 1)
    BY WalkStep
  <2>2. j <= n + 1 => j <= n \/ j = n + 1
    OBVIOUS
  <2> QED BY <1>2, <2>1, <2>2
<1> HIDE DEF G
<1>3. k \in G
  BY <1>1, <1>2, Numbers
<1> QED BY <1>3 DEF G

\* A walk goes on along an edge.
LEMMA WalkOn ==
  ASSUME NEW U, NEW S, NEW k \in Nat, NEW e \in U, e.from \in W(U, S, k)
  PROVE  e.to \in W(U, S, k + 1)
<1>1. e.to \in Heads(U, W(U, S, k))
  BY DEF Heads
<1> QED BY <1>1, WalkStep

\* A set that has S and, with a node, its successors, has every walk from S.
LEMMA WalkIn ==
  ASSUME NEW U, NEW S, NEW R, S \subseteq R, \A e \in U : e.from \in R => e.to \in R
  PROVE  \A k \in Nat : W(U, S, k) \subseteq R
<1> DEFINE G == {k \in Nat : W(U, S, k) \subseteq R}
<1>1. 0 \in G
  BY WalkStep
<1>2. ASSUME NEW k \in Nat, k \in G PROVE k + 1 \in G
  <2>1. Heads(U, W(U, S, k)) \subseteq R
    BY <1>2 DEF Heads
  <2> QED BY <1>2, <2>1, WalkStep
<1> HIDE DEF G
<1>3. \A k \in Nat : k \in G
  BY <1>1, <1>2, Numbers
<1> QED BY <1>3 DEF G

-----------------------------------------------------------------------------
(***************************************************************************)
(* Sequences: what removing and appending an element leave.                *)
(***************************************************************************)
\* What is left is one shorter, and the later elements move up.
LEMMA RemoveAtFacts ==
  ASSUME NEW S, NEW s \in Seq(S), NEW i \in 1 .. Len(s)
  PROVE  /\ RemoveAt(s, i) \in Seq(S) /\ Len(RemoveAt(s, i)) = Len(s) - 1
         /\ \A j \in 1 .. Len(s) - 1 :
              RemoveAt(s, i)[j] = IF j < i THEN s[j] ELSE s[j + 1]
<1> DEFINE a == SubSeq(s, 1, i - 1)
           b == SubSeq(s, i + 1, Len(s))
<1>1. a \in Seq(S) /\ Len(a) = i - 1 /\ \A j \in 1 .. i - 1 : a[j] = s[j]
  OBVIOUS
<1>2. b \in Seq(S) /\ Len(b) = Len(s) - i /\ \A j \in 1 .. Len(s) - i : b[j] = s[i + j]
  OBVIOUS
<1>3. RemoveAt(s, i) = a \o b
  BY DEF RemoveAt
<1> HIDE DEF a, b
<1>4. Len(a \o b) = Len(s) - 1 /\ a \o b \in Seq(S)
  <2>1. Len(a \o b) = Len(a) + Len(b) /\ a \o b \in Seq(S)
    BY <1>1, <1>2, ConcatProperties
  <2>2. Len(s) \in Nat /\ i \in Nat
    OBVIOUS
  <2> QED BY <1>1, <1>2, <2>1, <2>2
<1>5. ASSUME NEW j \in 1 .. Len(s) - 1
      PROVE  (a \o b)[j] = IF j < i THEN s[j] ELSE s[j + 1]
  <2>1. CASE j < i
    BY <1>1, <1>2, <2>1
  <2>2. CASE ~(j < i)
    <3>1. (a \o b)[j] = b[j - (i - 1)] /\ j - (i - 1) \in 1 .. Len(s) - i
      BY <1>1, <1>2, <2>2
    <3>2. b[j - (i - 1)] = s[i + (j - (i - 1))] /\ i + (j - (i - 1)) = j + 1
      BY <1>2, <3>1
    <3> QED BY <2>2, <3>1, <3>2
  <2> QED BY <2>1, <2>2
<1> QED BY <1>3, <1>4, <1>5

\* The other elements are still there, in their order.
LEMMA RemoveAtOthers ==
  ASSUME NEW S, NEW s \in Seq(S), NEW i \in 1 .. Len(s)
  PROVE  /\ \A j \in 1 .. Len(s) - 1 : \E k \in 1 .. Len(s) :
              k = (IF j < i THEN j ELSE j + 1) /\ k # i /\ RemoveAt(s, i)[j] = s[k]
         /\ \A k \in 1 .. Len(s) : k # i => \E j \in 1 .. Len(s) - 1 : RemoveAt(s, i)[j] = s[k]
<1>1. ASSUME NEW j \in 1 .. Len(s) - 1
      PROVE  \E k \in 1 .. Len(s) : k = (IF j < i THEN j ELSE j + 1) /\ k # i /\ RemoveAt(s, i)[j] = s[k]
  <2>1. CASE j < i
    BY <2>1, RemoveAtFacts
  <2>2. CASE ~(j < i)
    <3>1. j + 1 \in 1 .. Len(s) /\ j + 1 # i
      BY <2>2
    <3>2. RemoveAt(s, i)[j] = s[j + 1]
      BY <2>2, RemoveAtFacts
    <3> QED BY <2>2, <3>1, <3>2
  <2> QED BY <2>1, <2>2
<1>2. ASSUME NEW k \in 1 .. Len(s), k # i
      PROVE  \E j \in 1 .. Len(s) - 1 : RemoveAt(s, i)[j] = s[k]
  <2>1. CASE k < i
    <3>1. k \in 1 .. Len(s) - 1
      BY <2>1
    <3>2. RemoveAt(s, i)[k] = s[k]
      BY <2>1, <3>1, RemoveAtFacts
    <3> QED BY <3>1, <3>2
  <2>2. CASE k > i
    <3>1. k - 1 \in 1 .. Len(s) - 1 /\ ~(k - 1 < i) /\ (k - 1) + 1 = k
      BY <2>2
    <3>2. RemoveAt(s, i)[k - 1] = s[k]
      BY <3>1, RemoveAtFacts
    <3> QED BY <3>1, <3>2
  <2> QED BY <1>2, <2>1, <2>2
<1> QED BY <1>1, <1>2

\* What is appended comes last, and nothing else moves.
LEMMA AppendFacts ==
  ASSUME NEW S, NEW s \in Seq(S), NEW x \in S
  PROVE  /\ Append(s, x) \in Seq(S) /\ Len(Append(s, x)) = Len(s) + 1
         /\ \A j \in 1 .. Len(s) : Append(s, x)[j] = s[j]
         /\ Append(s, x)[Len(s) + 1] = x
         /\ \A j \in 1 .. Len(s) + 1 : j \in 1 .. Len(s) \/ j = Len(s) + 1
  OBVIOUS

\* A list goes on with an element it does not have.
LEMMA ListsAppend ==
  ASSUME NEW S, NEW s \in Seq(S), NEW T, IsFiniteSet(T), Lists(s, T), NEW x \in S, x \notin T
  PROVE  Lists(Append(s, x), T \cup {x})
<1>1. Cardinality(T \cup {x}) = Cardinality(T) + 1
  BY FS_AddElement
<1>2. Len(Append(s, x)) = Len(s) + 1 /\ DOMAIN Append(s, x) = 1 .. Len(s) + 1 /\ DOMAIN s = 1 .. Len(s)
  OBVIOUS
<1>3. Range(Append(s, x)) = Range(s) \cup {x}
  <2>1. ASSUME NEW y \in Range(Append(s, x)) PROVE y \in Range(s) \cup {x}
    BY <1>2, AppendFacts DEF Range
  <2>2. ASSUME NEW y \in Range(s) PROVE y \in Range(Append(s, x))
    <3>1. PICK j \in 1 .. Len(s) : y = s[j]
      BY <1>2 DEF Range
    <3>2. j \in DOMAIN Append(s, x) /\ Append(s, x)[j] = y
      BY <1>2, <3>1
    <3> QED BY <3>2 DEF Range
  <2>3. x \in Range(Append(s, x))
    <3>1. Len(s) + 1 \in DOMAIN Append(s, x) /\ Append(s, x)[Len(s) + 1] = x
      BY <1>2
    <3> QED BY <3>1 DEF Range
  <2> QED BY <2>1, <2>2, <2>3
<1> QED BY <1>1, <1>2, <1>3 DEF Lists

\* The empty list.
LEMMA ListsNone == Lists(<<>>, {})
<1>1. Range(<<>>) = {} /\ Len(<<>>) = 0
  BY DEF Range
<1> QED BY <1>1, FS_EmptySet DEF Lists

-----------------------------------------------------------------------------
(***************************************************************************)
(* Types.                                                                  *)
(***************************************************************************)
Rel == {e.rel : e \in Universe}
Hop == Node \X Nat \X (Node \cup {None}) \X Rel

\* The type of the state, which depends on the kind of query.
Types ==
  /\ edges \subseteq Universe /\ q \in Query
  /\ at \in Nat \X (Node \cup {None})
  /\ seen \in [Node -> Nat \cup {None}]
  /\ parent \in [Node -> Node \cup {None}] /\ via \in [Node -> Rel \cup {None}]
  /\ done \subseteq Node
  /\ q.algo \notin Recursive => work \in Seq(Nat \X Node) /\ todo \subseteq edges
  /\ q.algo \in Recursive => work \in Seq(Node \X SUBSET edges) /\ todo \subseteq Node
  /\ IF q.algo = "bfs_neighborhood" THEN out \in Seq(Hop) ELSE out \in Seq(Node)

\* What the assumptions say of the graph and the query.
LEMMA Given ==
  ASSUME edges \subseteq Universe, q \in Query
  PROVE  /\ q.src \in Node /\ q.hops \in Nat /\ q.roots \subseteq Node
         /\ \A e \in edges : e.from \in Node /\ e.to \in Node /\ e.weight \in Nat /\ e.rel \in Rel
         /\ IsFiniteSet(Node) /\ None \notin Nat /\ None \notin Int /\ None \notin Node
<1>1. \A e \in edges : {e.from, e.to} \subseteq Node /\ e.weight \in Nat
  BY TraversalsAssumption
<1>2. \A e \in edges : e.rel \in Rel
  BY DEF Rel
<1>3. None \notin Nat
  BY NoneAssumption
<1> QED BY <1>1, <1>2, <1>3, TraversalsAssumption, NoneAssumption

\* The edges of a node that a query may use.
LEMMA OutFacts ==
  /\ Usable \subseteq edges
  /\ \A x : Out(x) = {e \in Usable : e.from = x} /\ Out(x) \subseteq edges
  BY DEF Usable, Out

\* The state has its types from the start.
LEMMA TypesInit == Init => Types
<1> SUFFICES ASSUME Init PROVE Types
  OBVIOUS
<1>1. edges \subseteq Universe /\ q \in Query
  BY DEF Init
<1>2. at \in Nat \X (Node \cup {None}) /\ done \subseteq Node
  BY DEF Init
<1>3. /\ seen \in [Node -> Nat \cup {None}]
      /\ parent \in [Node -> Node \cup {None}] /\ via \in [Node -> Rel \cup {None}]
  BY DEF Init
<1>4. q.algo \notin Recursive => work \in Seq(Nat \X Node) /\ todo \subseteq edges
  <2>1. <<0, q.src>> \in Nat \X Node
    BY <1>1, Given
  <2> QED BY <2>1 DEF Init
<1>5. q.algo \in Recursive => work \in Seq(Node \X SUBSET edges) /\ todo \subseteq Node
  BY <1>1, Given DEF Init
<1>6. out = <<>>
  BY DEF Init
<1> QED BY <1>1, <1>2, <1>3, <1>4, <1>5, <1>6 DEF Types

\* And at every step.
LEMMA TypesStep == Types /\ [Next]_vars => Types'
<1> SUFFICES ASSUME Types, [Next]_vars PROVE Types'
  OBVIOUS
<1> USE DEF Types
<1>1. CASE AtOnce
  BY <1>1 DEF AtOnce
<1>2. CASE Take
  <2>0. q.algo \notin Recursive /\ UNCHANGED <<edges, q, seen, parent, via>>
    BY <1>2 DEF Take
  <2>1. CASE work = <<>>
    BY <1>2, <2>1 DEF Take
  <2>2. CASE work # <<>>
    <3>1. PICK k \in 1 .. Len(work) :
            /\ work' = RemoveAt(work, k) /\ at' = work[k]
            /\ \/ UNCHANGED <<todo, done, out>>
               \/ /\ todo' = IF Skips(work[k]) THEN {} ELSE Out(work[k][2])
                  /\ done' = done \cup {work[k][2]}
                  /\ out' = IF q.algo \in {"bfs_component", "dfs_component"} /\ ~Skips(work[k])
                            THEN Append(out, work[k][2]) ELSE out
      BY <1>2, <2>2 DEF Take, Popped
    <3>2. work[k] \in Nat \X Node /\ work[k][2] \in Node
      BY <2>0
    <3>3. work' \in Seq(Nat \X Node)
      BY <2>0, <3>1, RemoveAtFacts
    <3>4. todo' \subseteq edges /\ done' \subseteq Node
      BY <2>0, <3>1, <3>2, OutFacts
    <3>5. at' \in Nat \X (Node \cup {None})
      BY <3>1, <3>2
    <3>6. IF q.algo = "bfs_neighborhood" THEN out' \in Seq(Hop) ELSE out' \in Seq(Node)
      <4>1. out \in Seq(Node) => Append(out, work[k][2]) \in Seq(Node)
        BY <3>2, AppendFacts
      <4> QED BY <3>1, <4>1
    <3> QED BY <2>0, <3>3, <3>4, <3>5, <3>6
  <2> QED BY <2>1, <2>2
<1>3. CASE Look
  <2>0. q.algo \notin Recursive /\ UNCHANGED <<edges, q, at, done>>
    BY <1>3 DEF Look
  <2>1. PICK e \in todo :
          /\ todo' = todo \ {e}
          /\ \/ UNCHANGED <<seen, parent, via, work, out>>
             \/ /\ seen' = [seen EXCEPT ![e.to] = Cost(e)]
                /\ parent' = [parent EXCEPT ![e.to] = at[2]]
                /\ via' = [via EXCEPT ![e.to] = e.rel]
                /\ work' = Append(work, <<Cost(e), e.to>>) \/ UNCHANGED work
                /\ out' = IF q.algo = "bfs_neighborhood"
                         THEN Append(out, <<e.to, Cost(e), at[2], e.rel>>) ELSE out
    BY <1>3 DEF Look
  <2>2. e.to \in Node /\ e.weight \in Nat /\ e.rel \in Rel
    BY <2>0, <2>1, Given
  <2>3. at[1] \in Nat /\ at[2] \in Node \cup {None}
    OBVIOUS
  <2>4. Cost(e) \in Nat
    BY <2>2, <2>3 DEF Cost
  <2>5. /\ seen' \in [Node -> Nat \cup {None}]
        /\ parent' \in [Node -> Node \cup {None}] /\ via' \in [Node -> Rel \cup {None}]
    BY <2>1, <2>2, <2>3, <2>4
  <2>6. work' \in Seq(Nat \X Node)
    <3>1. <<Cost(e), e.to>> \in Nat \X Node
      BY <2>2, <2>4
    <3>2. Append(work, <<Cost(e), e.to>>) \in Seq(Nat \X Node)
      BY <2>0, <3>1, AppendFacts
    <3> QED BY <2>0, <2>1, <3>2
  <2>7. IF q.algo = "bfs_neighborhood" THEN out' \in Seq(Hop) ELSE out' \in Seq(Node)
    <3>1. <<e.to, Cost(e), at[2], e.rel>> \in Hop
      BY <2>2, <2>3, <2>4 DEF Hop
    <3>2. out \in Seq(Hop) => Append(out, <<e.to, Cost(e), at[2], e.rel>>) \in Seq(Hop)
      BY <3>1, AppendFacts
    <3> QED BY <2>1, <3>2
  <2> QED BY <2>0, <2>1, <2>5, <2>6, <2>7
<1>4. CASE Root
  <2>0. q.algo \in Recursive /\ UNCHANGED <<edges, q, at, parent, via, done, out>>
    BY <1>4 DEF Root
  <2>1. CASE todo = {}
    BY <1>4, <2>0, <2>1 DEF Root
  <2>2. CASE todo # {}
    <3>1. PICK x \in todo :
            /\ todo' = todo \ {x}
            /\ \/ seen' = [seen EXCEPT ![x] = 0] /\ work' = <<<<x, Out(x)>>>>
               \/ UNCHANGED <<seen, work>>
      BY <1>4, <2>2 DEF Root
    <3>2. <<x, Out(x)>> \in Node \X SUBSET edges
      BY <2>0, OutFacts
    <3>3. <<<<x, Out(x)>>>> \in Seq(Node \X SUBSET edges)
      BY <3>2
    <3>4. seen' \in [Node -> Nat \cup {None}] /\ todo' \subseteq Node
      BY <2>0, <3>1
    <3>5. work' \in Seq(Node \X SUBSET edges)
      BY <2>0, <3>1, <3>3
    <3> QED BY <2>0, <3>4, <3>5
  <2> QED BY <2>1, <2>2
<1>5. CASE Visit
  <2>0. /\ q.algo \in Recursive /\ work # <<>>
        /\ UNCHANGED <<edges, q, at, todo, parent, via>>
    BY <1>5 DEF Visit
  <2> DEFINE node == Last(work)[1]
             left == Last(work)[2]
  <2>1. work \in Seq(Node \X SUBSET edges) /\ Front(work) \in Seq(Node \X SUBSET edges)
    BY <2>0 DEF Front
  <2>2. node \in Node /\ left \subseteq edges
    <3>1. Last(work) \in Node \X SUBSET edges
      BY <2>0, <2>1 DEF Last
    <3> QED BY <3>1
  <2> HIDE DEF node, left
  <2>3. CASE /\ done' = done \cup {node} /\ out' = Append(out, node)
             /\ work' = Front(work) /\ UNCHANGED seen
    BY <2>0, <2>1, <2>2, <2>3 DEF Recursive
  <2>4. CASE \E e \in left : LET rest == Append(Front(work), <<node, left \ {e}>>) IN
               /\ IF seen[e.to] = None
                  THEN /\ seen' = [seen EXCEPT ![e.to] = 0]
                       /\ work' = Append(rest, <<e.to, Out(e.to)>>)
                  ELSE work' = rest /\ UNCHANGED seen
               /\ UNCHANGED <<done, out>>
    <3>1. PICK e \in left : LET rest == Append(Front(work), <<node, left \ {e}>>) IN
               /\ IF seen[e.to] = None
                  THEN /\ seen' = [seen EXCEPT ![e.to] = 0]
                       /\ work' = Append(rest, <<e.to, Out(e.to)>>)
                  ELSE work' = rest /\ UNCHANGED seen
               /\ UNCHANGED <<done, out>>
      BY <2>4
    <3> DEFINE rest == Append(Front(work), <<node, left \ {e}>>)
    <3>2. <<node, left \ {e}>> \in Node \X SUBSET edges /\ <<e.to, Out(e.to)>> \in Node \X SUBSET edges
      BY <2>2, OutFacts, Given
    <3>3. rest \in Seq(Node \X SUBSET edges) /\ Append(rest, <<e.to, Out(e.to)>>) \in Seq(Node \X SUBSET edges)
      BY <2>1, <3>2, AppendFacts
    <3>4. work' \in Seq(Node \X SUBSET edges)
      BY <3>1, <3>3
    <3>5. seen' \in [Node -> Nat \cup {None}]
      <4>1. seen' = [seen EXCEPT ![e.to] = 0] \/ seen' = seen
        BY <3>1
      <4> QED BY <4>1
    <3> QED BY <2>0, <3>1, <3>4, <3>5
  <2> QED BY <1>5, <2>3, <2>4 DEF Visit, node, left
<1>6. CASE UNCHANGED vars
  BY <1>6 DEF vars
<1> QED BY <1>1, <1>2, <1>3, <1>4, <1>5, <1>6 DEF Next

-----------------------------------------------------------------------------
(***************************************************************************)
(* dfs_component.                                                          *)
(***************************************************************************)
Count == Cardinality(done)
Src(k) == W(Usable, {q.src}, k)
Pending(x) == \E k \in 1 .. Len(work) : work[k][2] = x

\* What is done or on the stack can be reached, in no more steps than nodes are
\* done; the heads of the edges looked at are done or on the stack.
Stack ==
  /\ \A k \in 1 .. Len(work) : work[k][2] \in Src(Count)
  /\ done \subseteq Src(Count) /\ (q.src \in done \/ Pending(q.src))
  /\ todo # {} => /\ at[2] \in done /\ todo \subseteq Out(at[2])
                  /\ Count >= 1 /\ at[2] \in Src(Count - 1)
  /\ \A x \in done : \A e \in Out(x) \ todo : e.to \in done \/ Pending(e.to)
  /\ Lists(out, done)

\* A set of nodes has no more elements than there are nodes.
LEMMA Counting ==
  ASSUME NEW D, D \subseteq Node
  PROVE  /\ IsFiniteSet(D) /\ Cardinality(D) \in Nat /\ N \in Nat /\ Cardinality(D) <= N
         /\ \A x : x \notin D => Cardinality(D \cup {x}) = Cardinality(D) + 1
<1>1. IsFiniteSet(Node)
  BY TraversalsAssumption
<1>2. IsFiniteSet(D) /\ Cardinality(D) <= Cardinality(Node)
  BY <1>1, FS_Subset
<1>3. Cardinality(D) \in Nat /\ Cardinality(Node) \in Nat
  BY <1>1, <1>2, FS_CardinalityType
<1>4. ASSUME NEW x, x \notin D PROVE Cardinality(D \cup {x}) = Cardinality(D) + 1
  BY <1>2, <1>4, FS_AddElement
<1> QED BY <1>2, <1>3, <1>4 DEF N

\* The edges and the query do not change, and so nothing defined from them.
LEMMA Fixed ==
  ASSUME UNCHANGED <<edges, q>>
  PROVE  /\ Usable' = Usable /\ \A x : Out(x)' = Out(x)
         /\ \A k : Src(k)' = Src(k)
<1>1. Usable' = Usable
  BY DEF Usable
<1>2. \A x : Out(x)' = Out(x)
  BY DEF Out
<1> QED BY <1>1, <1>2 DEF Src

\* What walks from the source reach.
LEMMA SrcFacts ==
  /\ Src(0) = {q.src}
  /\ \A j, k \in Nat : j <= k => Src(j) \subseteq Src(k)
  /\ \A k \in Nat : \A e \in Usable : e.from \in Src(k) => e.to \in Src(k + 1)
  BY WalkStep, WalkMono, WalkOn DEF Src

\* A node is pending after a push or a pop if it was before, except the node popped.
LEMMA PendingPop ==
  ASSUME NEW k \in 1 .. Len(work), work \in Seq(Nat \X Node), work' = RemoveAt(work, k)
  PROVE  /\ work' \in Seq(Nat \X Node) /\ Len(work') = Len(work) - 1
         /\ \A x : Pending(x) => Pending(x)' \/ x = work[k][2]
         /\ \A j \in 1 .. Len(work') : \E i \in 1 .. Len(work) : i # k /\ work'[j] = work[i]
<1>1. work' \in Seq(Nat \X Node) /\ Len(work') = Len(work) - 1
  BY RemoveAtFacts
<1>2. ASSUME NEW x, Pending(x), x # work[k][2] PROVE Pending(x)'
  <2>1. PICK i \in 1 .. Len(work) : work[i][2] = x
    BY <1>2 DEF Pending
  <2>2. PICK j \in 1 .. Len(work) - 1 : work'[j] = work[i]
    BY <1>2, <2>1, RemoveAtOthers
  <2> QED BY <1>1, <2>1, <2>2 DEF Pending
<1>3. ASSUME NEW j \in 1 .. Len(work') PROVE \E i \in 1 .. Len(work) : i # k /\ work'[j] = work[i]
  <2>1. j \in 1 .. Len(work) - 1
    BY <1>1
  <2> QED BY <2>1, RemoveAtOthers
<1> QED BY <1>1, <1>2, <1>3

\* What is pushed is pending, and so is what was.
LEMMA PendingPush ==
  ASSUME work \in Seq(Nat \X Node), NEW c \in Nat, NEW y \in Node, work' = Append(work, <<c, y>>)
  PROVE  /\ work' \in Seq(Nat \X Node) /\ Len(work') = Len(work) + 1
         /\ \A x : Pending(x) => Pending(x)'
         /\ Pending(y)' /\ work'[Len(work) + 1] = <<c, y>>
         /\ \A j \in 1 .. Len(work) : work'[j] = work[j]
         /\ \A j \in 1 .. Len(work') : j \in 1 .. Len(work) \/ j = Len(work) + 1
<1>1. <<c, y>> \in Nat \X Node /\ <<c, y>>[2] = y
  OBVIOUS
<1>2. /\ work' \in Seq(Nat \X Node) /\ Len(work') = Len(work) + 1
      /\ work'[Len(work) + 1] = <<c, y>>
      /\ \A j \in 1 .. Len(work) : work'[j] = work[j]
      /\ \A j \in 1 .. Len(work') : j \in 1 .. Len(work) \/ j = Len(work) + 1
  BY <1>1, AppendFacts
<1>3. ASSUME NEW x, Pending(x) PROVE Pending(x)'
  <2>1. PICK i \in 1 .. Len(work) : work[i][2] = x
    BY <1>3 DEF Pending
  <2>2. i \in 1 .. Len(work') /\ work'[i][2] = x
    BY <1>2, <2>1
  <2> QED BY <2>2 DEF Pending
<1>4. Pending(y)'
  <2>1. Len(work) + 1 \in 1 .. Len(work') /\ work'[Len(work) + 1][2] = y
    BY <1>1, <1>2
  <2> QED BY <2>1 DEF Pending
<1> QED BY <1>2, <1>3, <1>4

\* The stack starts with the source.
LEMMA StackInit == ASSUME Init, q.algo = "dfs_component" PROVE Stack
<1>1. q.algo \notin Recursive /\ q \in Query
  BY DEF Init, Recursive
<1>2. work = <<<<0, q.src>>>> /\ todo = {} /\ done = {} /\ out = <<>>
  BY <1>1 DEF Init
<1>3. Count = 0
  BY <1>2, FS_EmptySet DEF Count
<1>4. Len(work) = 1 /\ work[1][2] = q.src
  BY <1>2
<1>5. Pending(q.src) /\ \A k \in 1 .. Len(work) : work[k][2] \in Src(Count)
  BY <1>3, <1>4, SrcFacts DEF Pending
<1> QED BY <1>2, <1>5, ListsNone DEF Stack

\* A node is popped: it is listed once, the first time.
LEMMA StackTake ==
  ASSUME Types, Stack, q.algo = "dfs_component", Take, work # <<>> PROVE Stack' /\ result' = result
<1>0. q.algo \notin Recursive /\ q.algo \notin DijkstraPath
  BY DEF Recursive, DijkstraPath
<1>1. PICK k \in 1 .. Len(work) :
        /\ work' = RemoveAt(work, k)
        /\ at' = work[k]
        /\ todo' = IF Skips(work[k]) THEN {} ELSE Out(work[k][2])
        /\ done' = done \cup {work[k][2]}
        /\ out' = IF ~Skips(work[k]) THEN Append(out, work[k][2]) ELSE out
        /\ UNCHANGED result
  BY <1>0 DEF Take, Popped
<1>2. UNCHANGED <<edges, q>> /\ todo = {}
  BY DEF Take
<1>3. work \in Seq(Nat \X Node) /\ out \in Seq(Node) /\ done \subseteq Node
  BY <1>0 DEF Types
<1> DEFINE x == work[k][2]
<1>4. x \in Node /\ x \in Src(Count) /\ at'[2] = x
  BY <1>1, <1>3 DEF Stack
<1>5. Skips(work[k]) <=> x \in done
  BY DEF Skips
<1> HIDE DEF x
<1>6. /\ \A y : Pending(y) => Pending(y)' \/ y = x
      /\ \A j \in 1 .. Len(work') : \E i \in 1 .. Len(work) : work'[j] = work[i]
  BY <1>1, <1>3, PendingPop DEF x
<1>7. Count \in Nat /\ (x \in done => Count' = Count) /\ (x \notin done => Count' = Count + 1)
  <2>1. done' = done \cup {x}
    BY <1>1 DEF x
  <2>2. x \in done => done' = done
    BY <2>1
  <2>3. x \notin done => Cardinality(done \cup {x}) = Cardinality(done) + 1
    BY <1>3, Counting
  <2>4. Cardinality(done) \in Nat
    BY <1>3, Counting
  <2> QED BY <2>1, <2>2, <2>3, <2>4 DEF Count
<1>8. Src(Count) \subseteq Src(Count')
  BY <1>7, SrcFacts
<1>9. \A y : Src(y)' = Src(y)
  BY <1>2, Fixed
<1>10. (Src(Count))' = Src(Count')
  BY <1>2, Fixed DEF Src
<1>11. (\A j \in 1 .. Len(work) : work[j][2] \in Src(Count))'
  BY <1>6, <1>8, <1>10 DEF Stack
<1>12. (done \subseteq Src(Count) /\ (q.src \in done \/ Pending(q.src)))'
  <2>1. done' = done \cup {x}
    BY <1>1 DEF x
  <2>2. done' \subseteq Src(Count')
    BY <1>4, <1>8, <2>1 DEF Stack
  <2>3. q.src \in done' \/ \E j \in 1 .. Len(work') : work'[j][2] = q.src
    BY <1>6, <2>1 DEF Stack, Pending
  <2> QED BY <1>2, <1>10, <2>2, <2>3 DEF Pending
<1>13. todo' # {} => x \notin done
  BY <1>1, <1>5
<1>14. (todo # {} => /\ at[2] \in done /\ todo \subseteq Out(at[2])
                     /\ Count >= 1 /\ at[2] \in Src(Count - 1))'
  <2> SUFFICES ASSUME todo' # {} 
               PROVE (/\ at[2] \in done /\ todo \subseteq Out(at[2])
                      /\ Count >= 1 /\ at[2] \in Src(Count - 1))'
    OBVIOUS
  <2>1. Count' = Count + 1 /\ Count' >= 1 /\ Count' - 1 = Count
    BY <1>7, <1>13
  <2>2. at'[2] \in done' /\ todo' \subseteq Out(x)
    BY <1>1, <1>4 DEF x
  <2>3. (Out(at[2]))' = Out(x)
    BY <1>2, <1>4 DEF Out
  <2>4. (Src(Count - 1))' = Src(Count)
    BY <1>2, <2>1, Fixed DEF Src
  <2> QED BY <1>4, <2>1, <2>2, <2>3, <2>4
<1>15. (\A y \in done : \A e \in Out(y) \ todo : e.to \in done \/ Pending(e.to))'
  <2> SUFFICES ASSUME NEW y \in done', NEW e \in Out(y), e \notin todo'
               PROVE e.to \in done' \/ Pending(e.to)'
    BY <1>2, Fixed
  <2>1. done' = done \cup {x}
    BY <1>1 DEF x
  <2>2. y \in done
    <3>1. x \notin done => todo' = Out(x)
      BY <1>1, <1>5 DEF x
    <3> QED BY <2>1, <3>1
  <2>3. e.to \in done \/ Pending(e.to)
    BY <1>2, <2>2 DEF Stack
  <2> QED BY <1>6, <2>1, <2>3
<1>16. Lists(out, done)'
  <2>1. done' = done \cup {x}
    BY <1>1 DEF x
  <2>2. CASE x \in done
    <3>1. done' = done /\ out' = out
      BY <1>1, <1>5, <2>1, <2>2
    <3> QED BY <3>1 DEF Stack, Lists
  <2>3. CASE x \notin done
    <3>1. out' = Append(out, x)
      BY <1>1, <1>5, <2>3 DEF x
    <3>2. Lists(Append(out, x), done \cup {x})
      <4>1. Lists(out, done) /\ IsFiniteSet(done)
        BY <1>3, Counting DEF Stack
      <4> QED BY <1>3, <1>4, <2>3, <4>1, ListsAppend
    <3> QED BY <2>1, <3>1, <3>2 DEF Lists
  <2> QED BY <2>2, <2>3
<1> QED BY <1>1, <1>11, <1>12, <1>14, <1>15, <1>16 DEF Stack

\* An edge is looked at: its head is done or on the stack.
LEMMA StackLook ==
  ASSUME Types, Stack, q.algo = "dfs_component", Look PROVE Stack' /\ result' = result
<1>0. q.algo \notin Recursive /\ q.algo \notin BfsPath
  BY DEF Recursive, BfsPath
<1>1. UNCHANGED <<edges, q, at, done>> /\ todo # {}
  BY DEF Look
<1>2. PICK e \in todo :
        /\ todo' = todo \ {e}
        /\ IF e.to \notin done THEN work' = Append(work, <<0, e.to>>) ELSE UNCHANGED work
        /\ UNCHANGED <<out, result>>
  <2>1. \A e : Accepts(e) <=> e.to \notin done
    BY DEF Accepts, Dijkstra, DijkstraPath
  <2>2. \A e : Cost(e) = 0
    BY DEF Cost, Dijkstra, DijkstraPath
  <2> QED BY <1>0, <2>1, <2>2 DEF Look
<1>3. work \in Seq(Nat \X Node) /\ e.to \in Node /\ done \subseteq Node /\ 0 \in Nat
  BY <1>0, Given DEF Types
<1>4. Count' = Count /\ Count \in Nat
  BY <1>1, <1>3, Counting DEF Count
<1>5. e.to \in Src(Count)
  <2>1. e \in Usable /\ e.from = at[2] /\ at[2] \in Src(Count - 1) /\ Count >= 1
    BY <1>1, OutFacts DEF Stack
  <2>2. Count - 1 \in Nat /\ (Count - 1) + 1 = Count
    BY <1>4, <2>1
  <2> QED BY <2>1, <2>2, SrcFacts
<1>6. /\ \A y : Pending(y) => Pending(y)'
      /\ e.to \in done \/ Pending(e.to)'
      /\ \A j \in 1 .. Len(work') : work'[j][2] \in Src(Count)
  <2>1. CASE e.to \notin done
    <3>1. work' = Append(work, <<0, e.to>>)
      BY <1>2, <2>1
    <3> QED BY <1>3, <1>5, <3>1, PendingPush DEF Stack
  <2>2. CASE e.to \in done
    <3>1. work' = work
      BY <1>2, <2>2
    <3> QED BY <2>2, <3>1 DEF Pending, Stack
  <2> QED BY <2>1, <2>2
<1>7. (Src(Count))' = Src(Count) /\ (Src(Count - 1))' = Src(Count - 1)
  BY <1>1, <1>4, Fixed DEF Src
<1>8. (\A j \in 1 .. Len(work) : work[j][2] \in Src(Count))'
  BY <1>6, <1>7
<1>9. (done \subseteq Src(Count) /\ (q.src \in done \/ Pending(q.src)))'
  BY <1>1, <1>6, <1>7 DEF Stack, Pending
<1>10. (todo # {} => /\ at[2] \in done /\ todo \subseteq Out(at[2])
                     /\ Count >= 1 /\ at[2] \in Src(Count - 1))'
  <2>1. (Out(at[2]))' = Out(at[2])
    BY <1>1 DEF Out
  <2> QED BY <1>1, <1>2, <1>4, <1>7, <2>1 DEF Stack
<1>11. (\A y \in done : \A f \in Out(y) \ todo : f.to \in done \/ Pending(f.to))'
  <2> SUFFICES ASSUME NEW y \in done, NEW f \in Out(y), f \notin todo'
               PROVE f.to \in done \/ Pending(f.to)'
    BY <1>1, Fixed
  <2>1. f \notin todo \/ f = e
    BY <1>2
  <2>2. f \notin todo => f.to \in done \/ Pending(f.to)
    BY DEF Stack
  <2> QED BY <1>6, <2>1, <2>2
<1>12. Lists(out, done)'
  <2>1. out' = out /\ done' = done
    BY <1>1, <1>2
  <2> QED BY <2>1 DEF Lists, Stack
<1> QED BY <1>2, <1>8, <1>9, <1>10, <1>11, <1>12 DEF Stack

\* With nothing left on the stack the nodes taken up are those reachable.
LEMMA StackEnd ==
  ASSUME Types, Stack, todo = {}, work = <<>> PROVE Lists(out, Within({q.src}, N))
<1>1. done \subseteq Node
  BY DEF Types
<1>2. Count \in Nat /\ N \in Nat /\ Count <= N
  BY <1>1, Counting DEF Count
<1>3. done \subseteq Src(N)
  BY <1>2, SrcFacts DEF Stack
<1>4. \A y : ~Pending(y)
  BY DEF Pending
<1>5. q.src \in done
  BY <1>4 DEF Stack
<1>6. ASSUME NEW e \in Usable, e.from \in done PROVE e.to \in done
  <2>1. e \in Out(e.from)
    BY OutFacts
  <2> QED BY <1>4, <1>6, <2>1 DEF Stack
<1>7. Src(N) \subseteq done
  BY <1>2, <1>5, <1>6, WalkIn DEF Src
<1>8. Within({q.src}, N) = done
  BY <1>3, <1>7, WithinIs DEF Src
<1> QED BY <1>8 DEF Stack

\* Stack is about these variables only.
LEMMA StackSame ==
  ASSUME Stack, UNCHANGED <<edges, q, work, at, todo, done, out>> PROVE Stack'
<1>1. Usable' = Usable /\ Count' = Count /\ \A x : Out(x)' = Out(x)
  BY Fixed DEF Count
<1>2. /\ (Src(Count))' = Src(Count) /\ (Src(Count - 1))' = Src(Count - 1)
      /\ (Out(at[2]))' = Out(at[2])
  BY <1>1 DEF Src, Out
<1>3. /\ \A x : Pending(x)' <=> Pending(x)
      /\ Pending(q.src)' <=> Pending(q.src)
  BY DEF Pending
<1>4. Lists(out, done)' <=> Lists(out, done)
  BY DEF Lists
<1>5. (\A x \in done : \A e \in Out(x) \ todo : e.to \in done \/ Pending(e.to))'
  BY <1>1, <1>3 DEF Stack
<1> QED BY <1>1, <1>2, <1>3, <1>4, <1>5 DEF Stack

\* dfs_component while it runs and when it has returned.
StackInv == q.algo = "dfs_component" =>
  /\ result = None => Stack
  /\ result # None => Lists(result.nodes, Within({q.src}, N))

\* A step of the query keeps what the stack promises.
LEMMA StackStep == ASSUME Types, StackInv, [Next]_vars PROVE StackInv'
<1> SUFFICES ASSUME q'.algo = "dfs_component" PROVE StackInv'
  BY DEF StackInv
<1>1. q' = q /\ edges' = edges
  BY DEF Next, AtOnce, Take, Look, Root, Visit, vars
<1>2. q.algo = "dfs_component" /\ q.algo \notin Recursive
  BY <1>1 DEF Recursive
<1>3. CASE AtOnce
  BY <1>2, <1>3 DEF AtOnce, Unknown, Csr, Same, BfsPath
<1>4. CASE Take
  <2>0. result = None /\ todo = {}
    BY <1>4 DEF Take
  <2>1. Stack
    BY <1>2, <2>0 DEF StackInv
  <2>2. CASE work = <<>>
    <3>1. result' = [nodes |-> out]
      BY <1>2, <1>4, <2>2 DEF Take, Exhausted
    <3>2. UNCHANGED <<edges, q, work, at, todo, done, out>>
      BY <1>4, <2>2 DEF Take
    <3>3. Lists(out, Within({q.src}, N))
      BY <2>0, <2>1, <2>2, StackEnd
    <3>4. Within({q.src}, N)' = Within({q.src}, N)
      BY <3>2 DEF Within, Usable, N
    <3>5. Lists(result'.nodes, Within({q.src}, N)')
      BY <3>1, <3>3, <3>4
    <3>6. Stack'
      BY <2>1, <3>2, StackSame
    <3> QED BY <3>5, <3>6 DEF StackInv, Lists
  <2>3. CASE work # <<>>
    BY <1>2, <1>4, <2>0, <2>1, <2>3, StackTake DEF StackInv
  <2> QED BY <2>2, <2>3
<1>5. CASE Look
  <2>1. result = None
    BY <1>5 DEF Look
  <2> QED BY <1>2, <1>5, <2>1, StackLook DEF StackInv
<1>6. CASE Root \/ Visit
  BY <1>2, <1>6 DEF Root, Visit
<1>7. CASE UNCHANGED vars
  <2>1. UNCHANGED <<edges, q, work, at, todo, done, out, result>>
    BY <1>7 DEF vars
  <2>2. Stack => Stack'
    BY <2>1, StackSame
  <2>3. Within({q.src}, N)' = Within({q.src}, N)
    BY <2>1 DEF Within, Usable, N
  <2> QED BY <2>1, <2>2, <2>3 DEF StackInv, Lists
<1> QED BY <1>3, <1>4, <1>5, <1>6, <1>7 DEF Next

-----------------------------------------------------------------------------
(***************************************************************************)
(* The recursive searches.                                                 *)
(***************************************************************************)
Seen == {x \in Node : seen[x] # None}
Reach(k) == W(Usable, q.roots, k)

\* The frames are the gray nodes, each reached from the one below by an edge.
Frames ==
  /\ \A k \in 1 .. Len(work) : work[k][1] \in Seen /\ work[k][1] \notin done
                               /\ work[k][2] \subseteq Out(work[k][1])
  /\ \A j, k \in 1 .. Len(work) : work[j][1] = work[k][1] => j = k
  /\ \A x \in Seen \ done : \E k \in 1 .. Len(work) : work[k][1] = x
  /\ done \subseteq Seen
  /\ \A k \in 1 .. Len(work) - 1 : \E e \in Out(work[k][1]) : e.to = work[k + 1][1]

\* Edges looked at lead to nodes seen, and what is seen can be reached.
Visited ==
  /\ \A k \in 1 .. Len(work) : \A e \in Out(work[k][1]) \ work[k][2] : e.to \in Seen
  /\ \A x \in done : \A e \in Out(x) : e.to \in Seen
  /\ Seen \subseteq Reach(Cardinality(Seen))
  /\ todo \subseteq q.roots /\ q.roots \ todo \subseteq Seen
  /\ Lists(out, done)

\* Without cycles, edges looked at lead to nodes done or to the next frame, and
\* every node is listed after its successors.
Ordered ==
  /\ \A k \in 1 .. Len(work) : \A e \in Out(work[k][1]) \ work[k][2] :
       e.to \in done \/ (k < Len(work) /\ e.to = work[k + 1][1])
  /\ \A j \in 1 .. Len(out) : \A e \in Out(out[j]) : \E k \in 1 .. j - 1 : out[k] = e.to

\* The query has found no cycle, or there is none.
Acyclic == q.algo = "dfs_has_cycle" \/ ~Cyclic

Search == Frames /\ Visited /\ (Acyclic => Ordered)

\* Cyclic by walks over the edges the query may use.
LEMMA CyclicIs ==
  Cyclic <=> \E x \in W(Usable, q.roots, N) : x \in W(Usable, Heads(Usable, {x}), N)
<1>1. \A x : {e.to : e \in {f \in Usable : f.from = x}} = Heads(Usable, {x})
  BY DEF Heads
<1> QED BY <1>1, WithinIs DEF Cyclic, OnCycle

\* The positions of a sequence.
LEMMA UpTo ==
  ASSUME NEW n \in Nat PROVE IsFiniteSet(1 .. n) /\ Cardinality(1 .. n) = n
  BY FS_Interval

\* Sequences of distinct nodes are no longer than there are nodes.
LEMMA DistinctBound ==
  ASSUME NEW f, NEW n \in Nat, \A k \in 1 .. n : f[k] \in Node,
         \A j, k \in 1 .. n : f[j] = f[k] => j = k
  PROVE  n <= N
<1> DEFINE g == [k \in 1 .. n |-> f[k]]
<1>1. g \in [1 .. n -> Node] /\ \A j, k \in 1 .. n : g[j] = g[k] => j = k
  OBVIOUS
<1>2. IsFiniteSet(1 .. n) /\ Cardinality(1 .. n) = n
  BY UpTo
<1>3. IsFiniteSet(Node) /\ N \in Nat
  BY Counting, TraversalsAssumption
<1> HIDE DEF g
<1>4. ~(Cardinality(Node) < Cardinality(1 .. n))
  BY <1>1, <1>2, <1>3, FS_PigeonHole
<1> QED BY <1>2, <1>3, <1>4 DEF N

\* A list has each element once.
LEMMA ListsOnce ==
  ASSUME NEW S, NEW s \in Seq(S), NEW T, Lists(s, T)
  PROVE  \A j, k \in 1 .. Len(s) : s[j] = s[k] => j = k
<1>1. DOMAIN s = 1 .. Len(s) /\ Len(s) \in Nat /\ s = [k \in 1 .. Len(s) |-> s[k]]
  OBVIOUS
<1>2. IsFiniteSet(1 .. Len(s)) /\ Cardinality(1 .. Len(s)) = Len(s)
  BY <1>1, UpTo
<1>3. s \in [1 .. Len(s) -> T] /\ \A t \in T : \E k \in 1 .. Len(s) : s[k] = t
  BY <1>1 DEF Lists, Range
<1>4. s \in Surjection(1 .. Len(s), T)
  BY <1>3 DEF Surjection
<1>5. s \in Injection(1 .. Len(s), T)
  BY <1>2, <1>4, FS_SurjSameCardinalityImpliesInj DEF Lists
<1> QED BY <1>1, <1>5 DEF Injection, IsInjective

\* An edge to a node on the stack closes a cycle: the frames from there on are
\* a walk.
LEMMA GrayCloses ==
  ASSUME Types, q.algo \in Recursive, Frames, Visited,
         NEW k \in 1 .. Len(work), NEW e \in Out(work[Len(work)][1]), e.to = work[k][1]
  PROVE  Cyclic
<1> DEFINE n == Len(work)
           x == work[k][1]
           H == Heads(Usable, {x})
<1>1. work \in Seq(Node \X SUBSET edges) /\ n \in Nat /\ n \in 1 .. n
  BY DEF Types
<1>2. \A j \in 1 .. n : work[j][1] \in Node
  BY <1>1
<1>3. n <= N /\ N \in Nat
  <2> DEFINE f == [j \in 1 .. n |-> work[j][1]]
  <2>1. (\A j \in 1 .. n : f[j] \in Node) /\ \A i, j \in 1 .. n : f[i] = f[j] => i = j
    BY <1>2 DEF Frames
  <2> HIDE DEF f
  <2>2. n <= N
    BY <1>1, <2>1, DistinctBound
  <2>3. N \in Nat
    BY Counting
  <2> QED BY <2>2, <2>3
<1>4. x \in W(Usable, q.roots, N)
  <2>1. Seen \subseteq Node
    BY DEF Seen
  <2>2. Cardinality(Seen) \in Nat /\ Cardinality(Seen) <= N
    BY <2>1, Counting
  <2>3. x \in W(Usable, q.roots, Cardinality(Seen))
    BY DEF Frames, Visited, Reach
  <2> QED BY <1>3, <2>2, <2>3, WalkMono
<1>5. \A j \in Nat : k + j + 1 <= n => work[k + j + 1][1] \in W(Usable, H, j)
  <2> DEFINE G == {j \in Nat : k + j + 1 <= n => work[k + j + 1][1] \in W(Usable, H, j)}
  <2>1. 0 \in G
    <3> SUFFICES ASSUME k + 1 <= n PROVE work[k + 1][1] \in W(Usable, H, 0)
      OBVIOUS
    <3>1. PICK f \in Out(x) : f.to = work[k + 1][1]
      BY <1>1 DEF Frames
    <3>2. f \in Usable /\ f.from = x
      BY OutFacts
    <3>3. f.to \in H
      BY <3>2 DEF Heads
    <3> QED BY <3>1, <3>3, WalkStep
  <2>2. ASSUME NEW j \in Nat, j \in G PROVE j + 1 \in G
    <3> SUFFICES ASSUME k + j + 2 <= n PROVE work[k + j + 2][1] \in W(Usable, H, j + 1)
      OBVIOUS
    <3>1. k + j + 1 \in 1 .. n - 1 /\ k + j + 1 <= n /\ (k + j + 1) + 1 = k + j + 2
      BY <1>1
    <3>2. PICK f \in Out(work[k + j + 1][1]) : f.to = work[k + j + 2][1]
      BY <3>1 DEF Frames
    <3>3. f \in Usable /\ f.from = work[k + j + 1][1]
      BY OutFacts
    <3>4. f.from \in W(Usable, H, j)
      BY <2>2, <3>1, <3>3
    <3> HIDE DEF H
    <3> QED BY <3>2, <3>3, <3>4, WalkOn
  <2> HIDE DEF G
  <2>3. \A j \in Nat : j \in G
    BY <2>1, <2>2, Numbers
  <2> QED BY <2>3 DEF G
<1>6. x \in W(Usable, H, N)
  <2>1. e \in Usable /\ e.from = work[n][1]
    BY OutFacts
  <2>2. CASE k = n
    <3>1. e.to \in H
      BY <2>1, <2>2 DEF Heads
    <3>2. H = W(Usable, H, 0)
      BY WalkStep
    <3>3. W(Usable, H, 0) \subseteq W(Usable, H, N)
      <4> HIDE DEF H
      <4> QED BY <1>3, WalkMono
    <3> QED BY <3>1, <3>2, <3>3
  <2>3. CASE k # n
    <3> DEFINE j == n - k - 1
    <3>1. j \in Nat /\ k + j + 1 = n /\ j + 1 \in Nat /\ j + 1 <= N
      BY <1>1, <1>3, <2>3
    <3> HIDE DEF H, j, n
    <3>2. e.from \in W(Usable, H, j)
      <4>1. k + j + 1 <= n
        BY <1>1, <3>1
      <4>2. work[k + j + 1][1] \in W(Usable, H, j)
        BY <1>5, <3>1, <4>1
      <4> QED BY <2>1, <3>1, <4>2
    <3>3. e.to \in W(Usable, H, j + 1)
      BY <2>1, <3>1, <3>2, WalkOn
    <3>4. W(Usable, H, j + 1) \subseteq W(Usable, H, N)
      BY <1>3, <3>1, WalkMono
    <3> QED BY <3>3, <3>4
  <2> QED BY <2>2, <2>3
<1> QED BY <1>4, <1>6, CyclicIs

\* Once everything is done the nodes left are those reachable from the roots.
LEMMA SearchReach ==
  ASSUME Types, Search, work = <<>>, todo = {}
  PROVE  W(Usable, q.roots, N) = done
<1>1. Seen \subseteq Node /\ done = Seen
  BY DEF Search, Frames, Seen
<1>2. Cardinality(Seen) \in Nat /\ Cardinality(Seen) <= N /\ N \in Nat
  BY <1>1, Counting
<1>3. done \subseteq W(Usable, q.roots, N)
  <2>1. W(Usable, q.roots, Cardinality(Seen)) \subseteq W(Usable, q.roots, N)
    BY <1>2, WalkMono
  <2> QED BY <1>1, <2>1 DEF Search, Visited, Reach
<1>4. q.roots \subseteq done
  BY <1>1 DEF Search, Visited
<1>5. ASSUME NEW e \in Usable, e.from \in done PROVE e.to \in done
  <2>1. e \in Out(e.from)
    BY OutFacts
  <2> QED BY <1>1, <1>5, <2>1 DEF Search, Visited
<1>6. W(Usable, q.roots, N) \subseteq done
  BY <1>2, <1>4, <1>5, WalkIn
<1> QED BY <1>3, <1>6

\* An order of the nodes left leaves no room for a cycle.
LEMMA OrderedAcyclic ==
  ASSUME Types, q.algo \in Recursive, Search, Ordered, work = <<>>, todo = {}
  PROVE  ~Cyclic
<1> SUFFICES ASSUME Cyclic PROVE FALSE
  OBVIOUS
<1>0. N \in Nat
  BY Counting
<1>1. PICK x \in W(Usable, q.roots, N) : x \in W(Usable, Heads(Usable, {x}), N)
  BY CyclicIs
<1>2. out \in Seq(Node) /\ DOMAIN out = 1 .. Len(out) /\ Len(out) \in Nat
  BY DEF Types, Recursive
<1>3. x \in Range(out)
  BY SearchReach DEF Search, Visited, Lists
<1> DEFINE T == {j \in 1 .. Len(out) : out[j] = x}
<1>4. T \subseteq Nat /\ T # {}
  BY <1>2, <1>3 DEF Range
<1>5. PICK m \in T : \A j \in T : m <= j
  <2> HIDE DEF T
  <2> QED BY <1>4, LeastNumber
<1> DEFINE R == {out[j] : j \in 1 .. m - 1}
<1>6. ASSUME NEW j \in 1 .. m, NEW e \in Out(out[j]) PROVE e.to \in R
  <2>1. j \in 1 .. Len(out)
    BY <1>2, <1>5
  <2>2. PICK i \in 1 .. j - 1 : out[i] = e.to
    BY <2>1 DEF Ordered
  <2>3. i \in 1 .. m - 1
    BY <1>5
  <2> QED BY <2>2, <2>3
<1>7. Heads(Usable, {x}) \subseteq R
  <2> SUFFICES ASSUME NEW e \in Usable, e.from = x PROVE e.to \in R
    BY DEF Heads
  <2>1. e \in Out(out[m]) /\ m \in 1 .. m
    BY <1>5, OutFacts
  <2> HIDE DEF R
  <2> QED BY <1>6, <2>1
<1>8. ASSUME NEW e \in Usable, e.from \in R PROVE e.to \in R
  <2>1. PICK j \in 1 .. m - 1 : e.from = out[j]
    BY <1>8
  <2>2. e \in Out(out[j]) /\ j \in 1 .. m
    BY <1>5, <2>1, OutFacts
  <2> HIDE DEF R
  <2> QED BY <1>6, <2>2
<1>9. x \in R
  <2> HIDE DEF R
  <2> QED BY <1>0, <1>1, <1>7, <1>8, WalkIn
<1>10. PICK j \in 1 .. m - 1 : out[j] = x
  BY <1>9
<1>11. j \in T /\ j < m
  BY <1>2, <1>5, <1>10
<1> QED BY <1>2, <1>5, <1>11

\* What dfs_topo_sort returns.
LEMMA TopoOrder ==
  ASSUME Types, q.algo \in Recursive, Search, work = <<>>, todo = {}
  PROVE  /\ Lists(Reverse(out), W(Usable, q.roots, N))
         /\ Ordered => \A j, k \in DOMAIN Reverse(out) :
              (\E e \in Usable : e.from = Reverse(out)[j] /\ e.to = Reverse(out)[k]) => j < k
<1> DEFINE L == Len(out)
           r == Reverse(out)
<1>1. out \in Seq(Node) /\ DOMAIN out = 1 .. L /\ L \in Nat
  BY DEF Types, Recursive
<1>2. r = [i \in 1 .. L |-> out[(L - i) + 1]]
  BY DEF Reverse
<1>3. DOMAIN r = 1 .. L /\ Len(r) = L /\ \A i \in 1 .. L : r[i] = out[(L - i) + 1]
  <2>1. \A i \in 1 .. L : (L - i) + 1 \in 1 .. L
    BY <1>1
  <2>2. r \in [1 .. L -> Node]
    BY <1>1, <1>2, <2>1
  <2> QED BY <1>1, <1>2, <2>2
<1> HIDE DEF r
<1>4. Range(r) = Range(out)
  <2>1. ASSUME NEW i \in 1 .. L PROVE r[i] \in Range(out)
    <3>1. (L - i) + 1 \in 1 .. L
      BY <1>1
    <3> QED BY <1>1, <1>3, <3>1 DEF Range
  <2>2. ASSUME NEW i \in 1 .. L PROVE out[i] \in Range(r)
    <3>1. (L - i) + 1 \in 1 .. L /\ (L - ((L - i) + 1)) + 1 = i
      BY <1>1
    <3>2. r[(L - i) + 1] = out[i]
      BY <1>3, <3>1
    <3> QED BY <1>3, <3>1, <3>2 DEF Range
  <2> QED BY <1>1, <1>3, <2>1, <2>2 DEF Range
<1>5. Lists(r, W(Usable, q.roots, N))
  BY <1>3, <1>4, SearchReach DEF Search, Visited, Lists
<1>6. ASSUME Ordered, NEW j \in 1 .. L, NEW k \in 1 .. L,
             NEW e \in Usable, e.from = r[j], e.to = r[k]
      PROVE  j < k
  <2> DEFINE a == (L - j) + 1
             b == (L - k) + 1
  <2>1. a \in 1 .. L /\ b \in 1 .. L /\ r[j] = out[a] /\ r[k] = out[b]
    BY <1>1, <1>3
  <2>2. e \in Out(out[a])
    BY <1>6, <2>1, OutFacts
  <2>3. PICK i \in 1 .. a - 1 : out[i] = e.to
    BY <1>6, <2>1, <2>2 DEF Ordered
  <2>4. i \in 1 .. L /\ out[i] = out[b]
    BY <1>1, <1>6, <2>1, <2>3
  <2>5. i = b
    BY <1>1, <2>1, <2>4, ListsOnce DEF Search, Visited
  <2> QED BY <1>1, <2>3, <2>5
<1> QED BY <1>3, <1>5, <1>6 DEF r

\* A stack of frames without its top, and with a frame put on it.
LEMMA FrontFacts ==
  ASSUME NEW S, NEW s \in Seq(S), s # <<>>
  PROVE  /\ Front(s) \in Seq(S) /\ Len(Front(s)) = Len(s) - 1 /\ Len(s) \in Nat \ {0}
         /\ \A k \in 1 .. Len(s) - 1 : Front(s)[k] = s[k]
         /\ Last(s) = s[Len(s)] /\ Last(s) \in S
<1>1. Len(s) \in Nat \ {0}
  BY EmptySeq
<1>2. \A k \in 1 .. Len(s) - 1 : s[k] \in S
  OBVIOUS
<1>3. /\ SubSeq(s, 1, Len(s) - 1) \in Seq(S) /\ Len(SubSeq(s, 1, Len(s) - 1)) = Len(s) - 1
      /\ \A k \in 1 .. Len(s) - 1 : SubSeq(s, 1, Len(s) - 1)[k] = s[k]
  <2> DEFINE m == Len(s) - 1
  <2>1. m \in Int /\ 1 \in Int /\ m \in Nat
    BY <1>1
  <2> HIDE DEF m
  <2>2. /\ SubSeq(s, 1, m) \in Seq(S)
        /\ Len(SubSeq(s, 1, m)) = IF 1 <= m THEN m - 1 + 1 ELSE 0
        /\ \A k \in 1 .. m - 1 + 1 : SubSeq(s, 1, m)[k] = s[1 + k - 1]
    BY <1>2, <2>1, SubSeqProperties DEF m
  <2>3. Len(SubSeq(s, 1, m)) = m /\ \A k \in 1 .. m : SubSeq(s, 1, m)[k] = s[k]
    BY <2>1, <2>2
  <2> QED BY <2>2, <2>3 DEF m
<1> QED BY <1>1, <1>3 DEF Front, Last

\* What is defined from the edges and the query alone.
LEMMA FixedSearch ==
  ASSUME UNCHANGED <<edges, q>>
  PROVE  Usable' = Usable /\ (\A x : Out(x)' = Out(x)) /\ (Acyclic' <=> Acyclic)
         /\ (Cyclic' <=> Cyclic)
<1>1. Usable' = Usable /\ \A x : Out(x)' = Out(x)
  BY Fixed
<1>4. Cyclic' <=> Cyclic
  BY DEF Cyclic, OnCycle, Within, Usable, N
<1> QED BY <1>1, <1>4 DEF Acyclic

\* A recursive search starts with nothing seen.
LEMMA SearchInit == ASSUME Init, q.algo \in Recursive PROVE Search
<1>1. work = <<>> /\ todo = q.roots /\ done = {} /\ out = <<>> /\ Seen = {}
  BY DEF Init, Seen
<1>2. Frames
  BY <1>1 DEF Frames
<1>3. Visited
  BY <1>1, ListsNone DEF Visited
<1>4. Ordered
  BY <1>1 DEF Ordered
<1> QED BY <1>2, <1>3, <1>4 DEF Search

\* A root that is new becomes the first frame; another one changes nothing.
LEMMA SearchRoot ==
  ASSUME Types, q.algo \in Recursive, Search, work = <<>>, NEW x \in todo, todo' = todo \ {x},
         \/ seen[x] = None /\ seen' = [seen EXCEPT ![x] = 0] /\ work' = <<<<x, Out(x)>>>>
         \/ seen[x] # None /\ UNCHANGED <<seen, work>>,
         UNCHANGED <<edges, q, done, out>>
  PROVE  Search'
<1>1. x \in Node /\ x \in q.roots /\ todo \subseteq Node /\ seen \in [Node -> Nat \cup {None}]
      /\ q.roots \subseteq Node
  BY Given DEF Types, Search, Visited
<1>2. Usable' = Usable /\ (\A y : Out(y)' = Out(y)) /\ (Acyclic' <=> Acyclic)
  BY FixedSearch
<1>3. Seen' = Seen \cup {x}
  BY <1>1, Given DEF Seen, Types
<1>4. Lists(out, done)'
  BY DEF Search, Visited, Lists
<1>5. Seen \subseteq Node /\ done = Seen
  BY DEF Seen, Search, Frames
<1>6. (Seen \subseteq Reach(Cardinality(Seen)))'
  <2>1. Cardinality(Seen) \in Nat /\ Cardinality(Seen \cup {x}) \in Nat
        /\ Cardinality(Seen) <= Cardinality(Seen \cup {x})
    <3>1. IsFiniteSet(Seen \cup {x}) /\ IsFiniteSet(Seen)
      BY <1>1, <1>5, Counting
    <3> QED BY <3>1, FS_Subset, FS_CardinalityType
  <2>2. /\ Reach(Cardinality(Seen)) \subseteq Reach(Cardinality(Seen \cup {x}))
        /\ q.roots \subseteq Reach(Cardinality(Seen \cup {x}))
    <3>1. W(Usable, q.roots, 0) = q.roots
      BY WalkStep
    <3>2. W(Usable, q.roots, 0) \subseteq W(Usable, q.roots, Cardinality(Seen \cup {x}))
      BY <2>1, WalkMono
    <3>3. W(Usable, q.roots, Cardinality(Seen)) \subseteq W(Usable, q.roots, Cardinality(Seen \cup {x}))
      BY <2>1, WalkMono
    <3> QED BY <3>1, <3>2, <3>3 DEF Reach
  <2>3. (Reach(Cardinality(Seen)))' = Reach(Cardinality(Seen \cup {x}))
    BY <1>2, <1>3 DEF Reach
  <2> QED BY <1>1, <1>3, <2>2, <2>3 DEF Search, Visited
<1>7. CASE seen[x] = None
  <2>1. work' = <<<<x, Out(x)>>>> /\ Len(work') = 1 /\ work'[1][1] = x /\ work'[1][2] = Out(x)
    BY <1>7
  <2>2. x \notin Seen /\ \A k \in 1 .. Len(work') : k = 1
    BY <1>7, <2>1 DEF Seen
  <2>3. Frames'
    BY <1>2, <1>3, <1>5, <2>1, <2>2 DEF Frames
  <2>4. Visited'
    <3>1. (\A k \in 1 .. Len(work) : \A e \in Out(work[k][1]) \ work[k][2] : e.to \in Seen)'
      BY <1>2, <2>1, <2>2
    <3>2. (\A y \in done : \A e \in Out(y) : e.to \in Seen)'
      BY <1>2, <1>3 DEF Search, Visited
    <3>3. (todo \subseteq q.roots /\ q.roots \ todo \subseteq Seen)'
      BY <1>3 DEF Search, Visited
    <3> QED BY <1>4, <1>6, <3>1, <3>2, <3>3 DEF Visited
  <2>5. Acyclic' => Ordered'
    BY <1>2, <2>1, <2>2 DEF Search, Ordered
  <2> QED BY <2>3, <2>4, <2>5 DEF Search
<1>8. CASE seen[x] # None
  <2>1. work' = <<>> /\ x \in Seen /\ Seen' = Seen
    BY <1>1, <1>3, <1>8 DEF Seen
  <2>2. Frames'
    BY <1>2, <1>5, <2>1 DEF Frames
  <2>3. Visited'
    <3>1. (\A k \in 1 .. Len(work) : \A e \in Out(work[k][1]) \ work[k][2] : e.to \in Seen)'
      BY <2>1
    <3>2. (\A y \in done : \A e \in Out(y) : e.to \in Seen)'
      BY <1>2, <1>3 DEF Search, Visited
    <3>3. (todo \subseteq q.roots /\ q.roots \ todo \subseteq Seen)'
      BY <1>3 DEF Search, Visited
    <3> QED BY <1>4, <1>6, <3>1, <3>2, <3>3 DEF Visited
  <2>4. Acyclic' => Ordered'
    BY <1>2, <2>1 DEF Search, Ordered
  <2> QED BY <2>2, <2>3, <2>4 DEF Search
<1> QED BY <1>7, <1>8

\* A node whose edges have all been looked at is left.
LEMMA SearchLeave ==
  ASSUME Types, q.algo \in Recursive, Search, work # <<>>, Last(work)[2] = {},
         done' = done \cup {Last(work)[1]}, out' = Append(out, Last(work)[1]),
         work' = Front(work), UNCHANGED <<edges, q, todo, seen>>
  PROVE  Search'
<1> DEFINE n == Len(work)
           x == work[n][1]
<1>1. /\ work \in Seq(Node \X SUBSET edges) /\ out \in Seq(Node) /\ done \subseteq Node
  BY DEF Types, Recursive
<1>2. /\ n \in Nat \ {0} /\ Len(work') = n - 1 /\ Last(work) = work[n]
      /\ \A k \in 1 .. n - 1 : work'[k] = work[k]
  BY <1>1, FrontFacts
<1>3. x \in Node /\ x \in Seen /\ x \notin done /\ work[n][2] = {} /\ n \in 1 .. n
  BY <1>1, <1>2 DEF Search, Frames
<1>4. Usable' = Usable /\ (\A y : Out(y)' = Out(y)) /\ (Acyclic' <=> Acyclic) /\ Seen' = Seen
  BY FixedSearch DEF Seen
<1>5. done' = done \cup {x} /\ out' = Append(out, x)
  BY <1>2
<1> HIDE DEF x, n
<1>6. Frames'
  <2>1. (\A k \in 1 .. Len(work) : work[k][1] \in Seen /\ work[k][1] \notin done
                                   /\ work[k][2] \subseteq Out(work[k][1]))'
    <3> SUFFICES ASSUME NEW k \in 1 .. n - 1
                 PROVE  /\ work[k][1] \in Seen /\ work[k][1] \notin done'
                        /\ work[k][2] \subseteq Out(work[k][1])
      BY <1>2, <1>4
    <3>1. k \in 1 .. n /\ k # n
      BY <1>2
    <3>2. work[k][1] # x
      BY <1>3, <3>1 DEF Search, Frames, x, n
    <3> QED BY <1>5, <3>1, <3>2 DEF Search, Frames, n
  <2>2. (\A j, k \in 1 .. Len(work) : work[j][1] = work[k][1] => j = k)'
    BY <1>2 DEF Search, Frames, n
  <2>3. (\A y \in Seen \ done : \E k \in 1 .. Len(work) : work[k][1] = y)'
    <3> SUFFICES ASSUME NEW y \in Seen, y \notin done, y # x
                 PROVE  \E k \in 1 .. n - 1 : work'[k][1] = y
      BY <1>2, <1>4, <1>5
    <3>1. PICK k \in 1 .. n : work[k][1] = y
      BY DEF Search, Frames, n
    <3>2. k # n
      BY <3>1 DEF x
    <3> QED BY <1>2, <3>1, <3>2
  <2>4. (done \subseteq Seen)'
    BY <1>3, <1>4, <1>5 DEF Search, Frames
  <2>5. (\A k \in 1 .. Len(work) - 1 : \E e \in Out(work[k][1]) : e.to = work[k + 1][1])'
    <3> SUFFICES ASSUME NEW k \in 1 .. n - 2
                 PROVE  \E e \in Out(work[k][1]) : e.to = work[k + 1][1]
      BY <1>2, <1>4
    <3>1. k \in 1 .. n - 1
      BY <1>2
    <3> QED BY <3>1 DEF Search, Frames, n
  <2> QED BY <2>1, <2>2, <2>3, <2>4, <2>5 DEF Frames
<1>7. Visited'
  <2>1. (\A k \in 1 .. Len(work) : \A e \in Out(work[k][1]) \ work[k][2] : e.to \in Seen)'
    BY <1>2, <1>4 DEF Search, Visited, n
  <2>2. \A e \in Out(x) : e.to \in Seen
    BY <1>3 DEF Search, Visited, n, x
  <2>3. (\A y \in done : \A e \in Out(y) : e.to \in Seen)'
    BY <1>4, <1>5, <2>2 DEF Search, Visited
  <2>4. (Seen \subseteq Reach(Cardinality(Seen)))'
    BY <1>4 DEF Search, Visited, Reach
  <2>5. (todo \subseteq q.roots /\ q.roots \ todo \subseteq Seen)'
    BY <1>4 DEF Search, Visited
  <2>6. Lists(out, done)'
    <3>1. Lists(Append(out, x), done \cup {x})
      <4>1. Lists(out, done) /\ IsFiniteSet(done)
        BY <1>1, Counting DEF Search, Visited
      <4> QED BY <1>1, <1>3, <4>1, ListsAppend
    <3> QED BY <1>5, <3>1 DEF Lists
  <2> QED BY <2>1, <2>3, <2>4, <2>5, <2>6 DEF Visited
<1>8. Acyclic' => Ordered'
  <2> SUFFICES ASSUME Acyclic PROVE Ordered'
    BY <1>4
  <2>1. Ordered
    BY DEF Search
  <2>2. (\A k \in 1 .. Len(work) : \A e \in Out(work[k][1]) \ work[k][2] :
           e.to \in done \/ (k < Len(work) /\ e.to = work[k + 1][1]))'
    <3> SUFFICES ASSUME NEW k \in 1 .. n - 1, NEW e \in Out(work[k][1]), e \notin work[k][2]
                 PROVE  e.to \in done' \/ (k < n - 1 /\ e.to = work'[k + 1][1])
      BY <1>2, <1>4
    <3>1. k \in 1 .. n /\ (k + 1 = n \/ k + 1 \in 1 .. n - 1)
      BY <1>2
    <3>2. e.to \in done \/ e.to = work[k + 1][1]
      BY <2>1, <3>1 DEF Ordered, n
    <3> QED BY <1>2, <1>5, <3>1, <3>2 DEF x
  <2>3. (\A j \in 1 .. Len(out) : \A e \in Out(out[j]) : \E k \in 1 .. j - 1 : out[k] = e.to)'
    <3> DEFINE m == Len(out)
    <3>0. m \in Nat /\ Len(out') = m + 1 /\ out'[m + 1] = x /\ \A k \in 1 .. m : out'[k] = out[k]
      BY <1>1, <1>3, <1>5
    <3> SUFFICES ASSUME NEW j \in 1 .. m + 1, NEW e \in Out(out'[j])
                 PROVE  \E k \in 1 .. j - 1 : out'[k] = e.to
      BY <1>4, <3>0
    <3>1. CASE j = m + 1
      <4>1. e.to \in done
        BY <1>2, <1>3, <2>1, <3>0, <3>1 DEF Ordered, x, n
      <4>2. e.to \in Range(out) /\ DOMAIN out = 1 .. m
        BY <1>1, <4>1 DEF Search, Visited, Lists
      <4>3. PICK k \in 1 .. m : out[k] = e.to
        BY <4>2 DEF Range
      <4> QED BY <3>0, <3>1, <4>3
    <3>2. CASE j # m + 1
      <4>1. j \in 1 .. m
        BY <3>0, <3>2
      <4>2. PICK k \in 1 .. j - 1 : out[k] = e.to
        BY <2>1, <3>0, <4>1 DEF Ordered
      <4> QED BY <3>0, <4>1, <4>2
    <3> QED BY <3>1, <3>2
  <2> QED BY <2>2, <2>3 DEF Ordered
<1> QED BY <1>6, <1>7, <1>8 DEF Search

\* An edge is looked at: its node is new and gets a frame, or was seen.
LEMMA SearchGo ==
  ASSUME Types, q.algo \in Recursive, Search, work # <<>>, NEW e \in Last(work)[2],
         LET rest == Append(Front(work), <<Last(work)[1], Last(work)[2] \ {e}>>) IN
           \/ /\ seen[e.to] = None /\ seen' = [seen EXCEPT ![e.to] = 0]
              /\ work' = Append(rest, <<e.to, Out(e.to)>>)
           \/ /\ seen[e.to] # None /\ work' = rest /\ UNCHANGED seen
              /\ ~(q.algo = "dfs_has_cycle" /\ Gray(e.to)),
         UNCHANGED <<edges, q, todo, done, out>>
  PROVE  Search'
<1> DEFINE n == Len(work)
           x == work[n][1]
           left == work[n][2]
           y == e.to
           rest == Append(Front(work), <<x, left \ {e}>>)
<1>1. work \in Seq(Node \X SUBSET edges) /\ seen \in [Node -> Nat \cup {None}]
  BY DEF Types
<1>2. /\ n \in Nat \ {0} /\ Last(work) = work[n] /\ n \in 1 .. n
      /\ Front(work) \in Seq(Node \X SUBSET edges) /\ Len(Front(work)) = n - 1
      /\ \A k \in 1 .. n - 1 : Front(work)[k] = work[k]
  <2>1. /\ n \in Nat \ {0} /\ Last(work) = work[n]
        /\ Front(work) \in Seq(Node \X SUBSET edges) /\ Len(Front(work)) = n - 1
        /\ \A k \in 1 .. n - 1 : Front(work)[k] = work[k]
    BY <1>1, FrontFacts
  <2>2. n \in 1 .. n
    BY <2>1
  <2> QED BY <2>1, <2>2
<1>3. x \in Node /\ x \in Seen /\ x \notin done /\ left \subseteq Out(x) /\ left \subseteq edges
  BY <1>1, <1>2, OutFacts DEF Search, Frames
<1>4. e \in left /\ e \in Out(x) /\ e \in Usable /\ e.from = x /\ y \in Node
  BY <1>2, <1>3, OutFacts, Given DEF Types
<1>5. Usable' = Usable /\ (\A z : Out(z)' = Out(z)) /\ (Acyclic' <=> Acyclic)
  BY FixedSearch
<1>6. /\ rest \in Seq(Node \X SUBSET edges) /\ Len(rest) = n
      /\ \A k \in 1 .. n - 1 : rest[k] = work[k]
      /\ rest[n] = <<x, left \ {e}>>
  <2>1. <<x, left \ {e}>> \in Node \X SUBSET edges
    BY <1>3
  <2> HIDE DEF x, left
  <2>2. /\ rest \in Seq(Node \X SUBSET edges) /\ Len(rest) = Len(Front(work)) + 1
        /\ \A k \in 1 .. Len(Front(work)) : rest[k] = Front(work)[k]
        /\ rest[Len(Front(work)) + 1] = <<x, left \ {e}>>
    BY <1>2, <2>1, AppendFacts
  <2> HIDE DEF rest
  <2> QED BY <1>2, <2>2
<1>7. Lists(out, done)'
  BY DEF Search, Visited, Lists
<1>8. \A k \in 1 .. n : rest[k][1] = work[k][1] /\ rest[k][2] \subseteq work[k][2]
  <2>1. \A k \in 1 .. n : k \in 1 .. n - 1 \/ k = n
    BY <1>2
  <2>2. rest[n][1] = x /\ rest[n][2] = left \ {e}
    BY <1>6
  <2> HIDE DEF rest
  <2> QED BY <1>6, <2>1, <2>2
<1>9. \A k \in 1 .. n : \A f : f \notin rest[k][2] => f \notin work[k][2] \/ (k = n /\ f = e)
  <2>1. \A k \in 1 .. n : k \in 1 .. n - 1 \/ k = n
    BY <1>2
  <2>2. rest[n][2] = left \ {e}
    BY <1>6
  <2> HIDE DEF rest
  <2> QED BY <1>6, <2>1, <2>2
<1>10. CASE seen[y] = None
  <2>1. seen' = [seen EXCEPT ![y] = 0] /\ work' = Append(rest, <<y, Out(y)>>)
    BY <1>2, <1>10
  <2>2. <<y, Out(y)>> \in Node \X SUBSET edges
    BY <1>4, OutFacts
  <2>3. /\ Len(work') = n + 1 /\ \A k \in 1 .. n : work'[k] = rest[k]
        /\ work'[n + 1] = <<y, Out(y)>>
    <3> HIDE DEF rest, y
    <3>1. /\ Len(work') = Len(rest) + 1 /\ \A k \in 1 .. Len(rest) : work'[k] = rest[k]
          /\ work'[Len(rest) + 1] = <<y, Out(y)>>
      BY <1>6, <2>1, <2>2, AppendFacts
    <3> QED BY <1>6, <3>1
  <2>4. Seen' = Seen \cup {y} /\ y \notin Seen /\ Seen \subseteq Node
    BY <1>1, <1>4, <1>10, <2>1, Given DEF Seen, Types
  <2>5. \A k \in 1 .. n + 1 : k \in 1 .. n \/ k = n + 1
    BY <1>2
  <2>6. work'[n + 1][1] = y /\ work'[n + 1][2] = Out(y)
    BY <2>3
  <2>7. \A k \in 1 .. n : /\ work'[k][1] = work[k][1] /\ work'[k][2] \subseteq work[k][2]
                          /\ \A f : f \notin work'[k][2] => f \notin work[k][2] \/ (k = n /\ f = e)
    <3> HIDE DEF rest
    <3> QED BY <1>8, <1>9, <2>3
  <2>8. y \notin done /\ \A k \in 1 .. n : work[k][1] # y
    BY <2>4 DEF Search, Frames
  <2> HIDE DEF rest, x, left, n, y
  <2>9. Frames'
    <3>1. (\A k \in 1 .. Len(work) : work[k][1] \in Seen /\ work[k][1] \notin done
                                     /\ work[k][2] \subseteq Out(work[k][1]))'
      <4> SUFFICES ASSUME NEW k \in 1 .. n + 1
                   PROVE  work'[k][1] \in Seen' /\ work'[k][1] \notin done
                          /\ work'[k][2] \subseteq Out(work'[k][1])
        BY <1>5, <2>3
      <4>1. CASE k = n + 1
        BY <2>4, <2>6, <2>8, <4>1
      <4>2. CASE k \in 1 .. n
        BY <2>4, <2>7, <4>2 DEF Search, Frames, n
      <4> QED BY <2>5, <4>1, <4>2
    <3>2. (\A j, k \in 1 .. Len(work) : work[j][1] = work[k][1] => j = k)'
      BY <2>3, <2>5, <2>6, <2>7, <2>8 DEF Search, Frames, n
    <3>3. (\A z \in Seen \ done : \E k \in 1 .. Len(work) : work[k][1] = z)'
      <4> SUFFICES ASSUME NEW z \in Seen', z \notin done
                   PROVE  \E k \in 1 .. n + 1 : work'[k][1] = z
        BY <2>3
      <4>1. CASE z = y
        <5>1. n + 1 \in 1 .. n + 1
          BY <1>2 DEF n
        <5> QED BY <2>6, <4>1, <5>1
      <4>2. CASE z # y
        <5>1. PICK k \in 1 .. n : work[k][1] = z
          BY <2>4, <4>2 DEF Search, Frames, n
        <5>2. k \in 1 .. n + 1
          BY <1>2 DEF n
        <5> QED BY <2>7, <5>1, <5>2
      <4> QED BY <4>1, <4>2
    <3>4. (done \subseteq Seen)'
      BY <2>4 DEF Search, Frames
    <3>5. (\A k \in 1 .. Len(work) - 1 : \E f \in Out(work[k][1]) : f.to = work[k + 1][1])'
      <4>0. Len(work') - 1 = n /\ n \in Nat
        BY <1>2, <2>3
      <4> SUFFICES ASSUME NEW k \in 1 .. n
                   PROVE  \E f \in Out(work'[k][1]) : f.to = work'[k + 1][1]
        BY <1>5, <4>0
      <4>1. CASE k = n
        <5>1. work'[k][1] = x /\ work'[k + 1][1] = y
          BY <2>6, <2>7, <4>1 DEF x
        <5>2. e.to = y
          BY DEF y
        <5> QED BY <1>4, <5>1, <5>2
      <4>2. CASE k # n
        <5>1. k \in 1 .. n - 1 /\ k + 1 \in 1 .. n
          BY <4>0, <4>2
        <5>2. PICK f \in Out(work[k][1]) : f.to = work[k + 1][1]
          BY <5>1 DEF Search, Frames, n
        <5> QED BY <2>7, <5>1, <5>2
      <4> QED BY <4>1, <4>2
    <3> QED BY <3>1, <3>2, <3>3, <3>4, <3>5 DEF Frames
  <2>10. Visited'
    <3>1. (\A k \in 1 .. Len(work) : \A f \in Out(work[k][1]) \ work[k][2] : f.to \in Seen)'
      <4> SUFFICES ASSUME NEW k \in 1 .. n + 1, NEW f \in Out(work'[k][1]), f \notin work'[k][2]
                   PROVE  f.to \in Seen'
        BY <1>5, <2>3
      <4>1. k \in 1 .. n
        BY <2>5, <2>6
      <4>2. f \notin work[k][2] \/ f = e
        BY <2>7, <4>1
      <4>3. f \notin work[k][2] => f.to \in Seen
        BY <2>7, <4>1 DEF Search, Visited, n
      <4> QED BY <2>4, <4>2, <4>3 DEF y
    <3>2. (\A z \in done : \A f \in Out(z) : f.to \in Seen)'
      BY <1>5, <2>4 DEF Search, Visited
    <3>3. (todo \subseteq q.roots /\ q.roots \ todo \subseteq Seen)'
      BY <2>4 DEF Search, Visited
    <3>4. (Seen \subseteq Reach(Cardinality(Seen)))'
      <4> DEFINE c == Cardinality(Seen)
      <4>1. c \in Nat /\ Cardinality(Seen') = c + 1
        BY <2>4, Counting
      <4>2. (Reach(Cardinality(Seen)))' = Reach(c + 1)
        BY <1>5, <4>1 DEF Reach
      <4>3. Seen \subseteq Reach(c)
        BY DEF Search, Visited
      <4> HIDE DEF c
      <4>4. Reach(c) \subseteq Reach(c + 1)
        BY <4>1, WalkStep DEF Reach
      <4>5. e.to \in Reach(c + 1)
        <5>1. e.from \in Reach(c)
          BY <1>3, <1>4, <4>3
        <5> QED BY <1>4, <4>1, <5>1, WalkOn DEF Reach
      <4> QED BY <2>4, <4>2, <4>3, <4>4, <4>5 DEF y
    <3> QED BY <1>7, <3>1, <3>2, <3>3, <3>4 DEF Visited
  <2>11. Acyclic' => Ordered'
    <3> SUFFICES ASSUME Acyclic PROVE Ordered'
      BY <1>5
    <3>1. Ordered
      BY DEF Search
    <3>2. (\A k \in 1 .. Len(work) : \A f \in Out(work[k][1]) \ work[k][2] :
             f.to \in done \/ (k < Len(work) /\ f.to = work[k + 1][1]))'
      <4> SUFFICES ASSUME NEW k \in 1 .. n + 1, NEW f \in Out(work'[k][1]), f \notin work'[k][2]
                   PROVE  f.to \in done \/ (k < n + 1 /\ f.to = work'[k + 1][1])
        BY <1>5, <2>3
      <4>1. k \in 1 .. n /\ n \in Nat /\ k < n + 1
        BY <1>2, <2>5, <2>6 DEF n
      <4>2. CASE f \notin work[k][2]
        <5>1. f.to \in done \/ (k < n /\ f.to = work[k + 1][1])
          BY <2>7, <3>1, <4>1, <4>2 DEF Ordered, n
        <5>2. k < n => k + 1 \in 1 .. n
          BY <4>1
        <5> QED BY <2>7, <4>1, <5>1, <5>2
      <4>3. CASE f \in work[k][2]
        <5>1. k = n /\ f = e
          BY <2>7, <4>1, <4>3
        <5> QED BY <2>6, <4>1, <5>1 DEF y
      <4> QED BY <4>2, <4>3
    <3>3. (\A j \in 1 .. Len(out) : \A f \in Out(out[j]) : \E k \in 1 .. j - 1 : out[k] = f.to)'
      BY <1>5, <3>1 DEF Ordered
    <3> QED BY <3>2, <3>3 DEF Ordered
  <2> QED BY <2>9, <2>10, <2>11 DEF Search
<1>11. CASE seen[y] # None
  <2>1. work' = rest /\ seen' = seen /\ ~(q.algo = "dfs_has_cycle" /\ Gray(y))
    BY <1>2, <1>11
  <2>2. Len(work') = n /\ Seen' = Seen /\ y \in Seen
    BY <1>4, <1>6, <1>11, <2>1 DEF Seen
  <2>3. \A k \in 1 .. n : /\ work'[k][1] = work[k][1] /\ work'[k][2] \subseteq work[k][2]
                          /\ \A f : f \notin work'[k][2] => f \notin work[k][2] \/ (k = n /\ f = e)
    <3> HIDE DEF rest
    <3> QED BY <1>8, <1>9, <2>1
  <2> HIDE DEF rest, x, left, n, y
  <2>4. Frames'
    <3>1. (\A k \in 1 .. Len(work) : work[k][1] \in Seen /\ work[k][1] \notin done
                                     /\ work[k][2] \subseteq Out(work[k][1]))'
      BY <1>5, <2>2, <2>3 DEF Search, Frames, n
    <3>2. (\A j, k \in 1 .. Len(work) : work[j][1] = work[k][1] => j = k)'
      BY <2>2, <2>3 DEF Search, Frames, n
    <3>3. (\A z \in Seen \ done : \E k \in 1 .. Len(work) : work[k][1] = z)'
      BY <2>2, <2>3 DEF Search, Frames, n
    <3>4. (\A k \in 1 .. Len(work) - 1 : \E f \in Out(work[k][1]) : f.to = work[k + 1][1])'
      <4> SUFFICES ASSUME NEW k \in 1 .. n - 1
                   PROVE  \E f \in Out(work'[k][1]) : f.to = work'[k + 1][1]
        BY <1>5, <2>2
      <4>1. k \in 1 .. n /\ k + 1 \in 1 .. n
        BY <1>2 DEF n
      <4>2. PICK f \in Out(work[k][1]) : f.to = work[k + 1][1]
        BY DEF Search, Frames, n
      <4> QED BY <2>3, <4>1, <4>2
    <3> QED BY <2>2, <3>1, <3>2, <3>3, <3>4 DEF Frames, Search
  <2>5. Visited'
    <3>1. (\A k \in 1 .. Len(work) : \A f \in Out(work[k][1]) \ work[k][2] : f.to \in Seen)'
      <4> SUFFICES ASSUME NEW k \in 1 .. n, NEW f \in Out(work[k][1]), f \notin work'[k][2]
                   PROVE  f.to \in Seen
        BY <1>5, <2>2, <2>3
      <4>1. f \notin work[k][2] \/ f = e
        BY <2>3
      <4>2. f \notin work[k][2] => f.to \in Seen
        BY DEF Search, Visited, n
      <4> QED BY <2>2, <4>1, <4>2 DEF y
    <3>2. (\A z \in done : \A f \in Out(z) : f.to \in Seen)'
      BY <1>5, <2>2 DEF Search, Visited
    <3>3. (todo \subseteq q.roots /\ q.roots \ todo \subseteq Seen)'
      BY <2>2 DEF Search, Visited
    <3>4. (Seen \subseteq Reach(Cardinality(Seen)))'
      BY <1>5, <2>2 DEF Search, Visited, Reach
    <3> QED BY <1>7, <3>1, <3>2, <3>3, <3>4 DEF Visited
  <2>6. Acyclic' => Ordered'
    <3> SUFFICES ASSUME Acyclic PROVE Ordered'
      BY <1>5
    <3>1. Ordered
      BY DEF Search
    <3>2. y \in done
      <4> SUFFICES ASSUME y \notin done PROVE FALSE
        OBVIOUS
      <4>1. Gray(y)
        BY <1>11 DEF Gray
      <4>2. PICK k \in 1 .. n : work[k][1] = y
        BY <2>2 DEF Search, Frames, n
      <4>3. e \in Out(work[Len(work)][1])
        BY <1>4 DEF x, n
      <4>4. Cyclic
        BY <4>2, <4>3, GrayCloses DEF Search, y, n
      <4> QED BY <2>1, <4>1, <4>4 DEF Acyclic
    <3>3. (\A k \in 1 .. Len(work) : \A f \in Out(work[k][1]) \ work[k][2] :
             f.to \in done \/ (k < Len(work) /\ f.to = work[k + 1][1]))'
      <4> SUFFICES ASSUME NEW k \in 1 .. n, NEW f \in Out(work[k][1]), f \notin work'[k][2]
                   PROVE  f.to \in done \/ (k < n /\ f.to = work'[k + 1][1])
        BY <1>5, <2>2, <2>3
      <4>1. CASE f \notin work[k][2]
        <5>1. f.to \in done \/ (k < n /\ f.to = work[k + 1][1])
          BY <3>1, <4>1 DEF Ordered, n
        <5>2. k < n => k + 1 \in 1 .. n
          BY <1>2 DEF n
        <5> QED BY <2>3, <5>1, <5>2
      <4>2. CASE f \in work[k][2]
        BY <2>3, <3>2, <4>2 DEF y
      <4> QED BY <4>1, <4>2
    <3>4. (\A j \in 1 .. Len(out) : \A f \in Out(out[j]) : \E k \in 1 .. j - 1 : out[k] = f.to)'
      BY <1>5, <3>1 DEF Ordered
    <3> QED BY <3>3, <3>4 DEF Ordered
  <2> QED BY <2>4, <2>5, <2>6 DEF Search
<1> QED BY <1>10, <1>11

\* The depth-first queries between calls and when they return.
SearchInv == q.algo \in Recursive =>
  /\ result = None => Search
  /\ result # None /\ q.algo = "dfs_has_cycle" => (result.cycle <=> Cyclic)
  /\ result # None /\ q.algo = "dfs_topo_sort" =>
       /\ Lists(result.nodes, Within(q.roots, N))
       /\ ~Cyclic => \A j, k \in DOMAIN result.nodes :
            (\E e \in Usable : e.from = result.nodes[j] /\ e.to = result.nodes[k]) => j < k

\* Search is about these variables only.
LEMMA SearchSame ==
  ASSUME Search, UNCHANGED <<edges, q, work, todo, seen, done, out>> PROVE Search'
<1>1. Usable' = Usable /\ (\A y : Out(y)' = Out(y)) /\ (Acyclic' <=> Acyclic) /\ Seen' = Seen
  BY FixedSearch DEF Seen
<1>2. (Reach(Cardinality(Seen)))' = Reach(Cardinality(Seen))
  BY <1>1 DEF Reach
<1>3. Lists(out, done)' <=> Lists(out, done)
  BY DEF Lists
<1>4. Frames'
  BY <1>1 DEF Search, Frames
<1>5. Visited'
  <2>1. (\A k \in 1 .. Len(work) : \A e \in Out(work[k][1]) \ work[k][2] : e.to \in Seen)'
    BY <1>1 DEF Search, Visited
  <2>2. (\A x \in done : \A e \in Out(x) : e.to \in Seen)'
    BY <1>1 DEF Search, Visited
  <2> QED BY <1>1, <1>2, <1>3, <2>1, <2>2 DEF Search, Visited
<1>6. Acyclic' => Ordered'
  BY <1>1 DEF Search, Ordered
<1> QED BY <1>4, <1>5, <1>6 DEF Search

\* A search that ends keeps its promise.
LEMMA SearchEnd ==
  (/\ Types /\ q.algo \in Recursive /\ Search /\ work = <<>> /\ todo = {}
   /\ result = [cycle |-> FALSE, nodes |-> Reverse(out)]) => SearchInv
<1> SUFFICES ASSUME Types, q.algo \in Recursive, Search, work = <<>>, todo = {},
                    result = [cycle |-> FALSE, nodes |-> Reverse(out)]
             PROVE  SearchInv
  OBVIOUS
<1>1. result.cycle = FALSE /\ result.nodes = Reverse(out)
  OBVIOUS
<1>2. Within(q.roots, N) = W(Usable, q.roots, N)
  BY WithinIs
<1>3. q.algo = "dfs_has_cycle" => ~Cyclic
  BY OrderedAcyclic DEF Search, Acyclic
<1>4. ~Cyclic => Ordered
  BY DEF Search, Acyclic
<1>5. Lists(result.nodes, Within(q.roots, N))
  BY <1>1, <1>2, TopoOrder
<1>6. Ordered => \A j, k \in DOMAIN result.nodes :
        (\E e \in Usable : e.from = result.nodes[j] /\ e.to = result.nodes[k]) => j < k
  BY <1>1, TopoOrder
<1> QED BY <1>1, <1>3, <1>4, <1>5, <1>6 DEF SearchInv

\* A step of the search keeps the promise.
LEMMA SearchStep == ASSUME Types, SearchInv, [Next]_vars PROVE SearchInv'
<1> SUFFICES ASSUME q'.algo \in Recursive PROVE SearchInv'
  BY DEF SearchInv
<1>0. q' = q /\ edges' = edges
  BY DEF Next, AtOnce, Take, Look, Root, Visit, vars
<1>1. q.algo \in Recursive
  BY <1>0
<1>2. CASE AtOnce
  BY <1>1, <1>2 DEF AtOnce, Unknown, Csr, Same, BfsPath, Recursive
<1>3. CASE Take \/ Look
  BY <1>1, <1>3 DEF Take, Look
<1>4. CASE Root
  <2>0. /\ result = None /\ work = <<>> /\ Search
        /\ UNCHANGED <<edges, q, at, parent, via, done, out>>
    BY <1>1, <1>4 DEF Root, SearchInv
  <2>1. CASE todo = {}
    <3>1. result' = [cycle |-> FALSE, nodes |-> Reverse(out)] /\ UNCHANGED <<todo, seen, work>>
      BY <1>4, <2>1 DEF Root
    <3>2. Search' /\ Types'
      BY <1>4, <2>0, <3>1, SearchSame, TypesStep DEF Next
    <3>3. (/\ Types /\ q.algo \in Recursive /\ Search /\ work = <<>> /\ todo = {}
           /\ result = [cycle |-> FALSE, nodes |-> Reverse(out)])'
      BY <1>1, <2>0, <2>1, <3>1, <3>2
    <3> QED BY <3>3, SearchEnd, PTL
  <2>2. CASE todo # {}
    <3>1. PICK x \in todo :
            /\ todo' = todo \ {x}
            /\ \/ seen[x] = None /\ seen' = [seen EXCEPT ![x] = 0] /\ work' = <<<<x, Out(x)>>>>
               \/ seen[x] # None /\ UNCHANGED <<seen, work>>
            /\ UNCHANGED result
      BY <1>4, <2>2 DEF Root
    <3>2. Search'
      BY <1>1, <2>0, <3>1, SearchRoot
    <3> QED BY <2>0, <3>1, <3>2 DEF SearchInv
  <2> QED BY <2>1, <2>2
<1>5. CASE Visit
  <2>0. /\ result = None /\ work # <<>> /\ Search
        /\ UNCHANGED <<edges, q, at, todo, parent, via>>
    BY <1>1, <1>5 DEF Visit, SearchInv
  <2>1. CASE /\ Last(work)[2] = {}
             /\ done' = done \cup {Last(work)[1]} /\ out' = Append(out, Last(work)[1])
             /\ work' = Front(work)
             /\ UNCHANGED <<seen, result>>
    <3>1. Search'
      BY <1>1, <2>0, <2>1, SearchLeave
    <3> QED BY <2>0, <2>1, <3>1 DEF SearchInv
  <2>2. CASE \E e \in Last(work)[2] :
             LET rest == Append(Front(work), <<Last(work)[1], Last(work)[2] \ {e}>>) IN
             /\ result' = IF q.algo = "dfs_has_cycle" /\ Gray(e.to)
                          THEN [cycle |-> TRUE, nodes |-> <<>>] ELSE None
             /\ IF seen[e.to] = None
                THEN /\ seen' = [seen EXCEPT ![e.to] = 0]
                     /\ work' = Append(rest, <<e.to, Out(e.to)>>)
                ELSE work' = rest /\ UNCHANGED seen
             /\ UNCHANGED <<done, out>>
    <3>1. PICK e \in Last(work)[2] :
             LET rest == Append(Front(work), <<Last(work)[1], Last(work)[2] \ {e}>>) IN
             /\ result' = IF q.algo = "dfs_has_cycle" /\ Gray(e.to)
                          THEN [cycle |-> TRUE, nodes |-> <<>>] ELSE None
             /\ IF seen[e.to] = None
                THEN /\ seen' = [seen EXCEPT ![e.to] = 0]
                     /\ work' = Append(rest, <<e.to, Out(e.to)>>)
                ELSE work' = rest /\ UNCHANGED seen
             /\ UNCHANGED <<done, out>>
      BY <2>2
    <3>2. CASE q.algo = "dfs_has_cycle" /\ Gray(e.to)
      <4>1. result' = [cycle |-> TRUE, nodes |-> <<>>]
        BY <3>1, <3>2
      <4>2. result' # None /\ result'.cycle = TRUE
        <5>1. [cycle |-> TRUE, nodes |-> <<>>] \in [cycle : BOOLEAN, nodes : Seq(Node)]
          OBVIOUS
        <5> QED BY <4>1, <5>1, NoneAssumption
      <4>3. Cyclic
        <5>1. work \in Seq(Node \X SUBSET edges)
          BY <1>1 DEF Types
        <5>2. /\ Len(work) \in Nat \ {0} /\ Last(work) = work[Len(work)]
          BY <2>0, <5>1, FrontFacts
        <5>3. e \in Out(work[Len(work)][1]) /\ e \in edges
          BY <2>0, <5>2, OutFacts DEF Search, Frames
        <5>4. e.to \in Seen \ done
          BY <3>2, <5>3, Given DEF Gray, Seen, Types
        <5>5. PICK k \in 1 .. Len(work) : work[k][1] = e.to
          BY <2>0, <5>4 DEF Search, Frames
        <5> QED BY <1>1, <2>0, <5>3, <5>5, GrayCloses DEF Search
      <4>4. Cyclic'
        BY <1>0, <4>3, FixedSearch
      <4> QED BY <1>0, <3>2, <4>2, <4>4 DEF SearchInv
    <3>3. CASE ~(q.algo = "dfs_has_cycle" /\ Gray(e.to))
      <4>1. result' = None
        BY <3>1, <3>3
      <4>2. LET rest == Append(Front(work), <<Last(work)[1], Last(work)[2] \ {e}>>) IN
              \/ /\ seen[e.to] = None /\ seen' = [seen EXCEPT ![e.to] = 0]
                 /\ work' = Append(rest, <<e.to, Out(e.to)>>)
              \/ /\ seen[e.to] # None /\ work' = rest /\ UNCHANGED seen
                 /\ ~(q.algo = "dfs_has_cycle" /\ Gray(e.to))
        BY <3>1, <3>3
      <4>3. UNCHANGED <<edges, q, todo, done, out>>
        BY <2>0, <3>1
      <4>4. Search'
        BY <1>1, <2>0, <4>2, <4>3, SearchGo
      <4> QED BY <4>1, <4>4 DEF SearchInv
    <3> QED BY <3>2, <3>3
  <2> QED BY <1>5, <2>1, <2>2 DEF Visit
<1>6. CASE UNCHANGED vars
  <2>1. UNCHANGED <<edges, q, work, todo, seen, done, out, result>>
    BY <1>6 DEF vars
  <2>2. Search => Search'
    BY <2>1, SearchSame
  <2>3. /\ Within(q.roots, N)' = Within(q.roots, N) /\ Usable' = Usable /\ (Cyclic' <=> Cyclic)
    BY <2>1, FixedSearch DEF Within, Usable, N
  <2> QED BY <2>1, <2>2, <2>3 DEF SearchInv, Lists
<1> QED BY <1>2, <1>3, <1>4, <1>5, <1>6 DEF Next

\* At every state dfs_component lists the component, dfs_has_cycle answers
\* whether a cycle can be reached, and dfs_topo_sort orders a graph without
\* cycles, whatever the graph, the query and the order of edges (dfs.cpp:7-61).
THEOREM DfsExactAlways == Spec => []DfsExact
<1>1. Init => Types /\ StackInv /\ SearchInv
  <2> SUFFICES ASSUME Init PROVE Types /\ StackInv /\ SearchInv
    OBVIOUS
  <2>1. result = None
    BY DEF Init
  <2> QED BY <2>1, TypesInit, StackInit, SearchInit DEF StackInv, SearchInv
<1>2. Types /\ StackInv /\ SearchInv /\ [Next]_vars => (Types /\ StackInv /\ SearchInv)'
  BY TypesStep, StackStep, SearchStep
<1>3. StackInv /\ SearchInv => DfsExact
  BY DEF StackInv, SearchInv, DfsExact, Recursive
<1> QED BY <1>1, <1>2, <1>3, PTL DEF Spec

-----------------------------------------------------------------------------
(***************************************************************************)
(* The paths that parent[] spells out.  A rank that falls from a node to   *)
(* its parent makes the recursion of PathTo end.                           *)
(***************************************************************************)
\* g[y] is the path to y along the parents up.
PathEq(up, g) == g = [y \in Node |-> IF up[y] = None THEN <<y>> ELSE Append(g[up[y]], y)]

\* A rank up to m that falls from a node to its parent.
RankOf(up, rank, m) ==
  /\ up \in [Node -> Node \cup {None}] /\ rank \in [Node -> Nat] /\ m \in Nat
  /\ \A x \in Node : rank[x] <= m /\ (up[x] # None => rank[up[x]] < rank[x])

\* p leads to x from a node without a parent.
Chain(p, x, up) ==
  /\ p \in Seq(Node) /\ Len(p) > 0 /\ p[Len(p)] = x /\ up[p[1]] = None
  /\ \A k \in 1 .. Len(p) - 1 : up[p[k + 1]] = p[k]

\* The equation of PathTo has a solution.
LEMMA PathSolved ==
  ASSUME NEW up, NEW rank, NEW m, RankOf(up, rank, m)
  PROVE  \E g : PathEq(up, g)
<1> DEFINE Eq(g, y) == g[y] = IF up[y] = None THEN <<y>> ELSE Append(g[up[y]], y)
           Upto(n, g) == /\ g = [y \in Node |-> g[y]]
                         /\ \A y \in Node : rank[y] < n => Eq(g, y)
           G == {n \in Nat : \E g : Upto(n, g)}
<1>0. m \in Nat /\ \A y \in Node : rank[y] \in Nat /\ (up[y] # None => up[y] \in Node /\ rank[up[y]] < rank[y])
  BY DEF RankOf
<1>1. 0 \in G
  <2> DEFINE g == [y \in Node |-> <<y>>]
  <2>1. Upto(0, g)
    BY <1>0
  <2> QED BY <2>1
<1>2. ASSUME NEW n \in Nat, n \in G PROVE n + 1 \in G
  <2>1. PICK g : Upto(n, g)
    BY <1>2
  <2> DEFINE h == [y \in Node |-> IF rank[y] < n THEN g[y]
                                  ELSE IF up[y] = None THEN <<y>> ELSE Append(g[up[y]], y)]
  <2>2. ASSUME NEW y \in Node, rank[y] < n + 1 PROVE Eq(h, y)
    <3>1. up[y] # None => up[y] \in Node /\ rank[up[y]] < n
      BY <1>0, <2>2
    <3>2. up[y] # None => h[up[y]] = g[up[y]]
      BY <3>1
    <3>3. rank[y] < n => g[y] = IF up[y] = None THEN <<y>> ELSE Append(g[up[y]], y)
      BY <2>1
    <3>4. h[y] = IF up[y] = None THEN <<y>> ELSE Append(g[up[y]], y)
      BY <3>3
    <3> HIDE DEF h
    <3> QED BY <3>2, <3>4
  <2>3. h = [y \in Node |-> h[y]]
    OBVIOUS
  <2> HIDE DEF h, Eq
  <2>4. Upto(n + 1, h)
    BY <2>2, <2>3
  <2> QED BY <2>4
<1>3. m + 1 \in G
  <2> HIDE DEF G
  <2> QED BY <1>0, <1>1, <1>2, Numbers
<1>4. PICK g : Upto(m + 1, g)
  BY <1>3
<1>5. \A y \in Node : Eq(g, y)
  <2>1. \A y \in Node : rank[y] < m + 1
    BY <1>0 DEF RankOf
  <2> HIDE DEF Eq
  <2> QED BY <1>4, <2>1
<1>6. PathEq(up, g)
  BY <1>4, <1>5 DEF PathEq
<1> QED BY <1>6

\* The equation of PathTo, node by node.
LEMMA PathToIs ==
  ASSUME NEW up, NEW rank, NEW m, RankOf(up, rank, m)
  PROVE  \A x \in Node :
           PathTo(x, up) = IF up[x] = None THEN <<x>> ELSE Append(PathTo(up[x], up), x)
<1> DEFINE c == CHOOSE g : PathEq(up, g)
<1>1. PathEq(up, c)
  BY PathSolved
<1>2. \A x : PathTo(x, up) = c[x]
  BY DEF PathTo, PathEq
<1> HIDE DEF c
<1>3. \A x \in Node : c[x] = IF up[x] = None THEN <<x>> ELSE Append(c[up[x]], x)
  BY <1>1 DEF PathEq
<1> QED BY <1>2, <1>3

\* A path is a chain of parents, as long as the rank when ranks fall by one.
LEMMA PathChain ==
  ASSUME NEW up, NEW rank, NEW m, RankOf(up, rank, m)
  PROVE  \A x \in Node : /\ Chain(PathTo(x, up), x, up)
                         /\ (\A y \in Node : rank[y] = IF up[y] = None THEN 0 ELSE rank[up[y]] + 1)
                              => Len(PathTo(x, up)) = rank[x] + 1
<1> DEFINE Steps == \A y \in Node : rank[y] = IF up[y] = None THEN 0 ELSE rank[up[y]] + 1
           Good(x) == Chain(PathTo(x, up), x, up) /\ (Steps => Len(PathTo(x, up)) = rank[x] + 1)
           G == {n \in Nat : \A x \in Node : rank[x] < n => Good(x)}
<1>0. m \in Nat /\ \A y \in Node : rank[y] \in Nat /\ rank[y] <= m
        /\ (up[y] # None => up[y] \in Node /\ rank[up[y]] < rank[y])
  BY DEF RankOf
<1>1. 0 \in G
  BY <1>0
<1>2. ASSUME NEW n \in Nat, n \in G PROVE n + 1 \in G
  <2> SUFFICES ASSUME NEW x \in Node, rank[x] < n + 1 PROVE Good(x)
    OBVIOUS
  <2>0. PathTo(x, up) = IF up[x] = None THEN <<x>> ELSE Append(PathTo(up[x], up), x)
    BY PathToIs
  <2>1. CASE up[x] = None
    <3>1. PathTo(x, up) = <<x>> /\ Len(<<x>>) = 1 /\ <<x>> \in Seq(Node) /\ <<x>>[1] = x
      BY <2>0, <2>1
    <3>2. Steps => rank[x] = 0
      BY <2>1
    <3> QED BY <2>1, <3>1, <3>2 DEF Chain
  <2>2. CASE up[x] # None
    <3> DEFINE y == up[x]
               p == PathTo(y, up)
    <3>1. y \in Node /\ rank[y] < n
      BY <1>0, <2>2
    <3>2. Good(y)
      BY <1>2, <3>1
    <3>3. Chain(p, y, up)
      BY <3>2
    <3>4. PathTo(x, up) = Append(p, x)
      BY <2>0, <2>2
    <3> HIDE DEF p
    <3>5. p \in Seq(Node) /\ Len(p) \in Nat /\ Len(p) > 0 /\ p[Len(p)] = y /\ up[p[1]] = None
      BY <3>3 DEF Chain
    <3>6. /\ Append(p, x) \in Seq(Node) /\ Len(Append(p, x)) = Len(p) + 1
          /\ \A j \in 1 .. Len(p) : Append(p, x)[j] = p[j]
          /\ Append(p, x)[Len(p) + 1] = x
      BY <3>5, AppendFacts
    <3>7. ASSUME NEW k \in 1 .. Len(p) PROVE up[Append(p, x)[k + 1]] = Append(p, x)[k]
      <4>1. CASE k = Len(p)
        BY <3>5, <3>6, <4>1
      <4>2. CASE k # Len(p)
        <5>1. k \in 1 .. Len(p) - 1 /\ k + 1 \in 1 .. Len(p)
          BY <3>5, <4>2
        <5> QED BY <3>3, <3>6, <5>1 DEF Chain
      <4> QED BY <4>1, <4>2
    <3>8. Chain(Append(p, x), x, up)
      BY <3>5, <3>6, <3>7 DEF Chain
    <3>9. Steps => Len(Append(p, x)) = rank[x] + 1
      <4> SUFFICES ASSUME Steps PROVE Len(Append(p, x)) = rank[x] + 1
        OBVIOUS
      <4>1. Len(p) = rank[y] + 1
        BY <3>2 DEF p
      <4>2. rank[x] = rank[y] + 1
        BY <2>2
      <4> HIDE DEF y
      <4> QED BY <3>6, <4>1, <4>2
    <3> QED BY <3>4, <3>8, <3>9
  <2> QED BY <2>1, <2>2
<1>3. m + 1 \in G
  <2> HIDE DEF G
  <2> QED BY <1>0, <1>1, <1>2, Numbers
<1>4. \A x \in Node : rank[x] < m + 1
  BY <1>0
<1> HIDE DEF Good
<1>5. \A x \in Node : Good(x)
  BY <1>3, <1>4
<1> QED BY <1>5 DEF Good

-----------------------------------------------------------------------------
(***************************************************************************)
(* The tree of parents that the worklist queries grow.                     *)
(***************************************************************************)
\* What an edge adds to dist[] or to the hop.
Length(e) == IF q.algo \in Dijkstra THEN e.weight ELSE 1

\* An edge from the parent of x led to x, at the cost kept for x.
Led(x) == \E e \in Usable : /\ e.from = parent[x] /\ e.to = x /\ e.rel = via[x]
                            /\ seen[x] = seen[parent[x]] + Length(e)

\* Every node seen but the source has a parent, which is done.
Tree ==
  /\ done \subseteq Seen /\ q.src \in Seen /\ seen[q.src] = 0 /\ parent[q.src] = None
  /\ \A x \in Node : IF parent[x] = None THEN x \in Seen => x = q.src
                     ELSE x \in Seen /\ parent[x] \in done /\ Led(x)

\* The path to a node that was seen runs along the edges of the tree.
LEMMA TreePath ==
  ASSUME Types, Tree, NEW rank, NEW m, RankOf(parent, rank, m), NEW x \in Seen
  PROVE  LET p == PathTo(x, parent) IN
         /\ p \in Seq(Node) /\ Len(p) > 0 /\ p[1] = q.src /\ p[Len(p)] = x
         /\ \A k \in 1 .. Len(p) - 1 :
              /\ p[k] \in Node /\ p[k + 1] \in Node /\ p[k] \in done /\ p[k + 1] \in Seen
              /\ \E e \in Usable : /\ e.from = p[k] /\ e.to = p[k + 1] /\ e.rel = via[p[k + 1]]
                                   /\ seen[p[k + 1]] = seen[p[k]] + Length(e)
<1> DEFINE p == PathTo(x, parent)
<1>0. x \in Node
  BY DEF Seen
<1>1. Chain(p, x, parent)
  BY <1>0, PathChain
<1> HIDE DEF p
<1>2. p \in Seq(Node) /\ Len(p) \in Nat /\ Len(p) > 0 /\ p[Len(p)] = x /\ parent[p[1]] = None
  BY <1>1 DEF Chain
<1>3. ASSUME NEW k \in 1 .. Len(p) - 1
      PROVE  /\ p[k] \in Node /\ p[k + 1] \in Node /\ parent[p[k + 1]] = p[k]
             /\ p[k + 1] \in Seen /\ p[k] \in done /\ p[k] \in Seen /\ Led(p[k + 1])
  <2>1. p[k] \in Node /\ p[k + 1] \in Node /\ parent[p[k + 1]] = p[k]
    BY <1>1, <1>2 DEF Chain
  <2>2. parent[p[k + 1]] # None
    BY <2>1, NoneAssumption
  <2> QED BY <2>1, <2>2 DEF Tree
<1>4. p[1] \in Seen
  <2>1. CASE Len(p) = 1
    BY <1>2, <2>1
  <2>2. CASE Len(p) # 1
    <3> DEFINE n == Len(p)
    <3>1. n \in Nat /\ n > 0 /\ n # 1
      BY <1>2, <2>2
    <3> HIDE DEF n
    <3>2. 1 \in 1 .. n - 1
      BY <3>1
    <3> QED BY <1>3, <3>2 DEF n
  <2> QED BY <2>1, <2>2
<1>5. p[1] = q.src
  <2>1. p[1] \in Node
    BY <1>4 DEF Seen
  <2> QED BY <1>2, <1>4, <2>1 DEF Tree
<1>6. ASSUME NEW k \in 1 .. Len(p) - 1
      PROVE  \E e \in Usable : /\ e.from = p[k] /\ e.to = p[k + 1] /\ e.rel = via[p[k + 1]]
                               /\ seen[p[k + 1]] = seen[p[k]] + Length(e)
  BY <1>3 DEF Led
<1> QED BY <1>2, <1>3, <1>5, <1>6 DEF p

\* What a path query returns is a path, and is not None.
LEMMA FoundPath ==
  ASSUME Types, Tree, NEW rank, NEW m, RankOf(parent, rank, m), q.dst \in Seen, NEW c \in Nat
  PROVE  /\ IsPath(Found(q.dst, parent, via, c)) /\ Found(q.dst, parent, via, c) # None
<1> DEFINE p == PathTo(q.dst, parent)
           r == Found(q.dst, parent, via, c)
<1>1. /\ p \in Seq(Node) /\ Len(p) \in Nat /\ Len(p) > 0 /\ p[1] = q.src /\ p[Len(p)] = q.dst
      /\ \A k \in 1 .. Len(p) - 1 :
           /\ p[k + 1] \in Node
           /\ \E e \in Usable : e.from = p[k] /\ e.to = p[k + 1] /\ e.rel = via[p[k + 1]]
  <2>1. /\ p \in Seq(Node) /\ Len(p) > 0 /\ p[1] = q.src /\ p[Len(p)] = q.dst
        /\ \A k \in 1 .. Len(p) - 1 :
             /\ p[k] \in Node /\ p[k + 1] \in Node /\ p[k] \in done /\ p[k + 1] \in Seen
             /\ \E e \in Usable : /\ e.from = p[k] /\ e.to = p[k + 1] /\ e.rel = via[p[k + 1]]
                                  /\ seen[p[k + 1]] = seen[p[k]] + Length(e)
    BY TreePath
  <2> HIDE DEF p
  <2>2. Len(p) \in Nat
    BY <2>1
  <2> QED BY <2>1, <2>2
<1>2. r = [nodes |-> p, rels |-> Rels(p, via), cost |-> c]
  BY DEF Found
<1> HIDE DEF p, r
<1>3. r.nodes = p /\ r.rels = Rels(p, via) /\ r.cost = c
  BY <1>2
<1>4. Rels(p, via) = IF q.algo \in Csr THEN <<>> ELSE [k \in 1 .. Len(p) - 1 |-> via[p[k + 1]]]
  BY DEF Rels
<1>5. IsPath(r)
  <2>1. ASSUME NEW k \in 1 .. Len(r.nodes) - 1
        PROVE  \E e \in Usable : /\ e.from = r.nodes[k] /\ e.to = r.nodes[k + 1]
                                 /\ q.algo \in Csr \/ e.rel = r.rels[k]
    <3>1. k \in 1 .. Len(p) - 1
      BY <1>3
    <3>2. PICK e \in Usable : e.from = p[k] /\ e.to = p[k + 1] /\ e.rel = via[p[k + 1]]
      BY <1>1, <3>1
    <3>3. q.algo \notin Csr => r.rels[k] = via[p[k + 1]]
      BY <1>3, <1>4, <3>1
    <3> QED BY <1>3, <3>2, <3>3
  <2> QED BY <1>1, <1>3, <2>1 DEF IsPath, Last
<1>6. r # None
  <2>1. via \in [Node -> Rel \cup {None}]
    BY DEF Types
  <2>2. Rels(p, via) \in Seq(Rel \cup {None})
    <3>1. <<>> \in Seq(Rel \cup {None})
      OBVIOUS
    <3>2. \A k \in 1 .. Len(p) - 1 : via[p[k + 1]] \in Rel \cup {None}
      BY <1>1, <2>1
    <3>3. [k \in 1 .. Len(p) - 1 |-> via[p[k + 1]]] \in Seq(Rel \cup {None})
      <4> DEFINE l == Len(p) - 1
                 f == [k \in 1 .. l |-> via[p[k + 1]]]
      <4>1. l \in Nat /\ f \in [1 .. l -> Rel \cup {None}]
        BY <1>1, <3>2
      <4> HIDE DEF l, f
      <4>2. f \in Seq(Rel \cup {None})
        BY <4>1
      <4> QED BY <4>2 DEF f, l
    <3> QED BY <1>4, <3>1, <3>3
  <2>3. r \in [nodes : Seq(Node), cost : Nat, rels : Seq(Rel \cup {None})]
    BY <1>1, <1>2, <2>2
  <2> QED BY <2>3, NoneAssumption DEF Rel
<1> QED BY <1>5, <1>6 DEF r

-----------------------------------------------------------------------------
(***************************************************************************)
(* Breadth first.                                                          *)
(***************************************************************************)
Bfs == BfsPath \cup {"bfs_neighborhood", "bfs_component"}
Limited(c) == q.algo = "bfs_neighborhood" /\ c >= q.hops

\* The queue has the nodes seen and not taken up, by hop: those at the hop of
\* the node taken up last, then those one further.
Queue ==
  /\ \A k \in 1 .. Len(work) :
       /\ work[k][2] \in Seen /\ work[k][2] \notin done /\ work[k][1] = seen[work[k][2]]
       /\ at[1] <= work[k][1] /\ work[k][1] <= at[1] + 1
  /\ \A j, k \in 1 .. Len(work) :
       j < k => work[j][1] <= work[k][1] /\ work[j][2] # work[k][2]
  /\ \A x \in Seen \ done : Pending(x)
  /\ \A x \in done : seen[x] <= at[1]

\* The edges left to look at are those of the node taken up last.
Expanding ==
  todo # {} => /\ at[2] \in done /\ seen[at[2]] = at[1] /\ todo \subseteq Out(at[2])
               /\ ~Limited(at[1]) /\ at[1] < Count

\* The edges looked at lead to nodes seen, at most one hop on.
Closed ==
  \A x \in done : ~Limited(seen[x]) =>
    \A e \in Out(x) \ todo : e.to \in Seen /\ seen[e.to] <= seen[x] + 1

\* The hops counted are walks, and up to the hop reached they are the shortest.
Levels ==
  /\ \A x \in Seen : /\ seen[x] <= Count /\ x \in Src(seen[x])
                     /\ q.algo = "bfs_neighborhood" => seen[x] <= q.hops
  /\ \A k \in 0 .. at[1] : \A y \in Src(k) : y \in Seen /\ seen[y] <= k

\* What is listed so far; the target is not seen before the query returns.
Output ==
  /\ q.algo \in BfsPath => q.dst \notin Seen \/ q.dst = q.src
  /\ q.algo = "bfs_component" => Lists(out, done)
  /\ q.algo = "bfs_neighborhood" =>
       /\ Lists([k \in DOMAIN out |-> out[k][1]], Seen \ {q.src})
       /\ \A k \in 1 .. Len(out) : LET x == out[k][1] IN
            out[k] = <<x, seen[x], parent[x], via[x]>>

Wave == Queue /\ Expanding /\ Closed /\ Levels /\ Tree /\ Output

\* The kinds of query are apart.
LEMMA Kinds ==
  ASSUME q.algo \in Bfs
  PROVE  /\ q.algo \notin Recursive /\ q.algo \notin Dijkstra /\ q.algo \notin DijkstraPath
         /\ q.algo # "dfs_component"
         /\ q.algo = "bfs_neighborhood" => q.algo \notin BfsPath
         /\ q.algo = "bfs_component" => q.algo \notin BfsPath /\ q.algo # "bfs_neighborhood"
  BY DEF Bfs, BfsPath, Recursive, Dijkstra, DijkstraPath

\* The nodes seen, and the numbers kept for them.
LEMMA SeenFacts ==
  ASSUME Types
  PROVE  /\ Seen \subseteq Node /\ \A x \in Seen : seen[x] \in Nat
         /\ at[1] \in Nat /\ done \subseteq Node /\ Count \in Nat /\ N \in Nat /\ Count <= N
  BY Counting DEF Types, Seen, Count

\* Along the tree the hops rise by one.
LEMMA BfsRank ==
  ASSUME Types, Tree, q.algo \in Bfs, \A x \in Seen : seen[x] <= Count
  PROVE  LET rank == [x \in Node |-> IF seen[x] = None THEN 0 ELSE seen[x]] IN
         /\ RankOf(parent, rank, Count)
         /\ \A x \in Node : rank[x] = IF parent[x] = None THEN 0 ELSE rank[parent[x]] + 1
         /\ \A x \in Seen : rank[x] = seen[x]
<1> DEFINE rank == [x \in Node |-> IF seen[x] = None THEN 0 ELSE seen[x]]
<1>1. /\ rank \in [Node -> Nat] /\ \A x \in Seen : rank[x] = seen[x] /\ x \in Node
      /\ \A x \in Node \ Seen : rank[x] = 0
  BY SeenFacts DEF Seen
<1>2. Count \in Nat /\ parent \in [Node -> Node \cup {None}]
  BY SeenFacts DEF Types
<1> HIDE DEF rank
<1>3. ASSUME NEW x \in Node, parent[x] # None
      PROVE  x \in Seen /\ parent[x] \in Seen /\ rank[x] = rank[parent[x]] + 1
             /\ rank[parent[x]] \in Nat
  <2>1. x \in Seen /\ parent[x] \in Seen /\ Led(x)
    BY <1>3 DEF Tree
  <2>2. seen[x] = seen[parent[x]] + 1
    BY <2>1, Kinds DEF Led, Length
  <2> QED BY <1>1, <2>1, <2>2
<1>4. ASSUME NEW x \in Node, parent[x] = None PROVE rank[x] = 0
  <2>1. x \in Seen => x = q.src
    BY <1>4 DEF Tree
  <2> QED BY <1>1, <2>1 DEF Tree
<1>5. \A x \in Node : rank[x] <= Count
  BY <1>1, <1>2
<1>6. RankOf(parent, rank, Count)
  BY <1>1, <1>2, <1>3, <1>5 DEF RankOf
<1> QED BY <1>1, <1>3, <1>4, <1>6 DEF rank

\* The path to a node that was seen has as many edges as hops were counted.
LEMMA BfsFound ==
  Types /\ Tree /\ q.algo \in Bfs /\ (\A x \in Seen : seen[x] <= Count) /\ q.dst \in Seen =>
    /\ IsPath(Found(q.dst, parent, via, 0)) /\ Found(q.dst, parent, via, 0) # None
    /\ Len(Found(q.dst, parent, via, 0).nodes) = seen[q.dst] + 1
<1> SUFFICES ASSUME Types, Tree, q.algo \in Bfs, \A x \in Seen : seen[x] <= Count, q.dst \in Seen
             PROVE  /\ IsPath(Found(q.dst, parent, via, 0)) /\ Found(q.dst, parent, via, 0) # None
                    /\ Len(Found(q.dst, parent, via, 0).nodes) = seen[q.dst] + 1
  OBVIOUS
<1>1. PICK rank : /\ RankOf(parent, rank, Count)
                  /\ \A x \in Node : rank[x] = IF parent[x] = None THEN 0 ELSE rank[parent[x]] + 1
                  /\ \A x \in Seen : rank[x] = seen[x]
  BY BfsRank
<1>2. IsPath(Found(q.dst, parent, via, 0)) /\ Found(q.dst, parent, via, 0) # None
  BY <1>1, FoundPath
<1>3. q.dst \in Node
  BY DEF Seen
<1>4. Len(PathTo(q.dst, parent)) = seen[q.dst] + 1
  BY <1>1, <1>3, PathChain
<1>5. Found(q.dst, parent, via, 0).nodes = PathTo(q.dst, parent)
  BY DEF Found
<1> QED BY <1>2, <1>4, <1>5

\* The queue starts with the source.
LEMMA WaveInit == ASSUME Init, q.algo \in Bfs PROVE Wave
<1>0. q.algo \notin Recursive /\ q \in Query /\ edges \subseteq Universe /\ q.src \in Node
  BY Kinds, Given DEF Init
<1>1. /\ work = <<<<0, q.src>>>> /\ todo = {} /\ done = {} /\ out = <<>> /\ at = <<0, None>>
      /\ seen = [x \in Node |-> IF x = q.src THEN 0 ELSE None]
      /\ parent = [x \in Node |-> None]
  BY <1>0 DEF Init
<1>2. Seen = {q.src} /\ seen[q.src] = 0 /\ at[1] = 0 /\ Count = 0
  <2>1. Count = 0
    BY <1>1, FS_EmptySet DEF Count
  <2>2. 0 # None
    BY NoneAssumption
  <2> QED BY <1>0, <1>1, <2>1, <2>2 DEF Seen
<1>3. Len(work) = 1 /\ work[1][1] = 0 /\ work[1][2] = q.src /\ \A k \in 1 .. Len(work) : k = 1
  BY <1>1
<1>4. Queue
  <2>1. Pending(q.src)
    BY <1>3 DEF Pending
  <2> QED BY <1>1, <1>2, <1>3, <2>1 DEF Queue
<1>5. Expanding /\ Closed
  BY <1>1 DEF Expanding, Closed
<1>6. Levels
  <2>1. q.hops \in Nat
    BY <1>0, Given
  <2>2. \A k \in 0 .. at[1] : k = 0
    BY <1>2
  <2> QED BY <1>2, <2>1, <2>2, SrcFacts DEF Levels
<1>7. Tree
  BY <1>0, <1>1, <1>2 DEF Tree
<1>8. Output
  <2>1. Lists(out, done)
    BY <1>1, ListsNone
  <2>2. [k \in DOMAIN out |-> out[k][1]] = <<>>
    BY <1>1
  <2>3. Seen \ {q.src} = {}
    BY <1>2
  <2>4. Lists([k \in DOMAIN out |-> out[k][1]], Seen \ {q.src})
    BY <2>2, <2>3, ListsNone
  <2> QED BY <1>1, <1>2, <2>1, <2>4 DEF Output
<1> QED BY <1>4, <1>5, <1>6, <1>7, <1>8 DEF Wave

\* No node seen is more than one hop beyond the one taken up last.
LEMMA WaveAhead ==
  ASSUME Types, Queue PROVE \A x \in Seen : seen[x] <= at[1] + 1
<1> SUFFICES ASSUME NEW x \in Seen PROVE seen[x] <= at[1] + 1
  OBVIOUS
<1>1. seen[x] \in Nat /\ at[1] \in Nat
  BY SeenFacts
<1>2. CASE x \in done
  BY <1>1, <1>2 DEF Queue
<1>3. CASE x \notin done
  <2>1. PICK k \in 1 .. Len(work) : work[k][2] = x
    BY <1>3 DEF Queue, Pending
  <2> QED BY <2>1 DEF Queue
<1> QED BY <1>2, <1>3

\* When the hop rises, all walks of that many edges end in nodes seen.
LEMMA WaveNext ==
  ASSUME Types, q.algo \in Bfs, Wave, todo = {}, work # <<>>
  PROVE  \A k \in 0 .. work[1][1] : \A y \in Src(k) : y \in Seen /\ seen[y] <= k
<1> DEFINE c == work[1][1]
           x == work[1][2]
<1>1. work \in Seq(Nat \X Node) /\ Len(work) \in Nat \ {0} /\ 1 \in 1 .. Len(work)
  <2>1. work \in Seq(Nat \X Node) /\ Len(work) \in Nat \ {0}
    BY Kinds, EmptySeq DEF Types
  <2> QED BY <2>1
<1>2. c \in Nat /\ at[1] \in Nat /\ x \in Seen /\ c = seen[x] /\ (c = at[1] \/ c = at[1] + 1)
  <2>1. c \in Nat /\ at[1] \in Nat
    BY <1>1, SeenFacts
  <2>2. at[1] <= c /\ c <= at[1] + 1 /\ x \in Seen /\ c = seen[x]
    BY <1>1 DEF Wave, Queue
  <2> QED BY <2>1, <2>2
<1> HIDE DEF c, x
<1> SUFFICES ASSUME NEW k \in 0 .. c, NEW y \in Src(k) PROVE y \in Seen /\ seen[y] <= k
  BY DEF c
<1>3. CASE k <= at[1]
  <2>1. k \in 0 .. at[1]
    BY <1>2, <1>3
  <2> QED BY <2>1 DEF Wave, Levels
<1>4. CASE ~(k <= at[1])
  <2>1. k = at[1] + 1 /\ c = at[1] + 1 /\ at[1] \in 0 .. at[1]
    BY <1>2, <1>4
  <2>2. y \in Src(at[1]) \cup Heads(Usable, Src(at[1]))
    BY <1>2, <2>1, WalkStep DEF Src
  <2>3. CASE y \in Src(at[1])
    <3>1. y \in Seen /\ seen[y] <= at[1]
      BY <2>1, <2>3 DEF Wave, Levels
    <3>2. seen[y] \in Nat
      BY <3>1, SeenFacts
    <3> QED BY <1>2, <2>1, <3>1, <3>2
  <2>4. CASE y \in Heads(Usable, Src(at[1]))
    <3>1. PICK e \in Usable : e.from \in Src(at[1]) /\ e.to = y
      BY <2>4 DEF Heads
    <3> DEFINE z == e.from
    <3>2. z \in Seen /\ seen[z] <= at[1] /\ seen[z] \in Nat
      BY <2>1, <3>1, SeenFacts DEF Wave, Levels
    <3>3. z \in done
      <4> SUFFICES ASSUME z \notin done PROVE FALSE
        OBVIOUS
      <4>1. PICK i \in 1 .. Len(work) : work[i][2] = z
        BY <3>2 DEF Wave, Queue, Pending
      <4>2. work[i][1] = seen[z]
        BY <4>1 DEF Wave, Queue
      <4>3. c <= work[i][1]
        <5>1. CASE i = 1
          BY <1>2, <4>2, <5>1, <3>2 DEF c
        <5>2. CASE i # 1
          <6>1. 1 < i
            BY <1>1, <5>2
          <6> QED BY <1>1, <6>1 DEF Wave, Queue, c
        <5> QED BY <5>1, <5>2
      <4> HIDE DEF z
      <4> QED BY <1>2, <2>1, <3>2, <4>2, <4>3
    <3>4. ~Limited(seen[z])
      <4>1. q.hops \in Nat
        BY Given DEF Types
      <4>2. q.algo = "bfs_neighborhood" => c <= q.hops
        BY <1>2 DEF Wave, Levels
      <4> HIDE DEF z
      <4> QED BY <1>2, <2>1, <3>2, <4>1, <4>2 DEF Limited
    <3>5. e \in Out(z)
      BY OutFacts
    <3>6. y \in Seen /\ seen[y] <= seen[z] + 1
      BY <3>1, <3>3, <3>4, <3>5 DEF Wave, Closed
    <3>7. seen[y] \in Nat
      BY <3>6, SeenFacts
    <3> HIDE DEF z
    <3> QED BY <1>2, <2>1, <3>2, <3>6, <3>7
  <2> QED BY <2>2, <2>3, <2>4
<1> QED BY <1>3, <1>4

\* Where the edges, the query and the arrays stay, so does the tree.
LEMMA TreeKept ==
  ASSUME Tree, UNCHANGED <<edges, q, seen, parent, via>>, done' \subseteq Seen, done \subseteq done'
  PROVE  Tree'
<1>1. Usable' = Usable /\ Seen' = Seen
  BY Fixed DEF Seen
<1>2. \A x : Led(x)' <=> Led(x)
  BY <1>1 DEF Led, Length
<1> QED BY <1>1, <1>2 DEF Tree

\* The first of the queue is taken off.
LEMMA WaveTake ==
  ASSUME Types, q.algo \in Bfs, Wave, Take, work # <<>> PROVE Wave' /\ result' = result
<1> DEFINE c == work[1][1]
           x == work[1][2]
<1>0. q.algo \notin Recursive /\ q.algo \notin DijkstraPath
  BY Kinds
<1>1. /\ work' = RemoveAt(work, 1) /\ at' = work[1]
      /\ todo' = IF Limited(c) THEN {} ELSE Out(x)
      /\ done' = done \cup {x}
      /\ out' = IF q.algo = "bfs_component" THEN Append(out, x) ELSE out
      /\ result' = result
  <2>1. \A k : ComesNext(k) <=> k = 1
    BY Kinds DEF ComesNext
  <2>2. \A item : Skips(item) <=> Limited(item[1])
    BY Kinds DEF Skips, Limited, Bfs, BfsPath, Dijkstra, DijkstraPath
  <2>3. PICK k \in 1 .. Len(work) :
          /\ ComesNext(k) /\ work' = RemoveAt(work, k) /\ at' = work[k]
          /\ todo' = IF Skips(work[k]) THEN {} ELSE Out(work[k][2])
          /\ done' = done \cup {work[k][2]}
          /\ out' = IF q.algo \in {"bfs_component", "dfs_component"} /\ ~Skips(work[k])
                    THEN Append(out, work[k][2]) ELSE out
          /\ UNCHANGED result
    BY <1>0 DEF Take, Popped
  <2>4. k = 1
    BY <2>1, <2>3
  <2>5. q.algo = "bfs_component" => ~Skips(work[1])
    BY <2>2 DEF Limited
  <2> QED BY <2>2, <2>3, <2>4, <2>5, Kinds
<1>2. UNCHANGED <<edges, q, seen, parent, via>> /\ todo = {}
  BY DEF Take
<1>3. work \in Seq(Nat \X Node) /\ Len(work) \in Nat \ {0} /\ 1 \in 1 .. Len(work)
  <2>1. work \in Seq(Nat \X Node) /\ Len(work) \in Nat \ {0}
    BY Kinds, EmptySeq DEF Types
  <2> QED BY <2>1
<1>4. /\ Len(work') = Len(work) - 1 /\ \A j \in 1 .. Len(work) - 1 : work'[j] = work[j + 1]
      /\ \A y : Pending(y) => Pending(y)' \/ y = x
  <2>1. \A j \in 1 .. Len(work) - 1 : ~(j < 1)
    BY <1>3
  <2> QED BY <1>1, <1>3, <2>1, RemoveAtFacts, PendingPop
<1>5. /\ c \in Nat /\ x \in Node /\ x \in Seen /\ x \notin done /\ c = seen[x]
      /\ at[1] <= c /\ c <= at[1] + 1 /\ at[1] \in Nat /\ at'[1] = c /\ at'[2] = x
  <2>1. c \in Nat /\ x \in Node
    BY <1>3
  <2> QED BY <1>1, <1>3, <2>1, SeenFacts DEF Wave, Queue
<1>6. \A k \in 0 .. c : \A y \in Src(k) : y \in Seen /\ seen[y] <= k
  BY <1>2, WaveNext
<1> HIDE DEF c, x
<1>7. Usable' = Usable /\ Seen' = Seen /\ (\A y : Out(y)' = Out(y)) /\ \A k : Src(k)' = Src(k)
  BY <1>2, Fixed DEF Seen
<1>8. Count' = Count + 1 /\ Count \in Nat
  BY <1>1, <1>5, SeenFacts, Counting DEF Count
<1>9. \A y \in Seen : seen[y] \in Nat
  BY SeenFacts
<1>10. \A d : Limited(d)' <=> Limited(d)
  BY <1>2 DEF Limited
<1>11. Queue'
  <2>1. (\A k \in 1 .. Len(work) :
           /\ work[k][2] \in Seen /\ work[k][2] \notin done /\ work[k][1] = seen[work[k][2]]
           /\ at[1] <= work[k][1] /\ work[k][1] <= at[1] + 1)'
    <3> SUFFICES ASSUME NEW k \in 1 .. Len(work) - 1
                 PROVE  /\ work[k + 1][2] \in Seen /\ work[k + 1][2] \notin done'
                        /\ work[k + 1][1] = seen[work[k + 1][2]]
                        /\ c <= work[k + 1][1] /\ work[k + 1][1] <= c + 1
      BY <1>2, <1>4, <1>5, <1>7
    <3>1. k + 1 \in 1 .. Len(work) /\ 1 < k + 1
      BY <1>3
    <3>2. /\ work[k + 1][2] \in Seen /\ work[k + 1][2] \notin done
          /\ work[k + 1][1] = seen[work[k + 1][2]] /\ work[k + 1][1] <= at[1] + 1
      BY <3>1 DEF Wave, Queue
    <3>3. c <= work[k + 1][1] /\ x # work[k + 1][2]
      BY <1>3, <3>1 DEF Wave, Queue, c, x
    <3>4. work[k + 1][1] \in Nat
      BY <1>9, <3>2
    <3>5. work[k + 1][1] <= c + 1
      BY <1>5, <3>2, <3>4
    <3> QED BY <1>1, <3>2, <3>3, <3>5
  <2>2. (\A j, k \in 1 .. Len(work) :
           j < k => work[j][1] <= work[k][1] /\ work[j][2] # work[k][2])'
    <3> SUFFICES ASSUME NEW j \in 1 .. Len(work) - 1, NEW k \in 1 .. Len(work) - 1, j < k
                 PROVE  work[j + 1][1] <= work[k + 1][1] /\ work[j + 1][2] # work[k + 1][2]
      BY <1>4
    <3>1. j + 1 \in 1 .. Len(work) /\ k + 1 \in 1 .. Len(work) /\ j + 1 < k + 1
      BY <1>3
    <3> QED BY <3>1 DEF Wave, Queue
  <2>3. (\A y \in Seen \ done : Pending(y))'
    BY <1>1, <1>4, <1>7 DEF Wave, Queue
  <2>4. (\A y \in done : seen[y] <= at[1])'
    <3> SUFFICES ASSUME NEW y \in done' PROVE seen[y] <= c
      BY <1>2, <1>5
    <3>1. CASE y = x
      BY <1>5, <3>1
    <3>2. CASE y # x
      <4>1. y \in done
        BY <1>1, <3>2
      <4>2. seen[y] <= at[1] /\ seen[y] \in Nat
        BY <1>9, <4>1 DEF Wave, Queue, Tree
      <4> QED BY <1>5, <4>2
    <3> QED BY <3>1, <3>2
  <2> QED BY <2>1, <2>2, <2>3, <2>4 DEF Queue
<1>12. Expanding'
  <2> SUFFICES ASSUME todo' # {}
               PROVE (/\ at[2] \in done /\ seen[at[2]] = at[1] /\ todo \subseteq Out(at[2])
                      /\ ~Limited(at[1]) /\ at[1] < Count)'
    BY DEF Expanding
  <2>1. todo' = Out(x) /\ ~Limited(c)
    BY <1>1
  <2>2. (Out(at[2]))' = Out(x)
    BY <1>2, <1>5 DEF Out
  <2>3. Limited(at[1])' <=> Limited(c)
    BY <1>2, <1>5 DEF Limited
  <2>4. c < Count + 1
    BY <1>5, <1>8 DEF Wave, Levels
  <2> QED BY <1>1, <1>2, <1>5, <1>8, <2>1, <2>2, <2>3, <2>4
<1>13. Closed'
  <2> SUFFICES ASSUME NEW y \in done', ~Limited(seen[y]), NEW e \in Out(y), e \notin todo'
               PROVE  e.to \in Seen /\ seen[e.to] <= seen[y] + 1
    BY <1>2, <1>7 DEF Closed, Limited
  <2>1. y # x
    BY <1>1, <1>5
  <2>2. y \in done
    BY <1>1, <2>1
  <2> QED BY <1>2, <2>2 DEF Wave, Closed
<1>14. Levels'
  <2>1. (\A y \in Seen : /\ seen[y] <= Count /\ y \in Src(seen[y])
                         /\ q.algo = "bfs_neighborhood" => seen[y] <= q.hops)'
    <3> SUFFICES ASSUME NEW y \in Seen
                 PROVE  /\ seen[y] <= Count + 1 /\ y \in Src(seen[y])
                        /\ q.algo = "bfs_neighborhood" => seen[y] <= q.hops
      BY <1>2, <1>7, <1>8 DEF Src
    <3>1. seen[y] <= Count
      BY DEF Wave, Levels
    <3> QED BY <1>8, <1>9, <3>1 DEF Wave, Levels
  <2>2. (\A k \in 0 .. at[1] : \A y \in Src(k) : y \in Seen /\ seen[y] <= k)'
    BY <1>2, <1>5, <1>6, <1>7
  <2> QED BY <2>1, <2>2 DEF Levels
<1>15. Tree'
  BY <1>1, <1>2, <1>5, TreeKept DEF Wave, Tree
<1>16. Output'
  <2>1. (q.algo \in BfsPath => q.dst \notin Seen \/ q.dst = q.src)'
    BY <1>2, <1>7 DEF Wave, Output
  <2>2. (q.algo = "bfs_component" => Lists(out, done))'
    <3> SUFFICES ASSUME q.algo = "bfs_component" PROVE Lists(out', done')
      BY <1>2 DEF Lists
    <3>1. out \in Seq(Node) /\ Lists(out, done) /\ IsFiniteSet(done)
      BY Counting DEF Types, Wave, Output
    <3>2. Lists(Append(out, x), done \cup {x})
      BY <1>5, <3>1, ListsAppend
    <3> QED BY <1>1, <3>2
  <2>3. (q.algo = "bfs_neighborhood" =>
           /\ Lists([k \in DOMAIN out |-> out[k][1]], Seen \ {q.src})
           /\ \A k \in 1 .. Len(out) : LET y == out[k][1] IN
                out[k] = <<y, seen[y], parent[y], via[y]>>)'
    <3> SUFFICES ASSUME q.algo = "bfs_neighborhood"
                 PROVE (/\ Lists([k \in DOMAIN out |-> out[k][1]], Seen \ {q.src})
                        /\ \A k \in 1 .. Len(out) : LET y == out[k][1] IN
                             out[k] = <<y, seen[y], parent[y], via[y]>>)'
      BY <1>2
    <3>1. out' = out
      BY <1>1
    <3> QED BY <1>2, <1>7, <3>1 DEF Wave, Output, Lists
  <2> QED BY <2>1, <2>2, <2>3 DEF Output
<1> QED BY <1>1, <1>11, <1>12, <1>13, <1>14, <1>15, <1>16 DEF Wave

\* An edge to a node seen before.
LEMMA WaveSkip ==
  ASSUME Types, q.algo \in Bfs, Wave, NEW e \in todo, e.to \in Seen, todo' = todo \ {e},
         UNCHANGED <<edges, q, work, at, seen, parent, via, done, out>>
  PROVE  Wave'
<1>1. Usable' = Usable /\ Seen' = Seen /\ (\A y : Out(y)' = Out(y)) /\ \A k : Src(k)' = Src(k)
  BY Fixed DEF Seen
<1>2. Count' = Count /\ (\A d : Limited(d)' <=> Limited(d)) /\ \A y : Pending(y)' <=> Pending(y)
  BY DEF Count, Limited, Pending
<1>3. Queue'
  BY <1>1, <1>2 DEF Wave, Queue
<1>4. Expanding'
  <2>1. (Out(at[2]))' = Out(at[2]) /\ (Limited(at[1])' <=> Limited(at[1]))
    BY DEF Out, Limited
  <2> QED BY <1>2, <2>1 DEF Wave, Expanding
<1>5. Closed'
  <2> SUFFICES ASSUME NEW y \in done, ~Limited(seen[y]), NEW f \in Out(y), f \notin todo'
               PROVE  f.to \in Seen /\ seen[f.to] <= seen[y] + 1
    BY <1>1 DEF Closed, Limited
  <2>1. CASE f # e
    BY <2>1 DEF Wave, Closed
  <2>2. CASE f = e
    <3>1. e \in Out(at[2]) /\ seen[at[2]] = at[1]
      BY DEF Wave, Expanding
    <3>2. y = at[2]
      BY <2>2, <3>1, OutFacts
    <3> QED BY <2>2, <3>1, <3>2, WaveAhead DEF Wave
  <2> QED BY <2>1, <2>2
<1>6. Levels'
  <2>1. (\A y \in Seen : /\ seen[y] <= Count /\ y \in Src(seen[y])
                         /\ q.algo = "bfs_neighborhood" => seen[y] <= q.hops)'
    BY <1>1, <1>2 DEF Wave, Levels, Src
  <2>2. (\A k \in 0 .. at[1] : \A y \in Src(k) : y \in Seen /\ seen[y] <= k)'
    BY <1>1 DEF Wave, Levels
  <2> QED BY <2>1, <2>2 DEF Levels
<1>7. Tree'
  BY TreeKept DEF Wave, Tree
<1>8. Output'
  BY <1>1 DEF Wave, Output, Lists
<1> QED BY <1>3, <1>4, <1>5, <1>6, <1>7, <1>8 DEF Wave

\* A node met by an edge of one taken up joins the tree.
LEMMA TreeGrows ==
  ASSUME Types, Tree, NEW e \in Out(at[2]), at[2] \in done, e.to \notin done, e.to # q.src,
         NEW c, c \in Nat, c = seen[at[2]] + Length(e),
         seen' = [seen EXCEPT ![e.to] = c], parent' = [parent EXCEPT ![e.to] = at[2]],
         via' = [via EXCEPT ![e.to] = e.rel], UNCHANGED <<edges, q, done>>
  PROVE  Tree' /\ Seen' = Seen \cup {e.to}
<1> DEFINE y == e.to
           x == at[2]
<1>1. /\ y \in Node /\ x \in Node /\ x \in Seen /\ x # y /\ e \in Usable /\ e.from = x
      /\ seen \in [Node -> Nat \cup {None}] /\ parent \in [Node -> Node \cup {None}]
      /\ via \in [Node -> Rel \cup {None}] /\ None \notin Nat /\ None \notin Node
  BY OutFacts, Given DEF Types, Tree
<1>2. Seen' = Seen \cup {y}
  BY <1>1 DEF Seen
<1>3. /\ Usable' = Usable /\ \A z \in Node : z # y => seen'[z] = seen[z] /\ parent'[z] = parent[z]
                                                     /\ via'[z] = via[z]
      /\ seen'[y] = c /\ parent'[y] = x /\ via'[y] = e.rel
  BY <1>1, Fixed
<1>4. \A f : Length(f)' = Length(f)
  BY DEF Length
<1>5. ASSUME NEW z \in Node, parent'[z] # None
      PROVE  z \in Seen' /\ parent'[z] \in done /\ Led(z)'
  <2>1. CASE z = y
    <3>1. seen'[y] = seen'[x] + Length(e)
      BY <1>1, <1>3
    <3>2. Led(y)'
      BY <1>1, <1>3, <1>4, <3>1 DEF Led
    <3> QED BY <1>2, <1>3, <2>1, <3>2
  <2>2. CASE z # y
    <3>1. parent'[z] = parent[z] /\ seen'[z] = seen[z] /\ via'[z] = via[z]
      BY <1>3, <2>2
    <3>2. z \in Seen /\ parent[z] \in done /\ Led(z)
      BY <1>5, <3>1 DEF Tree
    <3>3. parent[z] # y /\ parent[z] \in Node
      BY <3>2 DEF Types
    <3>4. seen'[parent[z]] = seen[parent[z]]
      BY <1>3, <3>3
    <3>5. Led(z)'
      BY <1>3, <1>4, <3>1, <3>2, <3>4 DEF Led
    <3> QED BY <1>2, <3>1, <3>2, <3>5
  <2> QED BY <2>1, <2>2
<1>6. ASSUME NEW z \in Node, parent'[z] = None, z \in Seen' PROVE z = q.src
  <2>1. z # y
    BY <1>1, <1>3, <1>6
  <2>2. z \in Seen /\ parent[z] = None
    BY <1>2, <1>3, <1>6, <2>1
  <2> QED BY <2>2 DEF Tree
<1>7. done \subseteq Seen' /\ q.src \in Seen' /\ seen'[q.src] = 0 /\ parent'[q.src] = None
  <2>1. q.src \in Node
    BY Given DEF Types
  <2> QED BY <1>2, <1>3, <2>1 DEF Tree
<1> QED BY <1>2, <1>5, <1>6, <1>7 DEF Tree

\* An edge to a new node; the node is queued unless it is the target.
LEMMA WaveLook ==
  ASSUME Types, q.algo \in Bfs, Wave, NEW e \in todo, e.to \notin Seen, todo' = todo \ {e},
         seen' = [seen EXCEPT ![e.to] = at[1] + 1], parent' = [parent EXCEPT ![e.to] = at[2]],
         via' = [via EXCEPT ![e.to] = e.rel],
         out' = IF q.algo = "bfs_neighborhood"
                THEN Append(out, <<e.to, at[1] + 1, at[2], e.rel>>) ELSE out,
         UNCHANGED <<edges, q, at, done>>
  PROVE  /\ Seen' = Seen \cup {e.to} /\ seen'[e.to] = at[1] + 1
         /\ Tree' /\ Levels'
         /\ (q.algo \in BfsPath => e.to # q.dst) /\ work' = Append(work, <<at[1] + 1, e.to>>)
              => Wave'
<1> DEFINE y == e.to
           x == at[2]
           c == at[1]
<1>1. /\ x \in done /\ seen[x] = c /\ e \in Out(x) /\ ~Limited(c) /\ c < Count
      /\ \A f \in todo : f \in Out(x)
  BY DEF Wave, Expanding
<1>2. /\ y \in Node /\ x \in Node /\ x \in Seen /\ x # y /\ e \in Usable /\ e.from = x /\ e \in edges
      /\ done \subseteq Seen /\ q.src \in Seen /\ y # q.src /\ y \notin done /\ e.rel \in Rel
  BY <1>1, OutFacts, Given DEF Types, Wave, Tree, Seen
<1>3. c \in Nat /\ c + 1 \in Nat /\ Count \in Nat
  BY SeenFacts
<1>4. Length(e) = 1
  BY Kinds DEF Length
<1>5. Tree' /\ Seen' = Seen \cup {y}
  BY <1>1, <1>2, <1>3, <1>4, TreeGrows DEF Wave
<1>6. /\ Usable' = Usable /\ (\A z : Out(z)' = Out(z)) /\ (\A k : Src(k)' = Src(k))
      /\ Count' = Count /\ (\A d : Limited(d)' <=> Limited(d))
  BY Fixed DEF Count, Limited
<1>7. /\ \A z \in Seen : z # y /\ seen'[z] = seen[z] /\ parent'[z] = parent[z] /\ via'[z] = via[z]
                         /\ seen[z] \in Nat
      /\ seen'[y] = c + 1 /\ parent'[y] = x /\ via'[y] = e.rel
  <2>1. \A z \in Seen : z \in Node /\ z # y
    BY DEF Seen
  <2>2. /\ seen \in [Node -> Nat \cup {None}] /\ parent \in [Node -> Node \cup {None}]
        /\ via \in [Node -> Rel \cup {None}]
    BY DEF Types
  <2> QED BY <1>2, <2>1, <2>2, SeenFacts
<1>8. y \in Src(c + 1)
  <2>1. x \in Src(c)
    BY <1>1, <1>2 DEF Wave, Levels
  <2> QED BY <1>2, <1>3, <2>1, SrcFacts
<1>9. Levels'
  <2>1. (\A z \in Seen : /\ seen[z] <= Count /\ z \in Src(seen[z])
                         /\ q.algo = "bfs_neighborhood" => seen[z] <= q.hops)'
    <3> SUFFICES ASSUME NEW z \in Seen'
                 PROVE  /\ seen'[z] <= Count /\ z \in Src(seen'[z])
                        /\ q.algo = "bfs_neighborhood" => seen'[z] <= q.hops
      BY <1>6 DEF Src
    <3>1. CASE z = y
      <4>1. c + 1 <= Count
        BY <1>1, <1>3
      <4>2. q.algo = "bfs_neighborhood" => c + 1 <= q.hops
        <5>1. q.hops \in Nat
          BY Given DEF Types
        <5> QED BY <1>1, <1>3, <5>1 DEF Limited
      <4> QED BY <1>7, <1>8, <3>1, <4>1, <4>2
    <3>2. CASE z # y
      <4>1. z \in Seen
        BY <1>5, <3>2
      <4> QED BY <1>7, <4>1 DEF Wave, Levels
    <3> QED BY <3>1, <3>2
  <2>2. (\A k \in 0 .. at[1] : \A z \in Src(k) : z \in Seen /\ seen[z] <= k)'
    <3> SUFFICES ASSUME NEW k \in 0 .. c, NEW z \in Src(k) PROVE z \in Seen' /\ seen'[z] <= k
      BY <1>6
    <3>1. z \in Seen /\ seen[z] <= k
      BY DEF Wave, Levels
    <3> QED BY <1>5, <1>7, <3>1
  <2> QED BY <2>1, <2>2 DEF Levels
<1>10. ASSUME q.algo \in BfsPath => e.to # q.dst, work' = Append(work, <<at[1] + 1, e.to>>)
       PROVE  Wave'
  <2>0. work \in Seq(Nat \X Node)
    BY Kinds DEF Types
  <2> DEFINE n == Len(work)
  <2>1. /\ n \in Nat /\ Len(work') = n + 1 /\ work'[n + 1] = <<c + 1, y>>
        /\ \A j \in 1 .. n : work'[j] = work[j]
        /\ \A j \in 1 .. n + 1 : j \in 1 .. n \/ j = n + 1
        /\ Pending(y)' /\ \A z : Pending(z) => Pending(z)'
    <3>1. PICK d \in Nat : d = c + 1
      BY <1>3
    <3>2. PICK z \in Node : z = y
      BY <1>2
    <3>3. work' = Append(work, <<d, z>>)
      BY <1>10, <3>1, <3>2
    <3>4. /\ Len(work') = n + 1 /\ work'[n + 1] = <<d, z>>
          /\ \A j \in 1 .. n : work'[j] = work[j]
          /\ \A j \in 1 .. Len(work') : j \in 1 .. n \/ j = n + 1
          /\ Pending(z)' /\ \A w : Pending(w) => Pending(w)'
      BY <2>0, <3>3, PendingPush
    <3>5. n \in Nat
      BY <2>0
    <3> QED BY <3>1, <3>2, <3>4, <3>5
  <2>2. work'[n + 1][1] = c + 1 /\ work'[n + 1][2] = y
    BY <2>1
  <2> HIDE DEF n
  <2>3. Queue'
    <3>1. (\A k \in 1 .. Len(work) :
             /\ work[k][2] \in Seen /\ work[k][2] \notin done /\ work[k][1] = seen[work[k][2]]
             /\ at[1] <= work[k][1] /\ work[k][1] <= at[1] + 1)'
      <4> SUFFICES ASSUME NEW k \in 1 .. n + 1
                   PROVE  /\ work'[k][2] \in Seen' /\ work'[k][2] \notin done
                          /\ work'[k][1] = seen'[work'[k][2]]
                          /\ c <= work'[k][1] /\ work'[k][1] <= c + 1
        BY <2>1
      <4>1. CASE k = n + 1
        BY <1>2, <1>3, <1>5, <1>7, <2>2, <4>1
      <4>2. CASE k \in 1 .. n
        <5>1. /\ work[k][2] \in Seen /\ work[k][2] \notin done /\ work[k][1] = seen[work[k][2]]
              /\ c <= work[k][1] /\ work[k][1] <= c + 1
          BY <4>2 DEF Wave, Queue, n
        <5>2. work'[k] = work[k]
          BY <2>1, <4>2
        <5> QED BY <1>5, <1>7, <5>1, <5>2
      <4> QED BY <2>1, <4>1, <4>2
    <3>2. (\A j, k \in 1 .. Len(work) :
             j < k => work[j][1] <= work[k][1] /\ work[j][2] # work[k][2])'
      <4> SUFFICES ASSUME NEW j \in 1 .. n + 1, NEW k \in 1 .. n + 1, j < k
                   PROVE  work'[j][1] <= work'[k][1] /\ work'[j][2] # work'[k][2]
        BY <2>1
      <4>0. j \in 1 .. n /\ work'[j] = work[j]
        BY <2>1
      <4>1. CASE k = n + 1
        <5>1. work[j][2] \in Seen /\ work[j][1] <= c + 1
          BY <4>0 DEF Wave, Queue, n
        <5>2. work[j][2] # y
          BY <1>7, <5>1
        <5> QED BY <2>2, <4>0, <4>1, <5>1, <5>2
      <4>2. CASE k \in 1 .. n
        <5>1. work'[k] = work[k]
          BY <2>1, <4>2
        <5> QED BY <4>0, <4>2, <5>1 DEF Wave, Queue, n
      <4> QED BY <2>1, <4>1, <4>2
    <3>3. (\A z \in Seen \ done : Pending(z))'
      BY <1>5, <2>1 DEF Wave, Queue
    <3>4. (\A z \in done : seen[z] <= at[1])'
      BY <1>2, <1>7 DEF Wave, Queue
    <3> QED BY <3>1, <3>2, <3>3, <3>4 DEF Queue
  <2>4. Expanding'
    <3>1. (Out(at[2]))' = Out(at[2]) /\ (Limited(at[1])' <=> Limited(at[1]))
      BY DEF Out, Limited
    <3>2. seen'[x] = seen[x]
      BY <1>2, <1>7
    <3> QED BY <1>1, <1>6, <3>1, <3>2 DEF Expanding
  <2>5. Closed'
    <3> SUFFICES ASSUME NEW z \in done, ~Limited(seen[z]), NEW f \in Out(z), f \notin todo'
                 PROVE  f.to \in Seen' /\ seen'[f.to] <= seen[z] + 1
      BY <1>2, <1>6, <1>7 DEF Closed, Limited
    <3>1. CASE f # e
      <4>1. f.to \in Seen /\ seen[f.to] <= seen[z] + 1
        BY <3>1 DEF Wave, Closed
      <4> QED BY <1>5, <1>7, <4>1
    <3>2. CASE f = e
      <4>1. z = x
        BY <1>2, <3>2, OutFacts
      <4>2. f.to = y
        BY <3>2
      <4> HIDE DEF y, x, c
      <4> QED BY <1>1, <1>3, <1>5, <1>7, <4>1, <4>2
    <3> QED BY <3>1, <3>2
  <2>6. Output'
    <3>1. (q.algo \in BfsPath => q.dst \notin Seen \/ q.dst = q.src)'
      BY <1>5, <1>10 DEF Wave, Output
    <3>2. (q.algo = "bfs_component" => Lists(out, done))'
      BY Kinds DEF Wave, Output, Lists
    <3>3. ASSUME q.algo = "bfs_neighborhood"
          PROVE (/\ Lists([k \in DOMAIN out |-> out[k][1]], Seen \ {q.src})
                 /\ \A k \in 1 .. Len(out) : LET z == out[k][1] IN
                      out[k] = <<z, seen[z], parent[z], via[z]>>)'
      <4> DEFINE h == <<y, c + 1, x, e.rel>>
                 m == Len(out)
                 s == [k \in DOMAIN out |-> out[k][1]]
      <4>1. out \in Seq(Hop) /\ h \in Hop /\ out' = Append(out, h)
        BY <1>2, <1>3, <3>3 DEF Types, Hop
      <4>2. /\ m \in Nat /\ Len(out') = m + 1 /\ DOMAIN out' = 1 .. m + 1 /\ out'[m + 1] = h
            /\ DOMAIN out = 1 .. m /\ (\A k \in 1 .. m : out'[k] = out[k] /\ out[k] \in Hop)
            /\ \A k \in 1 .. m + 1 : k \in 1 .. m \/ k = m + 1
        <5> HIDE DEF h
        <5>1. DOMAIN out = 1 .. m /\ m \in Nat /\ \A k \in 1 .. m : out[k] \in Hop
          BY <4>1, LenProperties
        <5>0. /\ Append(out, h) \in Seq(Hop) /\ Len(Append(out, h)) = Len(out) + 1
              /\ Append(out, h)[Len(out) + 1] = h
              /\ \A k \in 1 .. Len(out) : Append(out, h)[k] = out[k]
          BY <4>1, AppendFacts
        <5>2. /\ out' \in Seq(Hop) /\ Len(out') = m + 1 /\ out'[m + 1] = h
              /\ (\A k \in 1 .. m : out'[k] = out[k])
          BY <4>1, <5>0
        <5>3. DOMAIN out' = 1 .. m + 1
          BY <5>2, LenProperties
        <5>4. \A k \in 1 .. m + 1 : k \in 1 .. m \/ k = m + 1
          BY <5>1
        <5> QED BY <5>1, <5>2, <5>3, <5>4
      <4>3. h[1] = y /\ h = <<y, seen'[y], parent'[y], via'[y]>>
        BY <1>7
      <4>4. \A k \in 1 .. m : out[k][1] \in Node
        BY <4>2 DEF Hop
      <4> HIDE DEF h, m
      <4>5. s \in Seq(Node) /\ Len(s) = m /\ \A k \in 1 .. m : s[k] = out[k][1]
        <5>1. s \in [1 .. m -> Node]
          BY <4>2, <4>4
        <5> QED BY <4>2, <5>1
      <4>6. [k \in DOMAIN out' |-> out'[k][1]] = Append(s, y)
        <5> DEFINE t == [k \in DOMAIN out' |-> out'[k][1]]
        <5>1. t \in [1 .. m + 1 -> Node] /\ \A k \in 1 .. m : t[k] = s[k]
          BY <1>2, <4>2, <4>3, <4>4, <4>5
        <5>2. t[m + 1] = y
          BY <4>2, <4>3
        <5> HIDE DEF t, s
        <5>3. t \in Seq(Node) /\ Len(t) = m + 1
          BY <4>2, <5>1
        <5>4. /\ Append(s, y) \in Seq(Node) /\ Len(Append(s, y)) = m + 1
              /\ \A k \in 1 .. m : Append(s, y)[k] = s[k]
              /\ Append(s, y)[m + 1] = y
          BY <1>2, <4>5, AppendFacts
        <5>5. \A k \in 1 .. Len(t) : t[k] = Append(s, y)[k]
          BY <4>2, <5>1, <5>2, <5>3, <5>4
        <5>6. t = Append(s, y)
          BY <5>3, <5>4, <5>5, SeqEqual
        <5> QED BY <5>6 DEF t
      <4>7. Lists(s, Seen \ {q.src}) /\ y \notin Seen \ {q.src} /\ IsFiniteSet(Seen \ {q.src})
        <5>1. Seen \ {q.src} \subseteq Node
          BY DEF Seen
        <5> QED BY <3>3, <5>1, Counting DEF Wave, Output
      <4>8. Lists(Append(s, y), (Seen \ {q.src}) \cup {y})
        BY <1>2, <4>5, <4>7, ListsAppend
      <4>9. Seen' \ {q.src} = (Seen \ {q.src}) \cup {y}
        BY <1>2, <1>5
      <4>10. Lists([k \in DOMAIN out |-> out[k][1]], Seen \ {q.src})'
        BY <4>6, <4>8, <4>9 DEF Lists
      <4>11. ASSUME NEW k \in 1 .. m + 1
             PROVE  LET z == out'[k][1] IN out'[k] = <<z, seen'[z], parent'[z], via'[z]>>
        <5>1. CASE k = m + 1
          BY <4>2, <4>3, <5>1
        <5>2. CASE k \in 1 .. m
          <6>1. out'[k] = out[k] /\ s[k] = out[k][1]
            BY <4>2, <4>5, <5>2
          <6>2. out[k][1] \in Seen
            <7>1. k \in DOMAIN s
              BY <4>2, <5>2
            <7>2. s[k] \in Range(s)
              BY <7>1 DEF Range
            <7> QED BY <4>7, <6>1, <7>2 DEF Lists
          <6>3. LET z == out[k][1] IN out[k] = <<z, seen[z], parent[z], via[z]>>
            BY <3>3, <5>2 DEF Wave, Output, m
          <6> DEFINE z == out[k][1]
          <6>4. seen'[z] = seen[z] /\ parent'[z] = parent[z] /\ via'[z] = via[z]
            BY <1>7, <6>2
          <6>5. out[k] = <<z, seen[z], parent[z], via[z]>> /\ out'[k][1] = z
            BY <6>1, <6>3
          <6> HIDE DEF z
          <6> QED BY <6>1, <6>4, <6>5
        <5> QED BY <4>2, <5>1, <5>2
      <4> QED BY <4>2, <4>10, <4>11
    <3> QED BY <3>1, <3>2, <3>3 DEF Output
  <2> QED BY <1>5, <1>9, <2>3, <2>4, <2>5, <2>6 DEF Wave
<1> QED BY <1>5, <1>7, <1>9, <1>10

\* With an empty queue every walk within the hops ends in a node seen.
LEMMA WaveReach ==
  ASSUME Types, q.algo \in Bfs, Wave, todo = {}, work = <<>>
  PROVE  /\ done = Seen
         /\ \A k \in Nat : (q.algo = "bfs_neighborhood" => k <= q.hops) =>
              \A y \in Src(k) : y \in Seen /\ seen[y] <= k
<1>1. done = Seen
  <2>1. \A x : ~Pending(x)
    BY DEF Pending
  <2> QED BY <2>1 DEF Wave, Queue, Tree
<1>2. q.hops \in Nat
  BY Given DEF Types
<1> DEFINE Bound(k) == q.algo = "bfs_neighborhood" => k <= q.hops
           G == {k \in Nat : Bound(k) => \A y \in Src(k) : y \in Seen /\ seen[y] <= k}
<1>3. 0 \in G
  BY SrcFacts DEF Wave, Tree
<1>4. ASSUME NEW k \in Nat, k \in G PROVE k + 1 \in G
  <2> SUFFICES ASSUME Bound(k + 1), NEW y \in Src(k + 1) PROVE y \in Seen /\ seen[y] <= k + 1
    OBVIOUS
  <2>1. Bound(k) /\ ~Limited(k)
    BY <1>2 DEF Limited
  <2>2. y \in Src(k) \cup Heads(Usable, Src(k))
    BY WalkStep DEF Src
  <2>3. CASE y \in Src(k)
    <3>1. y \in Seen /\ seen[y] <= k
      BY <1>4, <2>1, <2>3
    <3>2. seen[y] \in Nat
      BY <3>1, SeenFacts
    <3> QED BY <3>1, <3>2
  <2>4. CASE y \in Heads(Usable, Src(k))
    <3>1. PICK e \in Usable : e.from \in Src(k) /\ e.to = y
      BY <2>4 DEF Heads
    <3>2. e.from \in Seen /\ seen[e.from] <= k
      BY <1>4, <2>1, <3>1
    <3>3. seen[e.from] \in Nat
      BY <3>2, SeenFacts
    <3>4. ~Limited(seen[e.from])
      BY <1>2, <2>1, <3>2, <3>3 DEF Limited
    <3>5. e \in Out(e.from) \ todo
      BY OutFacts
    <3>6. y \in Seen /\ seen[y] <= seen[e.from] + 1
      BY <1>1, <3>1, <3>2, <3>4, <3>5 DEF Wave, Closed
    <3>7. seen[y] \in Nat
      BY <3>6, SeenFacts
    <3> QED BY <3>2, <3>3, <3>6, <3>7
  <2> QED BY <2>2, <2>3, <2>4
<1>5. \A k \in Nat : k \in G
  <2> HIDE DEF G
  <2> QED BY <1>3, <1>4, Numbers
<1> QED BY <1>1, <1>5

\* BfsExact of a query that has returned.
BfsAnswer ==
  /\ q.algo \in BfsPath =>
       IF q.dst \in Within({q.src}, N)
       THEN IsPath(result) /\ q.dst \in Within({q.src}, Len(result.nodes) - 1)
            /\ \A k \in 0 .. Len(result.nodes) - 2 : q.dst \notin Within({q.src}, k)
       ELSE result = NoPath
  /\ q.algo = "bfs_neighborhood" =>
       /\ Lists([k \in DOMAIN result.hops |-> result.hops[k][1]],
                Within({q.src}, q.hops) \ {q.src})
       /\ \A h \in Range(result.hops) :
            /\ h[1] \notin Within({q.src}, h[2] - 1)
            /\ h[3] \in Within({q.src}, h[2] - 1)
            /\ \E e \in Usable : e.from = h[3] /\ e.to = h[1] /\ e.rel = h[4]
  /\ q.algo = "bfs_component" => Lists(result.nodes, Within({q.src}, N))

\* Within, from the source.
LEMMA WithinSrc == \A k : Within({q.src}, k) = Src(k)
  BY WithinIs DEF Src

\* What is returned when the queue has run empty.
LEMMA WaveEnd ==
  Types /\ q.algo \in Bfs /\ Wave /\ todo = {} /\ work = <<>> /\ ~Same /\ result = Exhausted
    => BfsAnswer
<1> SUFFICES ASSUME Types, q.algo \in Bfs, Wave, todo = {}, work = <<>>, ~Same, result = Exhausted
             PROVE  BfsAnswer
  OBVIOUS
<1>1. /\ done = Seen
      /\ \A k \in Nat : (q.algo = "bfs_neighborhood" => k <= q.hops) =>
           \A y \in Src(k) : y \in Seen /\ seen[y] <= k
  BY WaveReach
<1>2. /\ Seen \subseteq Node /\ (\A x \in Seen : seen[x] \in Nat)
      /\ Count \in Nat /\ N \in Nat /\ Count <= N /\ q.hops \in Nat
  BY SeenFacts, Given DEF Types
<1>3. \A x \in Seen : /\ x \in Src(seen[x]) /\ seen[x] <= Count
                      /\ q.algo = "bfs_neighborhood" => seen[x] <= q.hops
  BY DEF Wave, Levels
<1>4. Seen \subseteq Src(N)
  <2> SUFFICES ASSUME NEW x \in Seen PROVE x \in Src(N)
    OBVIOUS
  <2>1. seen[x] \in Nat /\ seen[x] <= N
    BY <1>2, <1>3
  <2> QED BY <1>2, <1>3, <2>1, SrcFacts
<1>5. ASSUME q.algo \in BfsPath
      PROVE  q.dst \notin Within({q.src}, N) /\ result = NoPath
  <2>1. q.algo # "bfs_neighborhood"
    BY <1>5, Kinds
  <2>2. q.dst \notin Seen
    BY <1>5 DEF Wave, Output, Same
  <2>3. q.dst \notin Src(N)
    BY <1>1, <1>2, <2>1, <2>2
  <2>4. result = NoPath
    BY <1>5 DEF Exhausted, BfsPath
  <2> QED BY <2>3, <2>4, WithinSrc
<1>6. ASSUME q.algo = "bfs_component" PROVE Lists(result.nodes, Within({q.src}, N))
  <2>1. result = [nodes |-> out]
    BY <1>6 DEF Exhausted
  <2>2. Src(N) \subseteq Seen
    BY <1>1, <1>2, <1>6
  <2>3. Within({q.src}, N) = done
    <3>1. Src(N) = Seen /\ done = Seen
      BY <1>1, <1>4, <2>2
    <3>2. Within({q.src}, N) = Src(N)
      BY WithinSrc
    <3> QED BY <3>1, <3>2
  <2> QED BY <1>6, <2>1, <2>3 DEF Wave, Output
<1>7. ASSUME q.algo = "bfs_neighborhood"
      PROVE  /\ Lists([k \in DOMAIN result.hops |-> result.hops[k][1]],
                      Within({q.src}, q.hops) \ {q.src})
             /\ \A h \in Range(result.hops) :
                  /\ h[1] \notin Within({q.src}, h[2] - 1)
                  /\ h[3] \in Within({q.src}, h[2] - 1)
                  /\ \E e \in Usable : e.from = h[3] /\ e.to = h[1] /\ e.rel = h[4]
  <2>1. result = [hops |-> out]
    BY <1>7 DEF Exhausted
  <2>2. result.hops = out
    BY <2>1
  <2>3. Src(q.hops) \subseteq Seen
    BY <1>1, <1>2
  <2>4. Seen \subseteq Src(q.hops)
    <3> SUFFICES ASSUME NEW x \in Seen PROVE x \in Src(q.hops)
      OBVIOUS
    <3>1. seen[x] \in Nat /\ seen[x] <= q.hops
      BY <1>2, <1>3, <1>7
    <3> QED BY <1>2, <1>3, <3>1, SrcFacts
  <2>5. Within({q.src}, q.hops) = Seen
    <3>1. Src(q.hops) = Seen
      BY <2>3, <2>4
    <3>2. Within({q.src}, q.hops) = Src(q.hops)
      BY WithinSrc
    <3> QED BY <3>1, <3>2
  <2>6. Lists([k \in DOMAIN out |-> out[k][1]], Seen \ {q.src})
    BY <1>7 DEF Wave, Output
  <2>7. ASSUME NEW h \in Range(out)
        PROVE  /\ h[1] \notin Src(h[2] - 1) /\ h[3] \in Src(h[2] - 1)
               /\ \E e \in Usable : e.from = h[3] /\ e.to = h[1] /\ e.rel = h[4]
    <3>1. DOMAIN out = 1 .. Len(out)
      BY <1>7 DEF Types
    <3>2. PICK k \in 1 .. Len(out) : h = out[k]
      BY <3>1 DEF Range
    <3> DEFINE x == out[k][1]
    <3>3. h = <<x, seen[x], parent[x], via[x]>>
      BY <1>7, <3>2 DEF Wave, Output
    <3>4. x \in Seen /\ x # q.src
      <4> DEFINE s == [i \in DOMAIN out |-> out[i][1]]
      <4>1. k \in DOMAIN s /\ s[k] = x
        BY <3>1
      <4>2. x \in Range(s)
        BY <4>1 DEF Range
      <4> QED BY <2>6, <4>2 DEF Lists
    <3> HIDE DEF x
    <3>5. h[1] = x /\ h[2] = seen[x] /\ h[3] = parent[x] /\ h[4] = via[x]
      BY <3>3
    <3>6. x \in Node /\ parent[x] # None
      BY <1>2, <3>4 DEF Wave, Tree
    <3>7. parent[x] \in Seen /\ Led(x)
      BY <3>6 DEF Wave, Tree
    <3>8. seen[x] = seen[parent[x]] + 1 /\ seen[x] \in Nat /\ seen[parent[x]] \in Nat
          /\ seen[x] - 1 = seen[parent[x]]
      <4>1. seen[x] = seen[parent[x]] + 1
        BY <3>7, Kinds DEF Led, Length
      <4> QED BY <1>2, <3>4, <3>7, <4>1
    <3>9. x \notin Src(seen[parent[x]])
      <4>1. seen[parent[x]] <= q.hops
        BY <1>3, <1>7, <3>7
      <4> QED BY <1>1, <3>8, <4>1
    <3>10. parent[x] \in Src(seen[parent[x]])
      BY <1>3, <3>7
    <3>11. \E e \in Usable : e.from = parent[x] /\ e.to = x /\ e.rel = via[x]
      BY <3>7 DEF Led
    <3> QED BY <3>5, <3>8, <3>9, <3>10, <3>11
  <2> QED BY <2>2, <2>5, <2>6, <2>7, WithinSrc
<1> QED BY <1>5, <1>6, <1>7 DEF BfsAnswer

\* What is returned before the first step.
LEMMA BfsAtOnce ==
  edges \subseteq Universe /\ q \in Query /\ q.algo \in Bfs /\ (Unknown \/ Same)
  /\ result = (IF Unknown THEN NoPath ELSE [NoPath EXCEPT !.nodes = <<q.src>>])
    => BfsAnswer
<1> SUFFICES ASSUME edges \subseteq Universe, q \in Query, q.algo \in Bfs, Unknown \/ Same,
                    result = IF Unknown THEN NoPath ELSE [NoPath EXCEPT !.nodes = <<q.src>>]
             PROVE  BfsAnswer
  OBVIOUS
<1>0. N \in Nat /\ q.src \in Node
  BY Counting, Given
<1>1. q.algo \in BfsPath /\ q.algo # "bfs_neighborhood" /\ q.algo # "bfs_component"
  BY DEF Unknown, Same, Csr, Bfs, BfsPath
<1>2. CASE Unknown
  <2>1. q.dst \notin Node
    BY <1>2 DEF Unknown
  <2>2. \A e \in Usable : e.to \in Node
    BY OutFacts, Given
  <2>3. Src(N) \subseteq Node
    BY <1>0, <2>2, WalkIn DEF Src
  <2>4. q.dst \notin Within({q.src}, N)
    BY <2>1, <2>3, WithinSrc
  <2> QED BY <1>1, <1>2, <2>4 DEF BfsAnswer
<1>3. CASE ~Unknown
  <2>1. q.dst = q.src
    BY <1>3 DEF Same
  <2>2. result.nodes = <<q.src>>
    BY <1>3 DEF NoPath
  <2>3. Len(result.nodes) = 1 /\ result.nodes[1] = q.src
    BY <2>2
  <2>6. Len(result.nodes) - 1 = 0 /\ (\A k \in 1 .. Len(result.nodes) - 1 : FALSE)
        /\ (\A k \in 0 .. Len(result.nodes) - 2 : FALSE) /\ Len(result.nodes) > 0
    <3> DEFINE n == Len(result.nodes)
    <3>1. n = 1
      BY <2>3
    <3> HIDE DEF n
    <3>2. n - 1 = 0 /\ (\A k \in 1 .. n - 1 : FALSE) /\ (\A k \in 0 .. n - 2 : FALSE) /\ n > 0
      BY <3>1
    <3> QED BY <3>2 DEF n
  <2>4. IsPath(result)
    <3>1. Last(result.nodes) = q.dst
      BY <2>1, <2>3 DEF Last
    <3> QED BY <2>3, <2>6, <3>1 DEF IsPath
  <2>5. q.dst \in Src(0) /\ q.dst \in Src(N)
    BY <1>0, <2>1, SrcFacts
  <2> QED BY <1>1, <2>4, <2>5, <2>6, WithinSrc DEF BfsAnswer
<1> QED BY <1>2, <1>3

-----------------------------------------------------------------------------
\* The breadth-first queries while they run and when they have returned.
BfsInv == q.algo \in Bfs => (result = None => Wave) /\ (result # None => BfsAnswer)

\* Wave is about these variables only.
LEMMA WaveSame ==
  ASSUME Wave, UNCHANGED <<edges, q, work, at, todo, seen, parent, via, done, out>> PROVE Wave'
<1>1. Usable' = Usable /\ Seen' = Seen /\ (\A y : Out(y)' = Out(y)) /\ \A k : Src(k)' = Src(k)
  BY Fixed DEF Seen
<1>2. Count' = Count /\ (\A d : Limited(d)' <=> Limited(d)) /\ \A y : Pending(y)' <=> Pending(y)
  BY DEF Count, Limited, Pending
<1>3. Queue'
  BY <1>1, <1>2 DEF Wave, Queue
<1>4. Expanding'
  <2>1. (Out(at[2]))' = Out(at[2]) /\ (Limited(at[1])' <=> Limited(at[1]))
    BY DEF Out, Limited
  <2> QED BY <1>2, <2>1 DEF Wave, Expanding
<1>5. Closed'
  BY <1>1 DEF Wave, Closed, Limited
<1>6. Levels'
  <2>1. (\A y \in Seen : /\ seen[y] <= Count /\ y \in Src(seen[y])
                         /\ q.algo = "bfs_neighborhood" => seen[y] <= q.hops)'
    BY <1>1, <1>2 DEF Wave, Levels, Src
  <2>2. (\A k \in 0 .. at[1] : \A y \in Src(k) : y \in Seen /\ seen[y] <= k)'
    BY <1>1 DEF Wave, Levels
  <2> QED BY <2>1, <2>2 DEF Levels
<1>7. Tree'
  BY TreeKept DEF Wave, Tree
<1>8. Output'
  BY <1>1 DEF Wave, Output, Lists
<1> QED BY <1>3, <1>4, <1>5, <1>6, <1>7, <1>8 DEF Wave

\* The path found, when its target was reached at the last hop looked at.
LEMMA BfsHit ==
  Types /\ q.algo \in Bfs /\ q.algo \in BfsPath /\ Tree /\ Levels /\ q.dst \in Seen
  /\ seen[q.dst] = at[1] + 1 /\ result = Found(q.dst, parent, via, 0)
  /\ (\A k \in 0 .. at[1] : q.dst \notin Src(k))
    => BfsAnswer /\ result # None
<1> SUFFICES ASSUME Types, q.algo \in Bfs, q.algo \in BfsPath, Tree, Levels, q.dst \in Seen,
                    seen[q.dst] = at[1] + 1, result = Found(q.dst, parent, via, 0),
                    \A k \in 0 .. at[1] : q.dst \notin Src(k)
             PROVE  BfsAnswer /\ result # None
  OBVIOUS
<1>1. \A x \in Seen : seen[x] <= Count /\ x \in Src(seen[x])
  BY DEF Levels
<1>2. /\ IsPath(result) /\ result # None /\ Len(result.nodes) = seen[q.dst] + 1
  BY <1>1, BfsFound
<1>3. at[1] \in Nat /\ Count \in Nat /\ N \in Nat /\ Count <= N
  BY SeenFacts
<1>4. Len(result.nodes) - 1 = seen[q.dst] /\ 0 .. Len(result.nodes) - 2 = 0 .. at[1]
  <2> DEFINE n == Len(result.nodes)
  <2>1. n = (at[1] + 1) + 1 /\ at[1] + 1 = seen[q.dst]
    BY <1>2
  <2> HIDE DEF n
  <2>2. n - 1 = at[1] + 1 /\ n - 2 = at[1]
    BY <1>3, <2>1
  <2> QED BY <2>1, <2>2 DEF n
<1>5. q.dst \in Src(seen[q.dst])
  BY <1>1
<1>6. q.dst \in Src(N)
  <2>1. seen[q.dst] \in Nat /\ seen[q.dst] <= N
    BY <1>1, <1>3
  <2> QED BY <1>3, <1>5, <2>1, SrcFacts
<1>7. q.algo # "bfs_neighborhood" /\ q.algo # "bfs_component"
  BY Kinds
<1>8. /\ q.dst \in Within({q.src}, N) /\ q.dst \in Within({q.src}, Len(result.nodes) - 1)
      /\ \A k \in 0 .. Len(result.nodes) - 2 : q.dst \notin Within({q.src}, k)
  BY <1>4, <1>5, <1>6, WithinSrc
<1> QED BY <1>2, <1>7, <1>8 DEF BfsAnswer

\* A step keeps the promise.
LEMMA BfsStep == ASSUME Types, BfsInv, [Next]_vars PROVE BfsInv'
<1> SUFFICES ASSUME q'.algo \in Bfs PROVE BfsInv'
  BY DEF BfsInv
<1>0. q' = q /\ edges' = edges
  BY DEF Next, AtOnce, Take, Look, Root, Visit, vars
<1>1. q.algo \in Bfs
  BY <1>0
<1>a. Types'
  BY TypesStep
<1>2. CASE AtOnce
  <2>1. /\ result = None /\ (Unknown \/ Same)
        /\ result' = IF Unknown THEN NoPath ELSE [NoPath EXCEPT !.nodes = <<q.src>>]
        /\ UNCHANGED <<edges, q, work, at, todo, seen, parent, via, done, out>>
    BY <1>2 DEF AtOnce
  <2>2. Wave'
    BY <1>1, <2>1, WaveSame DEF BfsInv
  <2>3. (Unknown' <=> Unknown) /\ (Same' <=> Same) /\ NoPath' = NoPath
    BY <1>0 DEF Unknown, Same, NoPath
  <2>4. (edges \subseteq Universe /\ q \in Query /\ q.algo \in Bfs /\ (Unknown \/ Same)
         /\ result = (IF Unknown THEN NoPath ELSE [NoPath EXCEPT !.nodes = <<q.src>>]))'
    BY <1>0, <1>1, <2>1, <2>3 DEF Types
  <2>5. BfsAnswer'
    BY <2>4, BfsAtOnce, PTL
  <2> QED BY <2>2, <2>5 DEF BfsInv
<1>3. CASE Take
  <2>0. result = None /\ todo = {} /\ ~Same /\ Wave /\ UNCHANGED <<edges, q, seen, parent, via>>
    BY <1>1, <1>3 DEF Take, BfsInv
  <2>1. CASE work = <<>>
    <3>1. result' = Exhausted /\ UNCHANGED <<work, at, todo, done, out>>
      BY <1>3, <2>1 DEF Take
    <3>2. Wave'
      BY <2>0, <3>1, WaveSame
    <3>3. Exhausted' = Exhausted /\ (Same' <=> Same)
      BY <2>0, <3>1 DEF Exhausted, Same, NoPath
    <3>4. (Types /\ q.algo \in Bfs /\ Wave /\ todo = {} /\ work = <<>> /\ ~Same /\ result = Exhausted)'
      BY <1>a, <2>0, <2>1, <3>1, <3>2, <3>3
    <3>5. BfsAnswer'
      BY <3>4, WaveEnd, PTL
    <3> QED BY <3>2, <3>5 DEF BfsInv
  <2>2. CASE work # <<>>
    <3>1. Wave' /\ result' = result
      BY <1>1, <1>3, <2>0, <2>2, WaveTake
    <3> QED BY <2>0, <3>1 DEF BfsInv
  <2> QED BY <2>1, <2>2
<1>4. CASE Look
  <2>0. result = None /\ Wave /\ UNCHANGED <<edges, q, at, done>>
    BY <1>1, <1>4 DEF Look, BfsInv
  <2>1. \A e : (Accepts(e) <=> seen[e.to] = None) /\ Cost(e) = at[1] + 1
    BY <1>1, Kinds DEF Accepts, Cost
  <2>2. PICK e \in todo :
          /\ todo' = todo \ {e}
          /\ IF seen[e.to] = None
             THEN /\ seen' = [seen EXCEPT ![e.to] = at[1] + 1]
                  /\ parent' = [parent EXCEPT ![e.to] = at[2]]
                  /\ via' = [via EXCEPT ![e.to] = e.rel]
                  /\ IF q.algo \in BfsPath /\ e.to = q.dst
                     THEN result' = Found(q.dst, parent', via', 0) /\ UNCHANGED work
                     ELSE work' = Append(work, <<at[1] + 1, e.to>>) /\ UNCHANGED result
                  /\ out' = IF q.algo = "bfs_neighborhood"
                            THEN Append(out, <<e.to, at[1] + 1, at[2], e.rel>>) ELSE out
             ELSE UNCHANGED <<seen, parent, via, work, out, result>>
    BY <1>4, <2>1 DEF Look
  <2>3. e.to \in Node
    BY <1>1, Kinds, Given DEF Types
  <2>4. CASE seen[e.to] # None
    <3>1. e.to \in Seen /\ UNCHANGED <<seen, parent, via, work, out, result>>
      BY <2>2, <2>3, <2>4 DEF Seen
    <3>2. Wave'
      BY <1>1, <2>0, <2>2, <3>1, WaveSkip
    <3> QED BY <2>0, <3>1, <3>2 DEF BfsInv
  <2>5. CASE seen[e.to] = None
    <3>1. e.to \notin Seen
      BY <2>5 DEF Seen
    <3>2. /\ Seen' = Seen \cup {e.to} /\ seen'[e.to] = at[1] + 1
          /\ Tree' /\ Levels'
          /\ (q.algo \in BfsPath => e.to # q.dst) /\ work' = Append(work, <<at[1] + 1, e.to>>)
               => Wave'
      BY <1>1, <2>0, <2>2, <2>5, <3>1, WaveLook
    <3>3. CASE q.algo \in BfsPath /\ e.to = q.dst
      <4>1. result' = Found(q.dst, parent', via', 0)
        BY <2>2, <2>5, <3>3
      <4>2. Found(q.dst, parent', via', 0) = (Found(q.dst, parent, via, 0))'
        BY <1>0 DEF Found, PathTo, Rels
      <4>3. \A k \in 0 .. at[1] : q.dst \notin Src(k)
        BY <2>0, <3>1, <3>3 DEF Wave, Levels
      <4>4. (\A k \in 0 .. at[1] : q.dst \notin Src(k))'
        BY <2>0, <4>3, Fixed
      <4>5. (Types /\ q.algo \in Bfs /\ q.algo \in BfsPath /\ Tree /\ Levels /\ q.dst \in Seen
             /\ seen[q.dst] = at[1] + 1 /\ result = Found(q.dst, parent, via, 0)
             /\ (\A k \in 0 .. at[1] : q.dst \notin Src(k)))'
        BY <1>a, <1>0, <1>1, <2>0, <3>2, <3>3, <4>1, <4>2, <4>4
      <4>6. (BfsAnswer /\ result # None)'
        BY <4>5, BfsHit, PTL
      <4> QED BY <4>6 DEF BfsInv
    <3>4. CASE ~(q.algo \in BfsPath /\ e.to = q.dst)
      <4>1. work' = Append(work, <<at[1] + 1, e.to>>) /\ result' = result
        BY <2>2, <2>5, <3>4
      <4> QED BY <2>0, <3>2, <3>4, <4>1 DEF BfsInv
    <3> QED BY <3>3, <3>4
  <2> QED BY <2>4, <2>5
<1>5. CASE Root \/ Visit
  BY <1>1, <1>5, Kinds DEF Root, Visit
<1>6. CASE UNCHANGED vars
  <2>1. UNCHANGED <<edges, q, work, at, todo, seen, parent, via, done, out, result>>
    BY <1>6 DEF vars
  <2>2. Wave => Wave'
    BY <2>1, WaveSame
  <2>3. BfsAnswer => BfsAnswer'
    <3>1. Usable' = Usable /\ (\A k : Src(k)' = Src(k)) /\ N' = N
      BY <2>1, Fixed DEF N
    <3>2. \A k : Within({q.src}, k)' = Within({q.src}, k)
      BY <2>1 DEF Within, Usable
    <3>3. Within({q.src}, N)' = Within({q.src}, N)
          /\ Within({q.src}, q.hops)' = Within({q.src}, q.hops)
      BY <2>1 DEF Within, Usable, N
    <3> QED BY <2>1, <3>1, <3>2, <3>3 DEF BfsAnswer, IsPath, Lists
  <2> QED BY <2>1, <2>2, <2>3 DEF BfsInv
<1> QED BY <1>2, <1>3, <1>4, <1>5, <1>6 DEF Next

\* At every state a path that a breadth-first query returned is a shortest one,
\* and there is none only where it returned none; bfs_neighborhood and
\* bfs_component list exactly the nodes within the hops and the component,
\* whatever the graph, the query and the order of edges (bfs.cpp:6-157).
THEOREM BfsExactAlways == Spec => []BfsExact
<1>1. Init => Types /\ BfsInv
  <2> SUFFICES ASSUME Init PROVE Types /\ BfsInv
    OBVIOUS
  <2>1. result = None
    BY DEF Init
  <2> QED BY <2>1, TypesInit, WaveInit DEF BfsInv
<1>2. Types /\ BfsInv /\ [Next]_vars => (Types /\ BfsInv)'
  BY TypesStep, BfsStep
<1>3. BfsInv => BfsExact
  <2> SUFFICES ASSUME BfsInv, result # None PROVE BfsExact
    BY DEF BfsExact
  <2>1. CASE q.algo \in Bfs
    BY <2>1 DEF BfsInv, BfsAnswer, BfsExact
  <2>2. CASE q.algo \notin Bfs
    BY <2>2 DEF Bfs, BfsExact
  <2> QED BY <2>1, <2>2
<1> QED BY <1>1, <1>2, <1>3, PTL DEF Spec

-----------------------------------------------------------------------------
(***************************************************************************)
(* The least costs of walks, by their number of edges.                     *)
(***************************************************************************)
\* The costs offered for x when b has the costs so far.
Offers(U, b, x) ==
  ({b[x]} \cup {b[e.from] + e.weight : e \in {f \in U : f.to = x /\ b[f.from] # None}}) \ {None}

Improved(U, b) ==
  [x \in Node |-> IF Offers(U, b, x) = {} THEN None ELSE Min(Offers(U, b, x))]

Start(s) == [x \in Node |-> IF x = s THEN 0 ELSE None]

\* g[j] has the least costs of walks of at most j edges, for j up to k.
BestEq(U, s, k, g) == g = [j \in 0 .. k |-> IF j = 0 THEN Start(s) ELSE Improved(U, g[j - 1])]

Best(U, s, k) == (CHOOSE g : BestEq(U, s, k, g))[k]

Least(k) == Best(Usable, q.src, k)

\* Cheapest is Best for the edges the query may use.
LEMMA CheapestIs == ASSUME NEW k PROVE Cheapest(k) = Least(k)
  BY DEF Cheapest, Least, Best, BestEq, Start, Improved, Offers

\* The equation has a solution.
LEMMA BestExists ==
  ASSUME NEW U, NEW s PROVE \A k \in Nat : \E g : BestEq(U, s, k, g)
<1> DEFINE G == {k \in Nat : \E g : BestEq(U, s, k, g)}
<1>1. 0 \in G
  <2> DEFINE g == [j \in 0 .. 0 |-> Start(s)]
  <2>1. BestEq(U, s, 0, g)
    BY DEF BestEq
  <2> QED BY <2>1
<1>2. ASSUME NEW k \in Nat, k \in G PROVE k + 1 \in G
  <2>1. PICK g : BestEq(U, s, k, g)
    BY <1>2
  <2> DEFINE h == [j \in 0 .. k + 1 |-> IF j = k + 1 THEN Improved(U, g[k]) ELSE g[j]]
  <2>2. ASSUME NEW j \in 0 .. k + 1
        PROVE  h[j] = IF j = 0 THEN Start(s) ELSE Improved(U, h[j - 1])
    <3>1. CASE j = k + 1
      BY <3>1
    <3>2. CASE j # k + 1
      <4>1. j \in 0 .. k /\ (j # 0 => j - 1 \in 0 .. k) /\ j - 1 # k + 1
        BY <3>2
      <4>2. g[j] = IF j = 0 THEN Start(s) ELSE Improved(U, g[j - 1])
        BY <2>1, <4>1 DEF BestEq
      <4>3. h[j] = g[j] /\ (j # 0 => h[j - 1] = g[j - 1])
        BY <3>2, <4>1
      <4> HIDE DEF h
      <4> QED BY <4>2, <4>3
    <3> QED BY <3>1, <3>2
  <2>3. BestEq(U, s, k + 1, h)
    <3>1. h = [j \in 0 .. k + 1 |-> h[j]]
      OBVIOUS
    <3> HIDE DEF h
    <3> QED BY <2>2, <3>1 DEF BestEq
  <2>4. \E f : BestEq(U, s, k + 1, f)
    <3> HIDE DEF h
    <3> QED BY <2>3
  <2> QED BY <2>4
<1> HIDE DEF G
<1>3. \A k \in Nat : k \in G
  BY <1>1, <1>2, Numbers
<1> QED BY <1>3 DEF G

\* Solutions agree where both are defined.
LEMMA BestUnique ==
  ASSUME NEW U, NEW s, NEW k \in Nat, NEW m \in Nat, k <= m,
         NEW g, BestEq(U, s, k, g), NEW h, BestEq(U, s, m, h)
  PROVE  \A j \in 0 .. k : g[j] = h[j]
<1> DEFINE G == {j \in Nat : j <= k => g[j] = h[j]}
<1>1. 0 \in G
  BY DEF BestEq
<1>2. ASSUME NEW j \in Nat, j \in G PROVE j + 1 \in G
  <2> SUFFICES ASSUME j + 1 <= k PROVE g[j + 1] = h[j + 1]
    OBVIOUS
  <2>1. j + 1 \in 0 .. k /\ j + 1 \in 0 .. m /\ j + 1 # 0 /\ (j + 1) - 1 = j /\ j <= k
    OBVIOUS
  <2>2. g[j + 1] = Improved(U, g[j])
    BY <2>1 DEF BestEq
  <2>3. h[j + 1] = Improved(U, h[j])
    BY <2>1 DEF BestEq
  <2> QED BY <1>2, <2>1, <2>2, <2>3
<1> HIDE DEF G
<1>3. \A j \in Nat : j \in G
  BY <1>1, <1>2, Numbers
<1> QED BY <1>3 DEF G

\* The least costs of walks of at most 0 and of at most k + 1 edges.
LEMMA BestStep ==
  ASSUME NEW U, NEW s, NEW k \in Nat
  PROVE  Best(U, s, 0) = Start(s) /\ Best(U, s, k + 1) = Improved(U, Best(U, s, k))
<1> DEFINE c(n) == CHOOSE g : BestEq(U, s, n, g)
<1>1. \A n \in Nat : BestEq(U, s, n, c(n))
  BY BestExists
<1>2. Best(U, s, 0) = c(0)[0] /\ Best(U, s, k) = c(k)[k] /\ Best(U, s, k + 1) = c(k + 1)[k + 1]
  BY DEF Best
<1> HIDE DEF c
<1>3. c(0)[0] = Start(s)
  <2>1. BestEq(U, s, 0, c(0))
    BY <1>1
  <2> QED BY <2>1 DEF BestEq
<1>4. c(k)[k] = c(k + 1)[k]
  <2>1. BestEq(U, s, k, c(k)) /\ BestEq(U, s, k + 1, c(k + 1)) /\ k + 1 \in Nat
        /\ k <= k + 1 /\ k \in 0 .. k
    BY <1>1
  <2> QED BY <2>1, BestUnique
<1>5. c(k + 1)[k + 1] = Improved(U, c(k + 1)[k])
  <2>1. BestEq(U, s, k + 1, c(k + 1)) /\ k + 1 \in 0 .. k + 1 /\ k + 1 # 0 /\ (k + 1) - 1 = k
    BY <1>1
  <2> QED BY <2>1 DEF BestEq
<1> QED BY <1>2, <1>3, <1>4, <1>5

\* Edges between nodes, with weights that are not negative.
Proper(U) == \A e \in U : e.from \in Node /\ e.to \in Node /\ e.weight \in Nat

\* One more edge: costs fall, to what an edge offers.
LEMMA ImprovedFacts ==
  ASSUME NEW U, Proper(U), NEW b \in [Node -> Nat \cup {None}]
  PROVE  /\ Improved(U, b) \in [Node -> Nat \cup {None}]
         /\ \A x \in Node : b[x] # None => Improved(U, b)[x] # None /\ Improved(U, b)[x] <= b[x]
         /\ \A e \in U : b[e.from] # None =>
              Improved(U, b)[e.to] # None /\ Improved(U, b)[e.to] <= b[e.from] + e.weight
         /\ \A x \in Node : Improved(U, b)[x] # None =>
              \/ Improved(U, b)[x] = b[x]
              \/ \E e \in U : e.to = x /\ b[e.from] # None /\ Improved(U, b)[x] = b[e.from] + e.weight
<1>0. None \notin Nat /\ \A e \in U : e.from \in Node /\ e.to \in Node /\ e.weight \in Nat
  BY NoneAssumption DEF Proper
<1>1. ASSUME NEW x \in Node
      PROVE  /\ Offers(U, b, x) \subseteq Nat
             /\ b[x] # None => b[x] \in Offers(U, b, x)
             /\ \A e \in U : e.to = x /\ b[e.from] # None => b[e.from] + e.weight \in Offers(U, b, x)
             /\ \A c \in Offers(U, b, x) :
                  c = b[x] \/ \E e \in U : e.to = x /\ b[e.from] # None /\ c = b[e.from] + e.weight
  <2>1. \A e \in U : b[e.from] # None => b[e.from] + e.weight \in Nat
    <3> SUFFICES ASSUME NEW e \in U, b[e.from] # None PROVE b[e.from] + e.weight \in Nat
      OBVIOUS
    <3>1. b[e.from] \in Nat /\ e.weight \in Nat
      BY <1>0
    <3> QED BY <3>1
  <2>2. b[x] \in Nat \cup {None}
    OBVIOUS
  <2> QED BY <1>0, <2>1, <2>2 DEF Offers
<1>2. ASSUME NEW x \in Node, Offers(U, b, x) # {}
      PROVE  /\ Min(Offers(U, b, x)) \in Offers(U, b, x)
             /\ \A c \in Offers(U, b, x) : Min(Offers(U, b, x)) <= c
  <2> DEFINE T == Offers(U, b, x)
  <2>1. T \subseteq Nat /\ T # {}
    BY <1>1, <1>2
  <2> HIDE DEF T
  <2>2. \E m \in T : \A c \in T : m <= c
    BY <2>1, LeastNumber
  <2>3. Min(T) \in T /\ \A c \in T : Min(T) <= c
    BY <2>2 DEF Min
  <2> QED BY <2>3 DEF T
<1>3. \A x \in Node : Improved(U, b)[x] = IF Offers(U, b, x) = {} THEN None ELSE Min(Offers(U, b, x))
  BY DEF Improved
<1>4. ASSUME NEW x \in Node
      PROVE  /\ Improved(U, b)[x] # None <=> Offers(U, b, x) # {}
             /\ Improved(U, b)[x] # None => /\ Improved(U, b)[x] \in Offers(U, b, x)
                                            /\ Improved(U, b)[x] \in Nat
                                            /\ \A c \in Offers(U, b, x) : Improved(U, b)[x] <= c
  <2>1. CASE Offers(U, b, x) = {}
    BY <1>3, <2>1
  <2>2. CASE Offers(U, b, x) # {}
    <3>1. Improved(U, b)[x] = Min(Offers(U, b, x))
      BY <1>3, <2>2
    <3>2. Min(Offers(U, b, x)) \in Offers(U, b, x) /\ \A c \in Offers(U, b, x) : Min(Offers(U, b, x)) <= c
      BY <1>2, <2>2
    <3>3. Min(Offers(U, b, x)) \in Nat
      BY <1>1, <3>2
    <3> QED BY <1>0, <2>2, <3>1, <3>2, <3>3
  <2> QED BY <2>1, <2>2
<1>5. Improved(U, b) \in [Node -> Nat \cup {None}]
  <2>1. Improved(U, b) = [x \in Node |-> Improved(U, b)[x]]
    BY DEF Improved
  <2>2. \A x \in Node : Improved(U, b)[x] \in Nat \cup {None}
    BY <1>4
  <2> QED BY <2>1, <2>2
<1>6. ASSUME NEW x \in Node, b[x] # None
      PROVE  Improved(U, b)[x] # None /\ Improved(U, b)[x] <= b[x]
  BY <1>1, <1>4, <1>6
<1>7. ASSUME NEW e \in U, b[e.from] # None
      PROVE  Improved(U, b)[e.to] # None /\ Improved(U, b)[e.to] <= b[e.from] + e.weight
  <2>1. b[e.from] + e.weight \in Offers(U, b, e.to) /\ e.to \in Node
    BY <1>0, <1>1, <1>7
  <2> QED BY <1>4, <2>1
<1>8. ASSUME NEW x \in Node, Improved(U, b)[x] # None
      PROVE  \/ Improved(U, b)[x] = b[x]
             \/ \E e \in U : e.to = x /\ b[e.from] # None /\ Improved(U, b)[x] = b[e.from] + e.weight
  BY <1>1, <1>4, <1>8
<1> QED BY <1>5, <1>6, <1>7, <1>8

\* There is a walk of at most k edges from the source to x that costs at most v.
Cheap(k, x, v) == Least(k)[x] # None /\ Least(k)[x] <= v

\* The least costs from the source.
LEMMA LeastFacts ==
  ASSUME edges \subseteq Universe, q \in Query
  PROVE  /\ \A k \in Nat : Least(k) \in [Node -> Nat \cup {None}]
         /\ Least(0) = Start(q.src)
         /\ \A k \in Nat : \A x \in Node : \A v \in Nat : Cheap(k, x, v) => Cheap(k + 1, x, v)
         /\ \A k \in Nat : \A e \in Usable : \A v \in Nat :
              Cheap(k, e.from, v) => Cheap(k + 1, e.to, v + e.weight)
         /\ \A k \in Nat : \A x \in Node : Least(k + 1)[x] # None =>
              \/ Least(k + 1)[x] = Least(k)[x]
              \/ \E e \in Usable : /\ e.to = x /\ Least(k)[e.from] # None
                                   /\ Least(k + 1)[x] = Least(k)[e.from] + e.weight
<1>0. \A e \in Usable : e.from \in Node /\ e.to \in Node /\ e.weight \in Nat
  BY Given, OutFacts
<1>a. Proper(Usable)
  BY <1>0 DEF Proper
<1>1. Least(0) = Start(q.src) /\ \A k \in Nat : Least(k + 1) = Improved(Usable, Least(k))
  BY BestStep DEF Least
<1> DEFINE G == {k \in Nat : Least(k) \in [Node -> Nat \cup {None}]}
<1>2. 0 \in G
  BY <1>1 DEF Start
<1>3. ASSUME NEW k \in Nat, k \in G PROVE k + 1 \in G
  BY <1>a, <1>1, <1>3, ImprovedFacts
<1>4. \A k \in Nat : k \in G
  <2> HIDE DEF G
  <2> QED BY <1>2, <1>3, Numbers
<1>5. \A k \in Nat : Least(k) \in [Node -> Nat \cup {None}]
  BY <1>4
<1>6. ASSUME NEW k \in Nat
      PROVE  /\ \A x \in Node : Least(k)[x] # None =>
                  Least(k + 1)[x] # None /\ Least(k + 1)[x] <= Least(k)[x]
             /\ \A e \in Usable : Least(k)[e.from] # None =>
                  Least(k + 1)[e.to] # None /\ Least(k + 1)[e.to] <= Least(k)[e.from] + e.weight
             /\ \A x \in Node : Least(k + 1)[x] # None =>
                  \/ Least(k + 1)[x] = Least(k)[x]
                  \/ \E e \in Usable : /\ e.to = x /\ Least(k)[e.from] # None
                                       /\ Least(k + 1)[x] = Least(k)[e.from] + e.weight
             /\ \A x \in Node : /\ Least(k)[x] # None => Least(k)[x] \in Nat
                                /\ Least(k + 1)[x] # None => Least(k + 1)[x] \in Nat
  <2>1. Least(k) \in [Node -> Nat \cup {None}] /\ Least(k + 1) \in [Node -> Nat \cup {None}]
    BY <1>5
  <2>2. Least(k + 1) = Improved(Usable, Least(k))
    BY <1>1
  <2> QED BY <1>a, <2>1, <2>2, ImprovedFacts
<1>7. ASSUME NEW k \in Nat, NEW x \in Node, NEW v \in Nat, Cheap(k, x, v) PROVE Cheap(k + 1, x, v)
  BY <1>6, <1>7 DEF Cheap
<1>8. ASSUME NEW k \in Nat, NEW e \in Usable, NEW v \in Nat, Cheap(k, e.from, v)
      PROVE  Cheap(k + 1, e.to, v + e.weight)
  <2>1. /\ Least(k)[e.from] # None /\ Least(k)[e.from] <= v
        /\ Least(k + 1)[e.to] # None /\ Least(k + 1)[e.to] <= Least(k)[e.from] + e.weight
    BY <1>6, <1>8 DEF Cheap
  <2>2. Least(k)[e.from] \in Nat /\ Least(k + 1)[e.to] \in Nat /\ e.weight \in Nat
    BY <1>0, <1>6, <2>1
  <2>3. Least(k + 1)[e.to] <= v + e.weight
    BY <2>1, <2>2
  <2> QED BY <2>1, <2>3 DEF Cheap
<1> QED BY <1>1, <1>5, <1>6, <1>7, <1>8

\* More edges cost no more.
LEMMA CheapMono ==
  ASSUME edges \subseteq Universe, q \in Query, NEW x \in Node, NEW v \in Nat,
         NEW j \in Nat, Cheap(j, x, v)
  PROVE  \A k \in Nat : j <= k => Cheap(k, x, v)
<1> DEFINE G == {k \in Nat : j <= k => Cheap(k, x, v)}
<1>1. 0 \in G
  OBVIOUS
<1>2. ASSUME NEW k \in Nat, k \in G PROVE k + 1 \in G
  <2>1. j <= k + 1 => j <= k \/ j = k + 1
    OBVIOUS
  <2> QED BY <1>2, <2>1, LeastFacts
<1> HIDE DEF G
<1>3. \A k \in Nat : k \in G
  BY <1>1, <1>2, Numbers
<1> QED BY <1>3 DEF G

-----------------------------------------------------------------------------
(***************************************************************************)
(* Weighted.                                                               *)
(***************************************************************************)
\* The heap has the nodes seen and not taken up with their cost, and stale
\* items that cost more; none costs less than the item taken off last.
Heap ==
  /\ \A k \in 1 .. Len(work) :
       /\ work[k][2] \in Seen /\ at[1] <= work[k][1] /\ seen[work[k][2]] <= work[k][1]
       /\ work[k][2] \in done => seen[work[k][2]] < work[k][1]
  /\ \A j, k \in 1 .. Len(work) : work[j] = work[k] => j = k
  /\ \A x \in Seen \ done : \E k \in 1 .. Len(work) : work[k] = <<seen[x], x>>
  /\ \A x \in done : seen[x] <= at[1]
  /\ q.algo \in DijkstraPath => q.dst \notin done

\* The edges left to look at are those of the node taken up last, whose cost is
\* that of a walk through nodes done.
Relaxing ==
  todo # {} => /\ at[2] \in done /\ seen[at[2]] = at[1] /\ todo \subseteq Out(at[2])
               /\ Count >= 1 /\ Cheap(Count - 1, at[2], at[1])

\* The edges looked at offer nothing better.
Relaxed ==
  \A x \in done : \A e \in Out(x) \ todo : e.to \in Seen /\ seen[e.to] <= seen[x] + e.weight

\* The costs kept are those of walks, and the least ones for the nodes done.
Costs ==
  /\ \A x \in Seen : Cheap(Count, x, seen[x])
  /\ \A x \in done : \A k \in Nat : Least(k)[x] # None => seen[x] <= Least(k)[x]

\* The order in which nodes were done: a parent was done first, also along
\* edges of weight zero.
RankedBy(rank, m) ==
  /\ rank \in [Node -> Nat] /\ m \in Nat
  /\ \A x \in Node : IF x \in done THEN rank[x] < m ELSE rank[x] = m
  /\ \A x \in Node : parent[x] # None => rank[parent[x]] < rank[x]

Ranked == \E rank, m : RankedBy(rank, m)

Weighted == Heap /\ Relaxing /\ Relaxed /\ Costs /\ Tree /\ Ranked

\* The kinds of query are apart.
LEMMA WeightedKinds ==
  ASSUME q.algo \in Dijkstra
  PROVE  /\ q.algo \notin Recursive /\ q.algo \notin Bfs /\ q.algo \notin BfsPath
         /\ q.algo # "dfs_component" /\ q.algo # "bfs_neighborhood" /\ q.algo # "bfs_component"
         /\ q.algo = "dijkstra_path_csr" \/ q.algo \in {"dijkstra_path", "dijkstra_all"}
         /\ q.algo \in DijkstraPath \/ q.algo = "dijkstra_all"
         /\ q.algo \in Csr <=> q.algo = "dijkstra_path_csr"
  BY DEF Bfs, BfsPath, Recursive, Dijkstra, DijkstraPath, Csr

\* Nothing defined from the graph and the query changes.
LEMMA FixedLeast ==
  ASSUME UNCHANGED <<edges, q>>
  PROVE  /\ \A k : Least(k)' = Least(k)
         /\ \A k, x, v : Cheap(k, x, v)' <=> Cheap(k, x, v)
<1>1. \A k : Least(k)' = Least(k)
  BY Fixed DEF Least
<1> QED BY <1>1 DEF Cheap

\* The search starts with the source in the heap.
LEMMA WeightedInit == ASSUME Init, q.algo \in Dijkstra PROVE Weighted
<1>0. q.algo \notin Recursive /\ q \in Query /\ edges \subseteq Universe /\ q.src \in Node
  BY WeightedKinds, Given DEF Init
<1>1. /\ work = <<<<0, q.src>>>> /\ todo = {} /\ done = {} /\ at = <<0, None>>
      /\ seen = [x \in Node |-> IF x = q.src THEN 0 ELSE None]
      /\ parent = [x \in Node |-> None]
  BY <1>0 DEF Init
<1>2. Seen = {q.src} /\ seen[q.src] = 0 /\ at[1] = 0 /\ Count = 0
  <2>1. Count = 0
    BY <1>1, FS_EmptySet DEF Count
  <2>2. 0 # None
    BY NoneAssumption
  <2> QED BY <1>0, <1>1, <2>1, <2>2 DEF Seen
<1>3. /\ Len(work) = 1 /\ work[1] = <<0, q.src>> /\ work[1][1] = 0 /\ work[1][2] = q.src
      /\ \A k \in 1 .. Len(work) : k = 1
  BY <1>1
<1>4. Heap
  <2>1. \A k \in 1 .. Len(work) :
          /\ work[k][2] \in Seen /\ at[1] <= work[k][1] /\ seen[work[k][2]] <= work[k][1]
          /\ work[k][2] \in done => seen[work[k][2]] < work[k][1]
    BY <1>1, <1>2, <1>3
  <2>2. \A j, k \in 1 .. Len(work) : work[j] = work[k] => j = k
    BY <1>3
  <2>3. 1 \in 1 .. Len(work) /\ work[1] = <<seen[q.src], q.src>>
    BY <1>2, <1>3
  <2>4. \A x \in Seen \ done : \E k \in 1 .. Len(work) : work[k] = <<seen[x], x>>
    BY <1>2, <2>3
  <2> QED BY <1>1, <2>1, <2>2, <2>4 DEF Heap
<1>5. Relaxing /\ Relaxed
  BY <1>1 DEF Relaxing, Relaxed
<1>6. Costs
  <2>1. Least(0)[q.src] = 0
    BY <1>0, LeastFacts DEF Start
  <2>2. Cheap(Count, q.src, seen[q.src])
    BY <1>2, <2>1, NoneAssumption DEF Cheap
  <2> QED BY <1>1, <1>2, <2>2 DEF Costs
<1>7. Tree
  BY <1>0, <1>1, <1>2 DEF Tree
<1>8. Ranked
  <2> DEFINE rank == [x \in Node |-> 0]
  <2>1. RankedBy(rank, 0)
    BY <1>1 DEF RankedBy
  <2> HIDE DEF rank
  <2> QED BY <2>1 DEF Ranked
<1> QED BY <1>4, <1>5, <1>6, <1>7, <1>8 DEF Weighted

\* Between nodes, the costs below those of all items are the least ones.
LEMMA HeapBelow ==
  ASSUME Types, q.algo \in Dijkstra, Weighted, todo = {},
         NEW c \in Nat, \A k \in 1 .. Len(work) : c <= work[k][1]
  PROVE  \A k \in Nat : \A y \in Node :
           Least(k)[y] # None /\ Least(k)[y] < c => y \in Seen /\ seen[y] <= Least(k)[y]
<1>0. /\ edges \subseteq Universe /\ q \in Query /\ q.src \in Node
      /\ \A e \in Usable : e.from \in Node /\ e.to \in Node /\ e.weight \in Nat
  BY Given, OutFacts DEF Types
<1>1. /\ \A k \in Nat : Least(k) \in [Node -> Nat \cup {None}]
      /\ Least(0) = Start(q.src)
      /\ \A k \in Nat : \A x \in Node : Least(k + 1)[x] # None =>
           \/ Least(k + 1)[x] = Least(k)[x]
           \/ \E e \in Usable : /\ e.to = x /\ Least(k)[e.from] # None
                                /\ Least(k + 1)[x] = Least(k)[e.from] + e.weight
  BY <1>0, LeastFacts
<1> DEFINE Good(k, y) == Least(k)[y] # None /\ Least(k)[y] < c => y \in Seen /\ seen[y] <= Least(k)[y]
           G == {k \in Nat : \A y \in Node : Good(k, y)}
<1>2. 0 \in G
  <2> SUFFICES ASSUME NEW y \in Node, Least(0)[y] # None PROVE y \in Seen /\ seen[y] <= Least(0)[y]
    OBVIOUS
  <2>1. y = q.src /\ Least(0)[y] = 0
    BY <1>1 DEF Start
  <2>2. q.src \in Seen /\ seen[q.src] = 0
    BY DEF Weighted, Tree
  <2> QED BY <2>1, <2>2
<1>3. ASSUME NEW k \in Nat, k \in G PROVE k + 1 \in G
  <2> SUFFICES ASSUME NEW y \in Node, Least(k + 1)[y] # None, Least(k + 1)[y] < c
               PROVE  y \in Seen /\ seen[y] <= Least(k + 1)[y]
    OBVIOUS
  <2>1. CASE Least(k + 1)[y] = Least(k)[y]
    <3>1. Good(k, y)
      BY <1>3
    <3> QED BY <2>1, <3>1
  <2>2. CASE \E e \in Usable : /\ e.to = y /\ Least(k)[e.from] # None
                               /\ Least(k + 1)[y] = Least(k)[e.from] + e.weight
    <3>1. PICK e \in Usable : /\ e.to = y /\ Least(k)[e.from] # None
                              /\ Least(k + 1)[y] = Least(k)[e.from] + e.weight
      BY <2>2
    <3> DEFINE z == e.from
               a == Least(k)[z]
    <3>2. z \in Node /\ a \in Nat /\ e.weight \in Nat /\ a + e.weight < c /\ a < c
      <4>1. z \in Node /\ e.weight \in Nat
        BY <1>0
      <4>2. a \in Nat
        BY <1>1, <3>1, <4>1
      <4>3. a + e.weight < c
        BY <3>1
      <4> HIDE DEF a
      <4> QED BY <4>1, <4>2, <4>3
    <3>3. z \in Seen /\ seen[z] <= a
      <4>1. Good(k, z)
        BY <1>3, <3>2
      <4> QED BY <3>1, <3>2, <4>1
    <3>4. seen[z] \in Nat
      BY <3>3, SeenFacts
    <3>5. z \in done
      <4> SUFFICES ASSUME z \notin done PROVE FALSE
        OBVIOUS
      <4>1. PICK i \in 1 .. Len(work) : work[i] = <<seen[z], z>>
        BY <3>3 DEF Weighted, Heap
      <4>2. c <= seen[z]
        BY <4>1
      <4> HIDE DEF z, a
      <4> QED BY <3>2, <3>3, <3>4, <4>2
    <3>6. e \in Out(z) \ todo
      BY OutFacts
    <3>7. y \in Seen /\ seen[y] <= seen[z] + e.weight
      BY <3>1, <3>5, <3>6 DEF Weighted, Relaxed
    <3>8. seen[y] \in Nat
      BY <3>7, SeenFacts
    <3>9. Least(k + 1)[y] = a + e.weight
      BY <3>1
    <3> HIDE DEF z, a
    <3>10. seen[y] <= a + e.weight
      BY <3>2, <3>3, <3>4, <3>7, <3>8
    <3> QED BY <3>7, <3>9, <3>10
  <2> QED BY <1>1, <2>1, <2>2
<1>4. \A k \in Nat : k \in G
  <2> HIDE DEF G
  <2> QED BY <1>2, <1>3, Numbers
<1> QED BY <1>4

\* What is taken off the heap: an item is skipped just when its node is done,
\* and has the cost of its node otherwise, which is the least there is.
LEMMA HeapPop ==
  ASSUME Types, q.algo \in Dijkstra, Weighted, todo = {}, NEW k \in 1 .. Len(work), ComesNext(k)
  PROVE  LET c == work[k][1]
             x == work[k][2]
         IN /\ c \in Nat /\ x \in Node /\ x \in Seen /\ at[1] <= c /\ seen[x] \in Nat /\ seen[x] <= c
            /\ \A j \in 1 .. Len(work) : c <= work[j][1]
            /\ Skips(work[k]) <=> x \in done
            /\ x \notin done => c = seen[x] /\ \A n \in Nat : Least(n)[x] # None => c <= Least(n)[x]
<1> DEFINE c == work[k][1]
           x == work[k][2]
<1>0. work \in Seq(Nat \X Node) /\ \A j \in 1 .. Len(work) : work[j] \in Nat \X Node
  BY WeightedKinds DEF Types
<1>1. /\ c \in Nat /\ x \in Node /\ x \in Seen /\ at[1] <= c /\ seen[x] <= c
      /\ x \in done => seen[x] < c
  BY <1>0 DEF Weighted, Heap
<1>2. seen[x] \in Nat
  BY <1>1, SeenFacts
<1>3. \A j \in 1 .. Len(work) : c <= work[j][1]
  <2> SUFFICES ASSUME NEW j \in 1 .. Len(work) PROVE c <= work[j][1]
    OBVIOUS
  <2>1. work[j][1] \in Nat
    BY <1>0
  <2>2. CASE j = k
    BY <1>1, <2>2
  <2>3. CASE j # k
    <3>1. c < work[j][1] \/ c = work[j][1]
      BY <2>3, WeightedKinds DEF ComesNext
    <3> HIDE DEF c
    <3> QED BY <1>1, <2>1, <3>1
  <2> QED BY <2>2, <2>3
<1>4. x \notin done => c = seen[x]
  <2> SUFFICES ASSUME x \notin done PROVE c = seen[x]
    OBVIOUS
  <2>1. PICK j \in 1 .. Len(work) : work[j] = <<seen[x], x>>
    BY <1>1 DEF Weighted, Heap
  <2>2. c <= seen[x]
    BY <1>3, <2>1
  <2> HIDE DEF c, x
  <2> QED BY <1>1, <1>2, <2>2
<1>5. Skips(work[k]) <=> x \in done
  <2>1. CASE q.algo = "dijkstra_path_csr"
    BY <2>1 DEF Skips
  <2>2. CASE q.algo \in {"dijkstra_path", "dijkstra_all"}
    <3>1. Skips(work[k]) <=> c > seen[x]
      BY <2>2 DEF Skips
    <3> HIDE DEF c, x
    <3> QED BY <1>1, <1>2, <1>4, <3>1
  <2> QED BY <2>1, <2>2, WeightedKinds
<1>6. ASSUME x \notin done, NEW n \in Nat, Least(n)[x] # None PROVE c <= Least(n)[x]
  <2>1. Least(n)[x] \in Nat
    <3>1. Least(n) \in [Node -> Nat \cup {None}]
      BY LeastFacts DEF Types
    <3> HIDE DEF x
    <3> QED BY <1>1, <1>6, <3>1
  <2>2. Least(n)[x] < c => seen[x] <= Least(n)[x]
    BY <1>1, <1>3, <1>6, HeapBelow
  <2> HIDE DEF c, x
  <2> QED BY <1>1, <1>2, <1>4, <1>6, <2>1, <2>2
<1> QED BY <1>1, <1>2, <1>3, <1>4, <1>5, <1>6

\* An item is taken off: its node is done, and its edges are to be looked at.
LEMMA WeightedTake ==
  ASSUME Types, q.algo \in Dijkstra, Weighted, todo = {}, NEW k \in 1 .. Len(work), ComesNext(k),
         work' = RemoveAt(work, k), at' = work[k],
         todo' = IF Skips(work[k]) THEN {} ELSE Out(work[k][2]),
         done' = done \cup {work[k][2]}, UNCHANGED <<edges, q, seen, parent, via>>,
         q.algo \in DijkstraPath => work[k][2] # q.dst
  PROVE  Weighted'
<1> DEFINE c == work[k][1]
           x == work[k][2]
<1>1. /\ c \in Nat /\ x \in Node /\ x \in Seen /\ at[1] <= c /\ seen[x] \in Nat /\ seen[x] <= c
      /\ \A j \in 1 .. Len(work) : c <= work[j][1]
      /\ Skips(work[k]) <=> x \in done
      /\ x \notin done => c = seen[x] /\ \A n \in Nat : Least(n)[x] # None => c <= Least(n)[x]
  BY HeapPop
<1>2. work \in Seq(Nat \X Node) /\ Len(work) \in Nat
  BY WeightedKinds DEF Types
<1>3. at'[1] = c /\ at'[2] = x /\ done' = done \cup {x} /\ todo' = IF x \in done THEN {} ELSE Out(x)
  BY <1>1
<1>4. work[k] = <<c, x>>
  <2>1. work[k] \in Nat \X Node
    BY <1>2
  <2> QED BY <2>1
<1> HIDE DEF c, x
<1>5. /\ Len(work') = Len(work) - 1
      /\ \A j \in 1 .. Len(work) - 1 : \E i \in 1 .. Len(work) :
           i = (IF j < k THEN j ELSE j + 1) /\ i # k /\ work'[j] = work[i]
      /\ \A i \in 1 .. Len(work) : i # k => \E j \in 1 .. Len(work) - 1 : work'[j] = work[i]
  BY <1>2, RemoveAtFacts, RemoveAtOthers
<1>6. Usable' = Usable /\ Seen' = Seen /\ (\A y : Out(y)' = Out(y))
      /\ (\A n : Least(n)' = Least(n)) /\ (\A n, y, v : Cheap(n, y, v)' <=> Cheap(n, y, v))
  BY Fixed, FixedLeast DEF Seen
<1>7. Count' = (IF x \in done THEN Count ELSE Count + 1) /\ Count \in Nat
  <2>1. CASE x \in done
    <3>1. done' = done
      BY <1>3, <2>1
    <3> QED BY <2>1, <3>1, SeenFacts DEF Count
  <2>2. CASE x \notin done
    BY <1>3, <2>2, SeenFacts, Counting DEF Count
  <2> QED BY <2>1, <2>2
<1>8. /\ edges \subseteq Universe /\ q \in Query /\ done \subseteq Seen /\ done \subseteq Node
      /\ Seen \subseteq Node /\ at[1] \in Nat /\ \A y \in Seen : seen[y] \in Nat
  BY SeenFacts DEF Types, Weighted, Tree
<1>9. Heap'
  <2>1. (\A j \in 1 .. Len(work) :
           /\ work[j][2] \in Seen /\ at[1] <= work[j][1] /\ seen[work[j][2]] <= work[j][1]
           /\ work[j][2] \in done => seen[work[j][2]] < work[j][1])'
    <3> SUFFICES ASSUME NEW j \in 1 .. Len(work) - 1
                 PROVE  /\ work'[j][2] \in Seen /\ c <= work'[j][1] /\ seen[work'[j][2]] <= work'[j][1]
                        /\ work'[j][2] \in done' => seen[work'[j][2]] < work'[j][1]
      BY <1>3, <1>5, <1>6
    <3>1. PICK i \in 1 .. Len(work) : i # k /\ work'[j] = work[i]
      BY <1>5
    <3>2. /\ work[i][2] \in Seen /\ seen[work[i][2]] <= work[i][1]
          /\ work[i][2] \in done => seen[work[i][2]] < work[i][1]
      BY DEF Weighted, Heap
    <3>3. c <= work[i][1] /\ work[i] \in Nat \X Node
      BY <1>1, <1>2
    <3>4. work[i][2] = x => seen[x] < work[i][1]
      <4> SUFFICES ASSUME work[i][2] = x, x \notin done PROVE seen[x] < work[i][1]
        BY <3>2
      <4>1. work[i] # work[k]
        BY <3>1 DEF Weighted, Heap
      <4>2. work[i] = <<work[i][1], work[i][2]>> /\ work[i][1] \in Nat
        BY <3>3
      <4>3. work[i][1] # c
        BY <1>4, <4>1, <4>2
      <4> QED BY <1>1, <3>3, <4>2, <4>3
    <3> QED BY <1>3, <3>1, <3>2, <3>3, <3>4
  <2>2. (\A i, j \in 1 .. Len(work) : work[i] = work[j] => i = j)'
    <3> SUFFICES ASSUME NEW i \in 1 .. Len(work) - 1, NEW j \in 1 .. Len(work) - 1, work'[i] = work'[j]
                 PROVE  i = j
      BY <1>5
    <3>1. PICK a \in 1 .. Len(work) : a = (IF i < k THEN i ELSE i + 1) /\ work'[i] = work[a]
      BY <1>5
    <3>2. PICK b \in 1 .. Len(work) : b = (IF j < k THEN j ELSE j + 1) /\ work'[j] = work[b]
      BY <1>5
    <3>3. a = b
      BY <3>1, <3>2 DEF Weighted, Heap
    <3> QED BY <3>1, <3>2, <3>3
  <2>3. (\A y \in Seen \ done : \E j \in 1 .. Len(work) : work[j] = <<seen[y], y>>)'
    <3> SUFFICES ASSUME NEW y \in Seen, y \notin done'
                 PROVE  \E j \in 1 .. Len(work) - 1 : work'[j] = <<seen[y], y>>
      BY <1>5, <1>6
    <3>1. y \notin done /\ y # x
      BY <1>3
    <3>2. PICK i \in 1 .. Len(work) : work[i] = <<seen[y], y>>
      BY <3>1 DEF Weighted, Heap
    <3>3. i # k
      BY <1>4, <3>1, <3>2
    <3> QED BY <1>5, <3>2, <3>3
  <2>4. (\A y \in done : seen[y] <= at[1])'
    <3> SUFFICES ASSUME NEW y \in done' PROVE seen[y] <= c
      BY <1>3
    <3>1. CASE y = x
      BY <1>1, <3>1
    <3>2. CASE y # x
      <4>1. y \in done
        BY <1>3, <3>2
      <4>2. seen[y] <= at[1] /\ seen[y] \in Nat
        BY <1>8, <4>1 DEF Weighted, Heap
      <4> QED BY <1>1, <1>8, <4>2
    <3> QED BY <3>1, <3>2
  <2>5. (q.algo \in DijkstraPath => q.dst \notin done)'
    BY <1>3 DEF Weighted, Heap, x
  <2> QED BY <2>1, <2>2, <2>3, <2>4, <2>5 DEF Heap
<1>10. Relaxing'
  <2> SUFFICES ASSUME todo' # {}
               PROVE (/\ at[2] \in done /\ seen[at[2]] = at[1] /\ todo \subseteq Out(at[2])
                      /\ Count >= 1 /\ Cheap(Count - 1, at[2], at[1]))'
    BY DEF Relaxing
  <2>1. x \notin done /\ todo' = Out(x) /\ c = seen[x]
    BY <1>1, <1>3
  <2>2. (Out(at[2]))' = Out(x)
    BY <1>3 DEF Out
  <2>3. Count' = Count + 1 /\ Count' - 1 = Count /\ Count' >= 1
    BY <1>7, <2>1
  <2>4. Cheap(Count, x, c)
    BY <1>1, <2>1 DEF Weighted, Costs
  <2>5. Cheap(Count - 1, at[2], at[1])'
    BY <1>3, <1>6, <2>3, <2>4 DEF Cheap, Least
  <2> QED BY <1>3, <2>1, <2>2, <2>3, <2>5
<1>11. Relaxed'
  <2> SUFFICES ASSUME NEW y \in done', NEW e \in Out(y), e \notin todo'
               PROVE  e.to \in Seen /\ seen[e.to] <= seen[y] + e.weight
    BY <1>6 DEF Relaxed
  <2>1. y \in done
    BY <1>3
  <2> QED BY <2>1 DEF Weighted, Relaxed
<1>12. Costs'
  <2>1. (\A y \in Seen : Cheap(Count, y, seen[y]))'
    <3> SUFFICES ASSUME NEW y \in Seen PROVE Cheap(Count', y, seen[y])
      BY <1>6 DEF Cheap, Least
    <3>1. Cheap(Count, y, seen[y]) /\ y \in Node /\ seen[y] \in Nat
      BY <1>8 DEF Weighted, Costs
    <3>2. Cheap(Count + 1, y, seen[y])
      BY <1>7, <1>8, <3>1, LeastFacts
    <3> QED BY <1>7, <3>1, <3>2
  <2>2. (\A y \in done : \A n \in Nat : Least(n)[y] # None => seen[y] <= Least(n)[y])'
    <3> SUFFICES ASSUME NEW y \in done', NEW n \in Nat, Least(n)[y] # None PROVE seen[y] <= Least(n)[y]
      BY <1>6
    <3>1. CASE y \in done
      BY <3>1 DEF Weighted, Costs
    <3>2. CASE y \notin done
      <4>1. y = x
        BY <1>3, <3>2
      <4> QED BY <1>1, <3>2, <4>1
    <3> QED BY <3>1, <3>2
  <2> QED BY <2>1, <2>2 DEF Costs
<1>13. Tree'
  BY <1>1, <1>3, <1>8, TreeKept DEF Weighted
<1>14. Ranked'
  <2>1. PICK rank, m : RankedBy(rank, m)
    BY DEF Weighted, Ranked
  <2>2. CASE x \in done
    <3>1. done' = done
      BY <1>3, <2>2
    <3>2. RankedBy(rank, m)'
      BY <2>1, <3>1 DEF RankedBy
    <3> QED BY <3>2 DEF Ranked
  <2>3. CASE x \notin done
    <3>0. /\ rank \in [Node -> Nat] /\ m \in Nat /\ m + 1 \in Nat
          /\ \A y \in Node : IF y \in done THEN rank[y] < m ELSE rank[y] = m
      BY <2>1 DEF RankedBy
    <3> DEFINE new == [y \in Node |-> IF y \in done' THEN rank[y] ELSE m + 1]
    <3>1. new \in [Node -> Nat]
      BY <3>0
    <3>2. \A y \in Node : IF y \in done' THEN new[y] = rank[y] ELSE new[y] = m + 1
      OBVIOUS
    <3> HIDE DEF new
    <3>3. ASSUME NEW y \in Node PROVE IF y \in done' THEN new[y] < m + 1 ELSE new[y] = m + 1
      <4>1. rank[y] \in Nat /\ (rank[y] < m \/ rank[y] = m)
        BY <3>0
      <4> QED BY <3>0, <3>2, <4>1
    <3>4. ASSUME NEW y \in Node, parent[y] # None PROVE new[parent[y]] < new[y]
      <4>1. parent[y] \in done /\ parent[y] \in Node
        BY <1>8, <3>4 DEF Weighted, Tree
      <4>2. new[parent[y]] = rank[parent[y]] /\ rank[parent[y]] < m /\ rank[parent[y]] \in Nat
        BY <1>3, <3>0, <3>2, <4>1
      <4>3. CASE y \in done'
        <5>1. new[y] = rank[y] /\ rank[parent[y]] < rank[y]
          BY <2>1, <3>2, <3>4, <4>3 DEF RankedBy
        <5> QED BY <4>2, <5>1
      <4>4. CASE y \notin done'
        <5>1. new[y] = m + 1
          BY <3>2, <4>4
        <5> QED BY <3>0, <4>2, <5>1
      <4> QED BY <4>3, <4>4
    <3>5. PICK r : r = new
      OBVIOUS
    <3>6. RankedBy(r, m + 1)'
      <4>1. (\A y \in Node : IF y \in done THEN r[y] < m + 1 ELSE r[y] = m + 1)'
        BY <3>3, <3>5
      <4>2. (\A y \in Node : parent[y] # None => r[parent[y]] < r[y])'
        BY <3>4, <3>5
      <4> QED BY <3>0, <3>1, <3>5, <4>1, <4>2 DEF RankedBy
    <3> QED BY <3>6 DEF Ranked
  <2> QED BY <2>2, <2>3
<1> QED BY <1>9, <1>10, <1>11, <1>12, <1>13, <1>14 DEF Weighted

\* An edge that leads to a node no more cheaply.
LEMMA WeightedSkip ==
  ASSUME Types, q.algo \in Dijkstra, Weighted, NEW e \in todo, todo' = todo \ {e},
         e.to \in Seen, seen[e.to] <= at[1] + e.weight,
         UNCHANGED <<edges, q, work, at, seen, parent, via, done>>
  PROVE  Weighted'
<1>1. Usable' = Usable /\ Seen' = Seen /\ (\A y : Out(y)' = Out(y)) /\ Count' = Count
      /\ (\A n : Least(n)' = Least(n)) /\ (\A n, y, v : Cheap(n, y, v)' <=> Cheap(n, y, v))
  BY Fixed, FixedLeast DEF Seen, Count
<1>2. Heap'
  BY <1>1 DEF Weighted, Heap
<1>3. Relaxing'
  <2>1. (Out(at[2]))' = Out(at[2]) /\ (Cheap(Count - 1, at[2], at[1])' <=> Cheap(Count - 1, at[2], at[1]))
    BY <1>1 DEF Out, Cheap, Least
  <2> QED BY <1>1, <2>1 DEF Weighted, Relaxing
<1>4. Relaxed'
  <2> SUFFICES ASSUME NEW y \in done, NEW f \in Out(y), f \notin todo'
               PROVE  f.to \in Seen /\ seen[f.to] <= seen[y] + f.weight
    BY <1>1 DEF Relaxed
  <2>1. CASE f # e
    BY <2>1 DEF Weighted, Relaxed
  <2>2. CASE f = e
    <3>1. e \in Out(at[2]) /\ seen[at[2]] = at[1]
      BY DEF Weighted, Relaxing
    <3>2. y = at[2]
      BY <2>2, <3>1, OutFacts
    <3> QED BY <2>2, <3>1, <3>2
  <2> QED BY <2>1, <2>2
<1>5. Costs'
  <2>1. (\A y \in Seen : Cheap(Count, y, seen[y]))'
    BY <1>1 DEF Weighted, Costs, Cheap, Least
  <2> QED BY <1>1, <2>1 DEF Weighted, Costs
<1>6. Tree'
  BY TreeKept DEF Weighted, Tree
<1>7. Ranked'
  BY DEF Weighted, Ranked, RankedBy
<1> QED BY <1>2, <1>3, <1>4, <1>5, <1>6, <1>7 DEF Weighted

\* An edge that leads to a node more cheaply: the node's cost falls, and the
\* items the heap already has for it are stale.
LEMMA WeightedLook ==
  ASSUME Types, q.algo \in Dijkstra, Weighted, NEW e \in todo, todo' = todo \ {e},
         e.to \notin Seen \/ at[1] + e.weight < seen[e.to],
         seen' = [seen EXCEPT ![e.to] = at[1] + e.weight],
         parent' = [parent EXCEPT ![e.to] = at[2]], via' = [via EXCEPT ![e.to] = e.rel],
         work' = Append(work, <<at[1] + e.weight, e.to>>), UNCHANGED <<edges, q, at, done>>
  PROVE  Weighted'
<1> DEFINE y == e.to
           x == at[2]
           c == at[1] + e.weight
           n == Len(work)
<1>1. /\ x \in done /\ seen[x] = at[1] /\ e \in Out(x) /\ Count >= 1 /\ Cheap(Count - 1, x, at[1])
      /\ \A f \in todo : f \in Out(x)
  BY DEF Weighted, Relaxing
<1>2. /\ edges \subseteq Universe /\ q \in Query /\ e \in edges /\ e \in Usable /\ e.from = x
      /\ y \in Node /\ e.weight \in Nat /\ x \in Node /\ at[1] \in Nat /\ Count \in Nat
      /\ done \subseteq Seen /\ Seen \subseteq Node /\ \A z \in Seen : seen[z] \in Nat
  BY <1>1, OutFacts, Given, SeenFacts DEF Types, Weighted, Tree
<1>3. c \in Nat /\ at[1] <= c
  BY <1>2
<1>4. y \notin done /\ y # q.src
  <2>1. y \notin done
    <3> SUFFICES ASSUME y \in done PROVE FALSE
      OBVIOUS
    <3>1. seen[y] <= at[1] /\ seen[y] \in Nat /\ c < seen[y]
      BY <1>2 DEF Weighted, Heap
    <3> HIDE DEF c
    <3> QED BY <1>2, <1>3, <3>1
  <2>2. y # q.src
    <3> SUFFICES ASSUME y = q.src PROVE FALSE
      OBVIOUS
    <3>1. seen[y] = 0 /\ c < seen[y]
      BY DEF Weighted, Tree
    <3> HIDE DEF c
    <3> QED BY <1>3, <3>1
  <2> QED BY <2>1, <2>2
<1>5. Tree' /\ Seen' = Seen \cup {y}
  <2>1. Length(e) = e.weight
    BY DEF Length
  <2>2. c = seen[at[2]] + Length(e)
    BY <1>1, <2>1
  <2>3. PICK v : v = c
    OBVIOUS
  <2>4. seen' = [seen EXCEPT ![e.to] = v] /\ v \in Nat /\ v = seen[at[2]] + Length(e)
    BY <1>3, <2>2, <2>3
  <2> QED BY <1>1, <1>4, <2>4, TreeGrows DEF Weighted
<1>6. Usable' = Usable /\ (\A z : Out(z)' = Out(z)) /\ Count' = Count
      /\ (\A k : Least(k)' = Least(k)) /\ (\A k, z, v : Cheap(k, z, v)' <=> Cheap(k, z, v))
  BY Fixed, FixedLeast DEF Count
<1>7. /\ \A z \in Node : z # y => seen'[z] = seen[z] /\ parent'[z] = parent[z]
      /\ seen'[y] = c /\ parent'[y] = x
  BY <1>2 DEF Types
<1>8. /\ work \in Seq(Nat \X Node) /\ n \in Nat /\ Len(work') = n + 1 /\ work'[n + 1] = <<c, y>>
      /\ \A j \in 1 .. n : work'[j] = work[j]
      /\ \A j \in 1 .. n + 1 : j \in 1 .. n \/ j = n + 1
      /\ \A j \in 1 .. n : work[j] \in Nat \X Node
  <2>0. work \in Seq(Nat \X Node)
    BY WeightedKinds DEF Types
  <2>1. <<c, y>> \in Nat \X Node
    BY <1>2, <1>3
  <2>2. work' = Append(work, <<c, y>>)
    OBVIOUS
  <2> HIDE DEF c, y
  <2> QED BY <2>0, <2>1, <2>2, AppendFacts
<1>9. \A j \in 1 .. n : work[j][2] = y => c < work[j][1]
  <2> SUFFICES ASSUME NEW j \in 1 .. n, work[j][2] = y PROVE c < work[j][1]
    OBVIOUS
  <2>1. y \in Seen /\ seen[y] <= work[j][1]
    BY DEF Weighted, Heap
  <2>2. c < seen[y] /\ seen[y] \in Nat /\ work[j][1] \in Nat
    BY <1>2, <1>8, <2>1
  <2> HIDE DEF c, y
  <2> QED BY <1>3, <2>1, <2>2
<1>10. \A z \in Seen : z # y => seen'[z] = seen[z]
  BY <1>2, <1>7
<1>11. /\ UNCHANGED <<edges, q, at, done>> /\ todo' = todo \ {e}
       /\ y = e.to /\ x = at[2] /\ c = at[1] + e.weight
       /\ y \notin Seen \/ c < seen[y]
  OBVIOUS
<1> HIDE DEF c, y, x, n
<1>12. Heap'
  <2>1. (\A j \in 1 .. Len(work) :
           /\ work[j][2] \in Seen /\ at[1] <= work[j][1] /\ seen[work[j][2]] <= work[j][1]
           /\ work[j][2] \in done => seen[work[j][2]] < work[j][1])'
    <3> SUFFICES ASSUME NEW j \in 1 .. n + 1
                 PROVE  /\ work'[j][2] \in Seen' /\ at[1] <= work'[j][1]
                        /\ seen'[work'[j][2]] <= work'[j][1]
                        /\ work'[j][2] \in done => seen'[work'[j][2]] < work'[j][1]
      BY <1>8, <1>11
    <3>1. CASE j = n + 1
      <4>1. work'[j] = <<c, y>>
        BY <1>8, <3>1
      <4>2. work'[j][1] = c /\ work'[j][2] = y
        <5>1. <<c, y>>[1] = c /\ <<c, y>>[2] = y
          OBVIOUS
        <5> QED BY <4>1, <5>1, Zenon
      <4>3. y \in Seen' /\ seen'[y] = c /\ y \notin done
        BY <1>4, <1>5, <1>7
      <4>4. at[1] <= c /\ c <= c
        BY <1>3
      <4> QED BY <4>2, <4>3, <4>4
    <3>2. CASE j \in 1 .. n
      <4>1. /\ work'[j] = work[j] /\ work[j][2] \in Seen /\ at[1] <= work[j][1]
            /\ seen[work[j][2]] <= work[j][1] /\ work[j][1] \in Nat
            /\ work[j][2] \in done => seen[work[j][2]] < work[j][1]
        BY <1>8, <3>2 DEF Weighted, Heap, n
      <4>2. CASE work[j][2] = y
        <5>1. c < work[j][1]
          BY <1>9, <3>2, <4>2
        <5>2. c <= work[j][1]
          BY <1>3, <4>1, <5>1
        <5>3. y \in Seen' /\ seen'[y] = c /\ y \notin done
          BY <1>4, <1>5, <1>7
        <5> QED BY <4>1, <4>2, <5>2, <5>3
      <4>3. CASE work[j][2] # y
        BY <1>5, <1>10, <4>1, <4>3
      <4> QED BY <4>2, <4>3
    <3> QED BY <1>8, <3>1, <3>2
  <2>2. (\A i, j \in 1 .. Len(work) : work[i] = work[j] => i = j)'
    <3>0. \A i \in 1 .. n : work'[i] # <<c, y>>
      <4> SUFFICES ASSUME NEW i \in 1 .. n, work[i] = <<c, y>> PROVE FALSE
        BY <1>8
      <4>1. c < c
        BY <1>9
      <4> QED BY <1>3, <4>1
    <3> SUFFICES ASSUME NEW i \in 1 .. n + 1, NEW j \in 1 .. n + 1, work'[i] = work'[j] PROVE i = j
      BY <1>8
    <3>1. CASE i \in 1 .. n /\ j \in 1 .. n
      BY <1>8, <3>1 DEF Weighted, Heap, n
    <3>2. CASE i = n + 1 \/ j = n + 1
      BY <1>8, <3>0, <3>2
    <3> QED BY <1>8, <3>1, <3>2
  <2>3. (\A z \in Seen \ done : \E j \in 1 .. Len(work) : work[j] = <<seen[z], z>>)'
    <3> SUFFICES ASSUME NEW z \in Seen', z \notin done
                 PROVE  \E j \in 1 .. n + 1 : work'[j] = <<seen'[z], z>>
      BY <1>8, <1>11
    <3>1. CASE z = y
      <4>1. n + 1 \in 1 .. n + 1 /\ work'[n + 1] = <<seen'[z], z>>
        BY <1>7, <1>8, <3>1
      <4> QED BY <4>1
    <3>2. CASE z # y
      <4>1. z \in Seen /\ seen'[z] = seen[z]
        BY <1>5, <1>10, <3>2
      <4>2. PICK j \in 1 .. n : work[j] = <<seen[z], z>>
        BY <4>1 DEF Weighted, Heap, n
      <4>3. j \in 1 .. n + 1 /\ work'[j] = <<seen'[z], z>>
        BY <1>8, <4>1, <4>2
      <4> QED BY <4>3
    <3> QED BY <3>1, <3>2
  <2>4. (\A z \in done : seen[z] <= at[1])'
    <3> SUFFICES ASSUME NEW z \in done PROVE seen'[z] <= at[1]
      BY <1>11
    <3>1. z # y /\ z \in Seen
      BY <1>2, <1>4
    <3> QED BY <1>10, <3>1 DEF Weighted, Heap
  <2>5. (q.algo \in DijkstraPath => q.dst \notin done)'
    BY <1>11 DEF Weighted, Heap
  <2> QED BY <2>1, <2>2, <2>3, <2>4, <2>5 DEF Heap
<1>13. Relaxing'
  <2>1. (Out(at[2]))' = Out(x)
    BY <1>11 DEF Out
  <2>2. Cheap(Count - 1, at[2], at[1])'
    BY <1>1, <1>6, <1>11 DEF Cheap, Least
  <2>3. seen'[x] = at[1]
    BY <1>1, <1>2, <1>4, <1>10
  <2> QED BY <1>1, <1>6, <1>11, <2>1, <2>2, <2>3 DEF Relaxing
<1>14. Relaxed'
  <2> SUFFICES ASSUME NEW z \in done, NEW f \in Out(z), f \notin todo'
               PROVE  f.to \in Seen' /\ seen'[f.to] <= seen'[z] + f.weight
    BY <1>6, <1>11 DEF Relaxed
  <2>0. seen'[z] = seen[z] /\ seen[z] \in Nat /\ f.weight \in Nat
    <3>1. f \in edges
      BY OutFacts
    <3> QED BY <1>2, <1>4, <1>10, <3>1, Given
  <2>1. CASE f = e
    <3>1. z = x
      BY <1>1, <2>1, OutFacts
    <3> QED BY <1>1, <1>5, <1>7, <1>11, <2>0, <2>1, <3>1
  <2>2. CASE f # e
    <3>1. f.to \in Seen /\ seen[f.to] <= seen[z] + f.weight
      BY <1>11, <2>2 DEF Weighted, Relaxed
    <3>2. CASE f.to # y
      BY <1>5, <1>10, <2>0, <3>1, <3>2
    <3>3. CASE f.to = y
      <4>1. c < seen[y] /\ seen[y] \in Nat
        BY <1>2, <1>11, <3>1, <3>3
      <4>2. c <= seen[z] + f.weight
        BY <1>3, <2>0, <3>1, <3>3, <4>1
      <4> QED BY <1>5, <1>7, <2>0, <3>3, <4>2
    <3> QED BY <3>2, <3>3
  <2> QED BY <2>1, <2>2
<1>15. Costs'
  <2>1. (\A z \in Seen : Cheap(Count, z, seen[z]))'
    <3> SUFFICES ASSUME NEW z \in Seen' PROVE Cheap(Count, z, seen'[z])
      BY <1>6 DEF Cheap, Least
    <3>1. CASE z = y
      <4>1. Count - 1 \in Nat /\ (Count - 1) + 1 = Count
        BY <1>1, <1>2
      <4>2. Cheap((Count - 1) + 1, e.to, at[1] + e.weight)
        BY <1>1, <1>2, <4>1, LeastFacts
      <4> QED BY <1>7, <1>11, <3>1, <4>1, <4>2
    <3>2. CASE z # y
      <4>1. z \in Seen
        BY <1>5, <3>2
      <4> QED BY <1>10, <3>2, <4>1 DEF Weighted, Costs
    <3> QED BY <3>1, <3>2
  <2>2. (\A z \in done : \A k \in Nat : Least(k)[z] # None => seen[z] <= Least(k)[z])'
    <3> SUFFICES ASSUME NEW z \in done, NEW k \in Nat, Least(k)[z] # None PROVE seen'[z] <= Least(k)[z]
      BY <1>6, <1>11
    <3>1. seen'[z] = seen[z]
      BY <1>2, <1>4, <1>10
    <3> QED BY <3>1 DEF Weighted, Costs
  <2> QED BY <2>1, <2>2 DEF Costs
<1>16. Ranked'
  <2>1. PICK rank, m : RankedBy(rank, m)
    BY DEF Weighted, Ranked
  <2>2. (\A z \in Node : IF z \in done THEN rank[z] < m ELSE rank[z] = m)'
    BY <1>11, <2>1 DEF RankedBy
  <2>3. (\A z \in Node : parent[z] # None => rank[parent[z]] < rank[z])'
    <3> SUFFICES ASSUME NEW z \in Node, parent'[z] # None PROVE rank[parent'[z]] < rank[z]
      OBVIOUS
    <3>1. CASE z = y
      BY <1>1, <1>2, <1>4, <1>7, <2>1, <3>1 DEF RankedBy
    <3>2. CASE z # y
      BY <1>7, <2>1, <3>2 DEF RankedBy
    <3> QED BY <3>1, <3>2
  <2>4. RankedBy(rank, m)'
    BY <2>1, <2>2, <2>3 DEF RankedBy
  <2> QED BY <2>4 DEF Ranked
<1> QED BY <1>5, <1>12, <1>13, <1>14, <1>15, <1>16 DEF Weighted

\* DijkstraExact of the value r.
DijkstraAnswer(r) ==
  /\ q.algo \in DijkstraPath =>
       IF q.dst \notin Node \/ Cheapest(N)[q.dst] = None THEN r = NoPath
       ELSE /\ IsPath(r) /\ r.cost = Cheapest(N)[q.dst]
            /\ \A k \in 1 .. Len(r.nodes) - 1 :
                 \E e \in Usable :
                   /\ e.from = r.nodes[k] /\ e.to = r.nodes[k + 1]
                   /\ Cheapest(N)[e.to] = Cheapest(N)[e.from] + e.weight
  /\ q.algo = "dijkstra_all" => r.dist = Cheapest(N)

\* The weighted queries while they run and when they have returned.
DijkstraInv ==
  q.algo \in Dijkstra => (result = None => Weighted) /\ (result # None => DijkstraAnswer(result))

\* The answer depends on the graph, the query and the value returned.
LEMMA AnswerKept ==
  ASSUME UNCHANGED <<edges, q>>, NEW r, DijkstraAnswer(r), result' = r PROVE DijkstraAnswer(result)'
<1>1. Usable' = Usable /\ N' = N /\ NoPath' = NoPath
  BY Fixed DEF N, NoPath
<1>2. Cheapest(N)' = Cheapest(N)
  BY DEF Cheapest, Usable, N
<1>3. IsPath(result)' <=> IsPath(r)
  BY <1>1 DEF IsPath, Last
<1> QED BY <1>1, <1>2, <1>3 DEF DijkstraAnswer

\* Nodes that are done have their least cost.
LEMMA DoneLeast ==
  ASSUME Types, Weighted, NEW x \in Seen,
         \A k \in Nat : Least(k)[x] # None => seen[x] <= Least(k)[x]
  PROVE  Least(N)[x] = seen[x]
<1>1. x \in Node /\ seen[x] \in Nat /\ Count \in Nat /\ N \in Nat /\ Count <= N
  BY SeenFacts
<1>2. Cheap(Count, x, seen[x])
  BY DEF Weighted, Costs
<1>3. Cheap(N, x, seen[x])
  BY <1>1, <1>2, CheapMono DEF Types
<1>4. Least(N)[x] # None /\ Least(N)[x] <= seen[x] /\ seen[x] <= Least(N)[x]
  BY <1>1, <1>3 DEF Cheap
<1>5. Least(N)[x] \in Nat
  <2>1. Least(N) \in [Node -> Nat \cup {None}]
    BY <1>1, LeastFacts DEF Types
  <2> QED BY <1>1, <1>4, <2>1
<1> QED BY <1>1, <1>4, <1>5

\* The path returned when the target is taken off the heap.
LEMMA WeightedHit ==
  ASSUME Types, q.algo \in DijkstraPath, Weighted, todo = {}, NEW k \in 1 .. Len(work), ComesNext(k),
         work[k][2] = q.dst
  PROVE  LET c == IF q.algo \in Csr THEN seen[q.dst] ELSE work[k][1]
             r == Found(q.dst, parent, via, c)
         IN r # None /\ DijkstraAnswer(r)
<1> DEFINE c == IF q.algo \in Csr THEN seen[q.dst] ELSE work[k][1]
<1>0. q.algo \in Dijkstra /\ q.algo # "dijkstra_all"
  BY DEF Dijkstra, DijkstraPath
<1>1. q.dst \notin done
  BY DEF Weighted, Heap
<1>2. /\ work[k][1] = seen[q.dst] /\ seen[q.dst] \in Nat /\ q.dst \in Seen /\ q.dst \in Node
      /\ \A n \in Nat : Least(n)[q.dst] # None => seen[q.dst] <= Least(n)[q.dst]
  BY <1>0, <1>1, HeapPop
<1>3. c = seen[q.dst]
  BY <1>2
<1>4. PICK v \in Nat : v = seen[q.dst]
  BY <1>2
<1> DEFINE r == Found(q.dst, parent, via, v)
           p == PathTo(q.dst, parent)
<1>5. PICK rank, m : RankedBy(rank, m)
  BY DEF Weighted, Ranked
<1>6. RankOf(parent, rank, m)
  <2>1. \A x \in Node : rank[x] <= m
    <3> SUFFICES ASSUME NEW x \in Node PROVE rank[x] <= m
      OBVIOUS
    <3>1. rank[x] \in Nat /\ m \in Nat /\ (rank[x] < m \/ rank[x] = m)
      BY <1>5 DEF RankedBy
    <3> QED BY <3>1
  <2> QED BY <1>5, <2>1 DEF RankedBy, RankOf, Types
<1>7. IsPath(r) /\ r # None
  BY <1>2, <1>6, FoundPath DEF Weighted
<1>8. /\ p \in Seq(Node) /\ Len(p) > 0 /\ p[1] = q.src /\ p[Len(p)] = q.dst
      /\ \A i \in 1 .. Len(p) - 1 :
           /\ p[i] \in Node /\ p[i + 1] \in Node /\ p[i] \in done /\ p[i + 1] \in Seen
           /\ \E e \in Usable : /\ e.from = p[i] /\ e.to = p[i + 1] /\ e.rel = via[p[i + 1]]
                                /\ seen[p[i + 1]] = seen[p[i]] + Length(e)
  BY <1>2, <1>6, TreePath DEF Weighted
<1>9. r.nodes = p /\ r.cost = v
  BY DEF Found
<1> HIDE DEF p, r
<1>10. Least(N)[q.dst] = seen[q.dst] /\ Least(N)[q.dst] # None
  BY <1>2, DoneLeast, NoneAssumption
<1>11. ASSUME NEW x \in done PROVE Least(N)[x] = seen[x]
  <2>1. x \in Seen /\ \A n \in Nat : Least(n)[x] # None => seen[x] <= Least(n)[x]
    BY DEF Weighted, Costs, Tree
  <2> QED BY <2>1, DoneLeast
<1>12. ASSUME NEW i \in 1 .. Len(p) - 1
       PROVE  \E e \in Usable : /\ e.from = p[i] /\ e.to = p[i + 1]
                                /\ Least(N)[e.to] = Least(N)[e.from] + e.weight
  <2>1. PICK e \in Usable : /\ e.from = p[i] /\ e.to = p[i + 1]
                            /\ seen[p[i + 1]] = seen[p[i]] + Length(e)
    BY <1>8
  <2>2. Length(e) = e.weight
    BY <1>0 DEF Length
  <2>3. Least(N)[p[i]] = seen[p[i]]
    BY <1>8, <1>11
  <2>4. Least(N)[p[i + 1]] = seen[p[i + 1]]
    <3>1. Len(p) \in Nat
      BY <1>8
    <3>2. CASE i + 1 = Len(p)
      BY <1>8, <1>10, <3>2
    <3>3. CASE i + 1 # Len(p)
      <4>1. i + 1 \in 1 .. Len(p) - 1
        BY <3>1, <3>3
      <4> QED BY <1>8, <1>11, <4>1
    <3> QED BY <3>2, <3>3
  <2> QED BY <2>1, <2>2, <2>3, <2>4
<1>13. Cheapest(N) = Least(N)
  BY CheapestIs
<1>14. DijkstraAnswer(r)
  <2>1. q.dst \in Node /\ Cheapest(N)[q.dst] # None /\ r.cost = Cheapest(N)[q.dst]
    BY <1>2, <1>4, <1>9, <1>10, <1>13
  <2>2. \A i \in 1 .. Len(r.nodes) - 1 : \E e \in Usable :
          /\ e.from = r.nodes[i] /\ e.to = r.nodes[i + 1]
          /\ Cheapest(N)[e.to] = Cheapest(N)[e.from] + e.weight
    BY <1>9, <1>12, <1>13
  <2> QED BY <1>0, <1>7, <2>1, <2>2 DEF DijkstraAnswer
<1>15. r # None /\ DijkstraAnswer(r)
  BY <1>7, <1>14
<1>16. Found(q.dst, parent, via, c) = r
  <2>1. c = v
    BY <1>3, <1>4
  <2> HIDE DEF c
  <2> QED BY <2>1 DEF r
<1> QED BY <1>15, <1>16

\* What is returned when the heap has run empty.
LEMMA WeightedEnd ==
  ASSUME Types, q.algo \in Dijkstra, Weighted, todo = {}, work = <<>>
  PROVE  DijkstraAnswer(Exhausted)
<1>0. N \in Nat /\ Len(work) = 0 /\ done \subseteq Seen /\ Seen \subseteq Node /\ Cheapest(N) = Least(N)
  BY SeenFacts, CheapestIs DEF Weighted, Tree
<1>a. Least(N) \in [Node -> Nat \cup {None}] /\ None \notin Nat
  BY <1>0, LeastFacts, NoneAssumption DEF Types
<1>1. Seen = done
  <2>1. \A k \in 1 .. Len(work) : FALSE
    BY <1>0
  <2> QED BY <1>0, <2>1 DEF Weighted, Heap
<1>2. ASSUME NEW y \in Node, Least(N)[y] # None PROVE y \in Seen
  <2>1. PICK c \in Nat : c = Least(N)[y] + 1
    BY <1>a, <1>2
  <2>2. Least(N)[y] < c /\ \A k \in 1 .. Len(work) : c <= work[k][1]
    BY <1>0, <1>a, <1>2, <2>1
  <2> QED BY <1>0, <1>2, <2>2, HeapBelow
<1>3. ASSUME NEW y \in Node PROVE seen[y] = Least(N)[y]
  <2>1. CASE y \in Seen
    <3>1. \A n \in Nat : Least(n)[y] # None => seen[y] <= Least(n)[y]
      BY <1>1, <2>1 DEF Weighted, Costs
    <3> QED BY <2>1, <3>1, DoneLeast
  <2>2. CASE y \notin Seen
    BY <1>2, <2>2 DEF Seen
  <2> QED BY <2>1, <2>2
<1>4. seen = Least(N)
  <2>1. seen \in [Node -> Nat \cup {None}]
    BY DEF Types
  <2> QED BY <1>3, <1>a, <2>1
<1>5. CASE q.algo \in DijkstraPath
  <2>1. q.algo # "dijkstra_all" /\ Exhausted = NoPath
    BY <1>5 DEF Exhausted, DijkstraPath
  <2>2. q.dst \notin Seen
    BY <1>1, <1>5 DEF Weighted, Heap
  <2>3. q.dst \notin Node \/ Cheapest(N)[q.dst] = None
    BY <1>0, <1>2, <2>2
  <2> QED BY <2>1, <2>3 DEF DijkstraAnswer
<1>6. CASE q.algo = "dijkstra_all"
  <2>1. q.algo \notin DijkstraPath /\ Exhausted = [dist |-> seen, parent |-> parent]
    BY <1>6 DEF Exhausted, DijkstraPath
  <2>2. Exhausted.dist = Cheapest(N)
    BY <1>0, <1>4, <2>1
  <2> QED BY <2>1, <2>2 DEF DijkstraAnswer
<1> QED BY <1>5, <1>6, WeightedKinds

\* Weighted is about these variables only.
LEMMA WeightedSame ==
  ASSUME Weighted, UNCHANGED <<edges, q, work, at, todo, seen, parent, via, done>> PROVE Weighted'
<1>1. Usable' = Usable /\ Seen' = Seen /\ (\A y : Out(y)' = Out(y)) /\ Count' = Count
      /\ (\A n : Least(n)' = Least(n)) /\ (\A n, y, v : Cheap(n, y, v)' <=> Cheap(n, y, v))
  BY Fixed, FixedLeast DEF Seen, Count
<1>2. Heap' /\ Relaxed'
  BY <1>1 DEF Weighted, Heap, Relaxed
<1>3. Relaxing'
  <2>1. (Out(at[2]))' = Out(at[2]) /\ (Cheap(Count - 1, at[2], at[1])' <=> Cheap(Count - 1, at[2], at[1]))
    BY <1>1 DEF Out, Cheap, Least
  <2> QED BY <1>1, <2>1 DEF Weighted, Relaxing
<1>5. Costs'
  <2>1. (\A y \in Seen : Cheap(Count, y, seen[y]))'
    BY <1>1 DEF Weighted, Costs, Cheap, Least
  <2> QED BY <1>1, <2>1 DEF Weighted, Costs
<1>6. Tree'
  BY TreeKept DEF Weighted, Tree
<1>7. Ranked'
  BY DEF Weighted, Ranked, RankedBy
<1> QED BY <1>2, <1>3, <1>5, <1>6, <1>7 DEF Weighted

\* A step keeps the promise.
LEMMA DijkstraStep == ASSUME Types, DijkstraInv, [Next]_vars PROVE DijkstraInv'
<1> SUFFICES ASSUME q'.algo \in Dijkstra PROVE DijkstraInv'
  BY DEF DijkstraInv
<1>0. q' = q /\ edges' = edges
  BY DEF Next, AtOnce, Take, Look, Root, Visit, vars
<1>1. q.algo \in Dijkstra
  BY <1>0
<1>2. CASE AtOnce
  <2>1. /\ result = None /\ (Unknown \/ Same)
        /\ result' = IF Unknown THEN NoPath ELSE [NoPath EXCEPT !.nodes = <<q.src>>]
        /\ UNCHANGED <<edges, q, work, at, todo, seen, parent, via, done, out>>
    BY <1>2 DEF AtOnce
  <2>2. Weighted'
    BY <1>1, <2>1, WeightedSame DEF DijkstraInv
  <2>3. Unknown
    BY <1>1, <2>1, WeightedKinds DEF Same
  <2>4. q.dst \notin Node /\ q.algo # "dijkstra_all"
    BY <2>3 DEF Unknown, Csr
  <2>5. DijkstraAnswer(NoPath)
    BY <2>4 DEF DijkstraAnswer
  <2>6. PICK r : r = NoPath
    OBVIOUS
  <2>7. DijkstraAnswer(r) /\ result' = r
    BY <2>1, <2>3, <2>5, <2>6
  <2>8. DijkstraAnswer(result)'
    BY <1>0, <2>7, AnswerKept
  <2> QED BY <2>2, <2>8 DEF DijkstraInv
<1>3. CASE Take
  <2>0. /\ result = None /\ todo = {} /\ Weighted /\ UNCHANGED <<edges, q, seen, parent, via>>
    BY <1>1, <1>3 DEF Take, DijkstraInv
  <2>1. CASE work = <<>>
    <3>1. result' = Exhausted /\ UNCHANGED <<work, at, todo, done, out>>
      BY <1>3, <2>1 DEF Take
    <3>2. Weighted'
      BY <2>0, <3>1, WeightedSame
    <3>3. DijkstraAnswer(Exhausted)
      BY <1>1, <2>0, <2>1, WeightedEnd
    <3>4. PICK r : r = Exhausted
      OBVIOUS
    <3>5. DijkstraAnswer(r) /\ result' = r
      BY <3>1, <3>3, <3>4
    <3>6. DijkstraAnswer(result)'
      BY <1>0, <3>5, AnswerKept
    <3> QED BY <3>2, <3>6 DEF DijkstraInv
  <2>2. CASE work # <<>>
    <3>1. PICK k \in 1 .. Len(work) :
            /\ ComesNext(k) /\ work' = RemoveAt(work, k) /\ at' = work[k]
            /\ IF q.algo \in DijkstraPath /\ work[k][2] = q.dst
               THEN result' = Found(q.dst, parent, via,
                                    IF q.algo \in Csr THEN seen[q.dst] ELSE work[k][1])
               ELSE /\ todo' = IF Skips(work[k]) THEN {} ELSE Out(work[k][2])
                    /\ done' = done \cup {work[k][2]}
                    /\ UNCHANGED result
      BY <1>3, <2>2 DEF Take, Popped
    <3>2. CASE q.algo \in DijkstraPath /\ work[k][2] = q.dst
      <4>1. PICK r : r = Found(q.dst, parent, via, IF q.algo \in Csr THEN seen[q.dst] ELSE work[k][1])
        OBVIOUS
      <4>2. r # None /\ DijkstraAnswer(r)
        BY <2>0, <3>1, <3>2, <4>1, WeightedHit
      <4>3. result' = r
        BY <3>1, <3>2, <4>1
      <4>4. DijkstraAnswer(result)'
        BY <1>0, <4>2, <4>3, AnswerKept
      <4> QED BY <4>2, <4>3, <4>4 DEF DijkstraInv
    <3>3. CASE ~(q.algo \in DijkstraPath /\ work[k][2] = q.dst)
      <4>1. /\ todo' = IF Skips(work[k]) THEN {} ELSE Out(work[k][2])
            /\ done' = done \cup {work[k][2]} /\ result' = result
        BY <3>1, <3>3
      <4>2. Weighted'
        BY <1>1, <2>0, <3>1, <3>3, <4>1, WeightedTake
      <4> QED BY <2>0, <4>1, <4>2 DEF DijkstraInv
    <3> QED BY <3>2, <3>3
  <2> QED BY <2>1, <2>2
<1>4. CASE Look
  <2>0. result = None /\ Weighted /\ UNCHANGED <<edges, q, at, done>>
    BY <1>1, <1>4 DEF Look, DijkstraInv
  <2>1. \A e : /\ Cost(e) = at[1] + e.weight
               /\ Accepts(e) <=> seen[e.to] = None \/ at[1] + e.weight < seen[e.to]
    BY <1>1, WeightedKinds DEF Accepts, Cost
  <2>2. PICK e \in todo :
          /\ todo' = todo \ {e}
          /\ IF seen[e.to] = None \/ at[1] + e.weight < seen[e.to]
             THEN /\ seen' = [seen EXCEPT ![e.to] = at[1] + e.weight]
                  /\ parent' = [parent EXCEPT ![e.to] = at[2]]
                  /\ via' = [via EXCEPT ![e.to] = e.rel]
                  /\ work' = Append(work, <<at[1] + e.weight, e.to>>) /\ UNCHANGED result
             ELSE UNCHANGED <<seen, parent, via, work, out, result>>
    BY <1>1, <1>4, <2>1, WeightedKinds DEF Look
  <2>3. e.to \in Node /\ e.weight \in Nat
    BY <1>1, WeightedKinds, Given DEF Types
  <2>4. CASE seen[e.to] = None \/ at[1] + e.weight < seen[e.to]
    <3>1. e.to \notin Seen \/ at[1] + e.weight < seen[e.to]
      BY <2>4 DEF Seen
    <3>2. Weighted' /\ result' = result
      BY <1>1, <2>0, <2>2, <2>4, <3>1, WeightedLook
    <3> QED BY <2>0, <3>2 DEF DijkstraInv
  <2>5. CASE ~(seen[e.to] = None \/ at[1] + e.weight < seen[e.to])
    <3>1. e.to \in Seen
      BY <2>3, <2>5 DEF Seen
    <3>2. seen[e.to] <= at[1] + e.weight
      <4>1. seen[e.to] \in Nat /\ at[1] \in Nat
        BY <3>1, SeenFacts
      <4> QED BY <2>3, <2>5, <4>1
    <3>3. UNCHANGED <<seen, parent, via, work, out, result>>
      BY <2>2, <2>5
    <3>4. Weighted'
      BY <1>1, <2>0, <2>2, <3>1, <3>2, <3>3, WeightedSkip
    <3> QED BY <2>0, <3>3, <3>4 DEF DijkstraInv
  <2> QED BY <2>4, <2>5
<1>5. CASE Root \/ Visit
  BY <1>1, <1>5, WeightedKinds DEF Root, Visit
<1>6. CASE UNCHANGED vars
  <2>1. UNCHANGED <<edges, q, work, at, todo, seen, parent, via, done, out, result>>
    BY <1>6 DEF vars
  <2>2. Weighted => Weighted'
    BY <2>1, WeightedSame
  <2>3. DijkstraAnswer(result) => DijkstraAnswer(result)'
    <3> SUFFICES ASSUME DijkstraAnswer(result) PROVE DijkstraAnswer(result)'
      OBVIOUS
    <3>1. PICK r : r = result
      OBVIOUS
    <3> QED BY <2>1, <3>1, AnswerKept
  <2> QED BY <2>1, <2>2, <2>3 DEF DijkstraInv
<1> QED BY <1>2, <1>3, <1>4, <1>5, <1>6 DEF Next

\* At every state the cost a weighted query returned is the least of any walk to
\* the target and each edge of its path is on a cheapest walk, nothing is found
\* only where there is no walk, and dijkstra_all has the least cost of every
\* node, whatever the graph, its weights, the query and the order of edges
\* (dijkstra.cpp:11-121).
THEOREM DijkstraExactAlways == Spec => []DijkstraExact
<1>1. Init => Types /\ DijkstraInv
  <2> SUFFICES ASSUME Init PROVE Types /\ DijkstraInv
    OBVIOUS
  <2>1. result = None
    BY DEF Init
  <2> QED BY <2>1, TypesInit, WeightedInit DEF DijkstraInv
<1>2. Types /\ DijkstraInv /\ [Next]_vars => (Types /\ DijkstraInv)'
  BY TypesStep, DijkstraStep
<1>3. DijkstraInv => DijkstraExact
  <2> SUFFICES ASSUME DijkstraInv, result # None PROVE DijkstraExact
    BY DEF DijkstraExact
  <2>1. CASE q.algo \in Dijkstra
    BY <2>1 DEF DijkstraInv, DijkstraAnswer, DijkstraExact
  <2>2. CASE q.algo \notin Dijkstra
    BY <2>2 DEF Dijkstra, DijkstraExact
  <2> QED BY <2>1, <2>2
<1> QED BY <1>1, <1>2, <1>3, PTL DEF Spec
=============================================================================
