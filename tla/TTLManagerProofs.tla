-------------------------- MODULE TTLManagerProofs --------------------------
(***************************************************************************)
(* For every set of keys, every heap size and every sequence of deadlines: *)
(* index_ is the inverse of heap_ at every step, the heap is ordered       *)
(* between calls, its root is the earliest deadline, and the whole         *)
(* implements the abstract table Deadlines.                                *)
(*                                                                         *)
(* During a call the order is broken around one position.  UpInv and       *)
(* DownInv say where: the entry being sifted may be out of order with its  *)
(* parent (up) or with its children (down, and also during up as long as   *)
(* it has not moved), and its children are never earlier than its parent,  *)
(* so that exchanging it with either keeps everything else in order.       *)
(***************************************************************************)
EXTENDS TTLManager, NaturalsInduction, WellFoundedInduction, TLAPS

Child(p, q) == p > 0 /\ Parent(p) = q

UpInv ==
  /\ \A p \in Positions : p # i => (Child(p, i) /\ i = target) \/ Ordered(p)
  /\ i > 0 => \A p \in Positions : Child(p, i) => heap[Parent(i)].at <= heap[p].at
  /\ i <= target
  /\ afterUp = "idle" => target = n - 1 /\ caller = "idle"

DownInv ==
  /\ \A p \in Positions : Child(p, i) \/ Ordered(p)
  /\ i > 0 => \A p \in Positions : Child(p, i) => heap[Parent(i)].at <= heap[p].at
  /\ afterUp = "down"

CallInv == /\ pc = "idle" => caller = "idle"
           /\ pc = "evict" => caller = "evict"
           /\ pc = "up" => UpInv
           /\ pc = "down" => DownInv

TTLInv == TypeOK /\ IndexInverse /\ HeapOrder /\ CallInv

-----------------------------------------------------------------------------
\* Arithmetic of the implicit tree.
LEMMA ParentFacts ==
  /\ \A p \in Nat : p > 0 => Parent(p) \in Nat /\ Parent(p) < p
  /\ \A p, q \in Nat : Child(p, q) <=> (p = Left(q) \/ p = Right(q))
  /\ \A p \in Nat : Left(p) \in Nat /\ Right(p) \in Nat /\ Left(p) > p /\ Right(p) > p
BY DEF Parent, Child, Left, Right

\* A nonempty set of natural numbers has a least element.
LEMMA LeastPosition ==
  ASSUME NEW T \in SUBSET Nat, T # {}
  PROVE  \E m \in T : \A q \in T : m <= q
<1> DEFINE R == {ss \in Nat \X Nat : ss[1] < ss[2]}
<1>1. R = OpToRel(<, Nat)
  BY Zenon DEF OpToRel
<1>2. IsWellFoundedOn(R, Nat)
  BY <1>1, NatLessThanWellFounded, Zenon
<1>3. PICK x \in T : \A y \in T : <<y, x>> \notin R
  BY <1>2, WFMin, Zenon
<1>4. ASSUME NEW y \in T PROVE x <= y
  <2>1. <<y, x>> \notin R
    BY <1>3
  <2>2. x \in Nat /\ y \in Nat
    OBVIOUS
  <2>3. ~(y < x)
    BY <2>1, <2>2
  <2> QED BY <2>2, <2>3
<1> QED BY <1>3, <1>4

\* In an ordered heap no entry is earlier than the root: the least position
\* that is would have a parent that is as well.
LEMMA OrderedRootEarliest ==
  ASSUME TypeOK, \A p \in Positions : Ordered(p)
  PROVE  \A p \in Positions : heap[0].at <= heap[p].at
<1> SUFFICES ASSUME NEW p \in Positions, ~(heap[0].at <= heap[p].at) PROVE FALSE
  OBVIOUS
<1>1. n \in Nat /\ n > 0 /\ 0 \in Positions
  BY DEF TypeOK, Positions
<1>2. \A q \in Positions : heap[q].at \in Int
  BY DEF TypeOK, Entry
<1> DEFINE T == {q \in Positions : heap[q].at < heap[0].at}
<1>3. p \in T /\ T \in SUBSET Nat
  BY <1>1, <1>2 DEF Positions
<1>4. PICK m \in T : \A q \in T : m <= q
  BY <1>3, LeastPosition
<1>5. m \in Positions /\ m > 0 /\ heap[m].at < heap[0].at
  BY <1>1, <1>2, <1>4 DEF Positions
<1>6. Parent(m) \in Positions /\ Parent(m) < m
  BY <1>1, <1>5, ParentFacts DEF Positions
<1>7. heap[Parent(m)].at <= heap[m].at
  BY <1>5 DEF Ordered
<1>8. Parent(m) \in T
  BY <1>1, <1>2, <1>5, <1>6, <1>7
<1> QED BY <1>3, <1>4, <1>6, <1>8

\* swap_entries exchanges two entries and nothing else, and keeps index_ right.
LEMMA SwapFacts ==
  ASSUME TypeOK, IndexInverse, NEW a \in Positions, NEW b \in Positions, a # b,
         SwapEntries(a, b), n' = n
  PROVE  /\ heap' \in [Positions -> Entry] /\ index' \in [Key -> Positions \cup {NoPos}]
         /\ heap'[a] = heap[b] /\ heap'[b] = heap[a]
         /\ \A p \in Positions : p # a /\ p # b => heap'[p] = heap[p]
         /\ IndexInverse'
<1>1. /\ heap \in [Positions -> Entry] /\ index \in [Key -> Positions \cup {NoPos}]
      /\ n \in Nat /\ Positions' = Positions
  BY DEF TypeOK, Positions
<1>2. /\ heap' = [heap EXCEPT ![a] = heap[b], ![b] = heap[a]]
      /\ index' = [index EXCEPT ![heap[b].key] = a, ![heap[a].key] = b]
  BY DEF SwapEntries
<1>3. heap[a].key \in Key /\ heap[b].key \in Key
  BY <1>1 DEF Entry
<1>4. index[heap[a].key] = a /\ index[heap[b].key] = b
  BY DEF IndexInverse
<1>5. heap[a].key # heap[b].key
  BY <1>4
<1>6. /\ heap' \in [Positions -> Entry] /\ index' \in [Key -> Positions \cup {NoPos}]
      /\ heap'[a] = heap[b] /\ heap'[b] = heap[a]
      /\ \A p \in Positions : p # a /\ p # b => heap'[p] = heap[p]
  BY <1>1, <1>2, <1>3
<1>7. /\ index'[heap[b].key] = a /\ index'[heap[a].key] = b
      /\ \A k \in Key : k # heap[a].key /\ k # heap[b].key => index'[k] = index[k]
  BY <1>1, <1>2, <1>3, <1>5
<1>8. ASSUME NEW p \in Positions PROVE index'[heap'[p].key] = p
  <2>1. CASE p = a \/ p = b
    BY <1>6, <1>7, <2>1
  <2>2. CASE p # a /\ p # b
    <3>1. heap[p].key \in Key /\ index[heap[p].key] = p
      BY <1>1 DEF IndexInverse, Entry
    <3> QED BY <1>4, <1>6, <1>7, <2>2, <3>1
  <2> QED BY <2>1, <2>2
<1>9. ASSUME NEW k \in Key, index'[k] # NoPos PROVE heap'[index'[k]].key = k
  <2>1. CASE k = heap[a].key \/ k = heap[b].key
    BY <1>6, <1>7, <2>1
  <2>2. CASE k # heap[a].key /\ k # heap[b].key
    <3>1. index'[k] = index[k] /\ index[k] \in Positions /\ heap[index[k]].key = k
      BY <1>1, <1>7, <1>9, <2>2 DEF IndexInverse
    <3> QED BY <1>6, <2>2, <3>1
  <2> QED BY <2>1, <2>2
<1> QED BY <1>1, <1>6, <1>8, <1>9 DEF IndexInverse

-----------------------------------------------------------------------------
\* smallest of sift_down is the earliest of a position and its children.
LEMMA SmallestFacts ==
  ASSUME TypeOK, NEW p \in Positions
  PROVE  /\ Smallest(p) \in Positions
         /\ Smallest(p) # p => Child(Smallest(p), p) /\ heap[Smallest(p)].at < heap[p].at
         /\ \A q \in Positions : Child(q, p) => heap[Smallest(p)].at <= heap[q].at
<1>1. n \in Nat /\ p \in Nat /\ p < n /\ \A q \in Positions : heap[q].at \in Int
  BY DEF TypeOK, Positions, Entry
<1>2. Left(p) \in Nat /\ Right(p) \in Nat /\ Left(p) > p /\ Right(p) > p
  BY <1>1, ParentFacts
<1>3. \A q \in Positions : Child(q, p) <=> (q = Left(p) \/ q = Right(p))
  BY <1>1, ParentFacts DEF Positions
<1>4. \A q \in Nat : q \in Positions <=> q < n
  BY <1>1 DEF Positions
<1> QED BY <1>1, <1>2, <1>3, <1>4 DEF Smallest

\* What every step below needs of the state.
LEMMA StateFacts ==
  ASSUME TTLInv
  PROVE  /\ n \in Nat /\ Positions \subseteq Nat
         /\ \A q \in Nat : q \in Positions <=> q < n
         /\ \A q \in Positions : /\ heap[q] \in Entry /\ heap[q].at \in Int
                                 /\ heap[q].key \in Key
         /\ \A q \in Positions : q > 0 => Parent(q) \in Positions /\ Parent(q) < q
         /\ \A q, r \in Positions : Child(q, r) => q > r /\ q > 0 /\ Parent(q) = r
<1>1. n \in Nat /\ Positions \subseteq Nat /\ \A q \in Nat : q \in Positions <=> q < n
  BY DEF TTLInv, TypeOK, Positions
<1>2. \A q \in Positions : heap[q] \in Entry /\ heap[q].at \in Int /\ heap[q].key \in Key
  BY DEF TTLInv, TypeOK, Entry
<1>3. \A q \in Positions : q > 0 => Parent(q) \in Positions /\ Parent(q) < q
  BY <1>1, ParentFacts
<1> QED BY <1>1, <1>2, <1>3 DEF Child

\* The parent of a position is an earlier position.
LEMMA ParentPosition ==
  ASSUME n \in Nat, NEW q \in Positions, q > 0
  PROVE  /\ Parent(q) \in Positions /\ Parent(q) \in Nat /\ Parent(q) < q
         /\ q \in Nat /\ q < n
BY ParentFacts DEF Positions

\* Init: the empty heap.
LEMMA TTLInvInit == Init => TTLInv
<1> SUFFICES ASSUME Init PROVE TTLInv
  OBVIOUS
<1>1. Positions = {} /\ n = 0
  BY DEF Init, Positions
<1>2. heap \in [Positions -> Entry]
  BY <1>1 DEF Init
<1>3. TypeOK
  BY <1>1, <1>2 DEF Init, TypeOK
<1>4. IndexInverse /\ HeapOrder /\ CallInv
  BY <1>1 DEF Init, IndexInverse, HeapOrder, CallInv
<1> QED BY <1>3, <1>4 DEF TTLInv

\* set_expiry of a key that has a deadline breaks the order at its position only.
LEMMA UpdateStep ==
  ASSUME TTLInv, NEW k \in Key, NEW at \in Int, pc = "idle", index[k] # NoPos,
         Update(k, at), evicted' = {}, UNCHANGED <<now, caller, expired>>
  PROVE  TTLInv'
<1> DEFINE p == index[k]
<1>1. p \in Positions
  BY DEF TTLInv, TypeOK
<1>2. \A q \in Positions : Ordered(q)
  BY DEF TTLInv, HeapOrder
<1>3. n' = n /\ Positions' = Positions /\ index' = index
  BY DEF Update, Positions
<1>4. /\ heap' \in [Positions -> Entry]
      /\ \A q \in Positions : q # p => heap'[q] = heap[q]
      /\ heap'[p].key = heap[p].key
  BY <1>1, StateFacts DEF TTLInv, TypeOK, Update, Entry
<1>5. pc' = "up" /\ i' = p /\ target' = p /\ afterUp' = "down"
  BY DEF Update, Sift
<1> HIDE DEF p
<1>6. TypeOK'
  BY <1>1, <1>3, <1>4, <1>5, StateFacts DEF TTLInv, TypeOK
<1>7. IndexInverse'
  BY <1>1, <1>3, <1>4 DEF TTLInv, TypeOK, IndexInverse
<1>8. UpInv'
  <2>1. ASSUME NEW q \in Positions, q # p, ~Child(q, p) PROVE Ordered(q)'
    BY <1>1, <1>2, <1>4, <2>1, StateFacts DEF Ordered, Child
  <2>2. ASSUME NEW q \in Positions, p > 0, Child(q, p)
        PROVE  heap'[Parent(p)].at <= heap'[q].at
    BY <1>1, <1>2, <1>4, <2>2, StateFacts DEF Ordered
  <2>3. p \in Nat /\ p <= p
    BY <1>1, StateFacts
  <2> QED BY <1>3, <1>5, <2>1, <2>2, <2>3 DEF UpInv, Child
<1> QED BY <1>5, <1>6, <1>7, <1>8 DEF TTLInv, HeapOrder, CallInv

\* set_expiry of a key that has none adds a leaf.
LEMMA PushStep ==
  ASSUME TTLInv, NEW k \in Key, NEW at \in Int, pc = "idle", index[k] = NoPos,
         Push(k, at), evicted' = {}, UNCHANGED <<now, caller, expired>>
  PROVE  TTLInv'
<1>1. \A q \in Positions : Ordered(q)
  BY DEF TTLInv, HeapOrder
<1>2. /\ n' = n + 1 /\ Positions' = Positions \cup {n} /\ n \notin Positions
      /\ Positions' = 0 .. n
  BY StateFacts DEF Push, Positions
<1>3. /\ heap' \in [Positions' -> Entry]
      /\ \A q \in Positions : heap'[q] = heap[q]
      /\ heap'[n].key = k
  BY <1>2, StateFacts DEF Push, Entry
<1>4. /\ index' \in [Key -> Positions' \cup {NoPos}] /\ index'[k] = n
      /\ \A kk \in Key : kk # k => index'[kk] = index[kk]
  BY <1>2 DEF Push, TTLInv, TypeOK
<1>5. pc' = "up" /\ i' = n /\ target' = n /\ afterUp' = "idle" /\ caller = "idle"
  BY DEF Push, Sift, TTLInv, CallInv
<1>6. TypeOK'
  BY <1>2, <1>3, <1>4, <1>5, StateFacts DEF TTLInv, TypeOK
<1>7. IndexInverse'
  <2>1. ASSUME NEW q \in Positions' PROVE index'[heap'[q].key] = q
    <3>1. CASE q = n
      BY <1>3, <1>4, <3>1
    <3>2. CASE q # n
      <4>1. q \in Positions /\ heap'[q] = heap[q] /\ heap[q].key \in Key
        BY <1>2, <1>3, <3>2, StateFacts
      <4>2. index[heap[q].key] = q /\ q # NoPos
        BY <4>1, StateFacts, TTLAssumption DEF TTLInv, IndexInverse
      <4> QED BY <1>4, <4>1, <4>2
    <3> QED BY <3>1, <3>2
  <2>2. ASSUME NEW kk \in Key, index'[kk] # NoPos PROVE heap'[index'[kk]].key = kk
    <3>1. CASE kk = k
      BY <1>3, <1>4, <3>1
    <3>2. CASE kk # k
      <4>1. index'[kk] = index[kk] /\ index[kk] \in Positions /\ heap[index[kk]].key = kk
        BY <1>4, <2>2, <3>2 DEF TTLInv, TypeOK, IndexInverse
      <4> QED BY <1>3, <4>1
    <3> QED BY <3>1, <3>2
  <2> QED BY <2>1, <2>2 DEF IndexInverse
<1>8. UpInv'
  <2>1. ASSUME NEW q \in Positions', q # n PROVE Ordered(q)'
    BY <1>1, <1>2, <1>3, <2>1, StateFacts DEF Ordered
  <2>2. ASSUME NEW q \in Positions' PROVE ~Child(q, n)
    <3>1. q \in Nat /\ q <= n /\ n \in Nat
      BY <1>2, StateFacts
    <3> QED BY <3>1, ParentFacts DEF Child
  <2> QED BY <1>2, <1>5, <2>1, <2>2, StateFacts DEF UpInv, Child
<1> QED BY <1>5, <1>6, <1>7, <1>8 DEF TTLInv, HeapOrder, CallInv

\* remove_expiry, called by a client or by evict_expired: the entry that fills
\* the hole breaks the order at that position only.
LEMMA RemoveStep ==
  ASSUME TTLInv, NEW k \in Key, NEW ret \in {"idle", "evict"},
         pc \in {"idle", "evict"}, index[k] # NoPos, Remove(k, ret),
         expired' \in SUBSET Entry, evicted' \in SUBSET Key, now' = now
  PROVE  TTLInv'
<1> DEFINE p == index[k]
           l == n - 1
<1>1. p \in Positions /\ heap[p].key = k
  BY DEF TTLInv, TypeOK, IndexInverse
<1>2. \A q \in Positions : Ordered(q)
  BY DEF TTLInv, HeapOrder
<1>3. /\ n' = l /\ l \in Positions /\ l \in Nat
      /\ Positions' = 0 .. n - 2
      /\ \A q \in Positions' : q \in Positions /\ q < l
      /\ \A q \in Positions : q # l => q \in Positions'
  BY <1>1, StateFacts DEF Remove, Positions
<1>4. /\ heap' \in [Positions' -> Entry]
      /\ \A q \in Positions' : q # p => heap'[q] = heap[q]
      /\ p # l => heap'[p] = heap[l]
  BY <1>1, <1>3, StateFacts DEF Remove
<1>5. \A kk \in Key : index[kk] \in Positions \cup {NoPos}
  BY DEF TTLInv, TypeOK
<1>6. \A q \in Positions : index[heap[q].key] = q
  BY DEF TTLInv, IndexInverse
<1>7. index' = [[index EXCEPT ![heap[l].key] = p] EXCEPT ![k] = NoPos]
  BY DEF Remove
<1>8. /\ index' \in [Key -> Positions \cup {NoPos}]
      /\ index'[k] = NoPos
      /\ k # heap[l].key => index'[heap[l].key] = p
      /\ \A kk \in Key : kk # k /\ kk # heap[l].key => index'[kk] = index[kk]
  BY <1>1, <1>3, <1>7, StateFacts DEF TTLInv, TypeOK
<1>9. \/ p # l /\ pc' = "up" /\ i' = p /\ target' = p /\ afterUp' = "down" /\ caller' = ret
      \/ p = l /\ pc' = ret /\ i' = 0 /\ target' = 0 /\ afterUp' = "idle" /\ caller' = ret
  BY DEF Remove, Sift, Unwind
<1> HIDE DEF p, l
<1>10. ASSUME NEW kk \in Key, index'[kk] # NoPos
       PROVE  index'[kk] \in Positions' /\ heap'[index'[kk]].key = kk
  <2>1. kk # k
    BY <1>8, <1>10
  <2>2. CASE kk = heap[l].key
    <3>1. p # l
      BY <1>1, <2>1, <2>2
    <3> QED BY <1>1, <1>3, <1>4, <1>8, <2>1, <2>2, <3>1
  <2>3. CASE kk # heap[l].key
    <3>1. index'[kk] = index[kk] /\ index[kk] \in Positions
      BY <1>5, <1>8, <1>10, <2>1, <2>3
    <3>2. heap[index[kk]].key = kk
      BY <1>10, <3>1 DEF TTLInv, IndexInverse
    <3>3. index[kk] # l /\ index[kk] # p
      BY <1>1, <2>1, <2>3, <3>2
    <3> QED BY <1>3, <1>4, <3>1, <3>2, <3>3
  <2> QED BY <2>2, <2>3
<1>11. ASSUME NEW q \in Positions' PROVE index'[heap'[q].key] = q
  <2>1. CASE q = p
    <3>1. p # l /\ heap'[q] = heap[l] /\ heap[l].key # k
      BY <1>1, <1>3, <1>4, <1>6, <2>1
    <3> QED BY <1>8, <2>1, <3>1
  <2>2. CASE q # p
    <3>1. heap'[q] = heap[q] /\ q \in Positions /\ q # l /\ heap[q].key \in Key
      BY <1>3, <1>4, <2>2, StateFacts
    <3>2. heap[q].key # k /\ heap[q].key # heap[l].key
      BY <1>1, <1>3, <1>6, <2>2, <3>1
    <3> QED BY <1>6, <1>8, <3>1, <3>2
  <2> QED BY <2>1, <2>2
<1>12. IndexInverse'
  BY <1>10, <1>11 DEF IndexInverse
<1>13. index' \in [Key -> Positions' \cup {NoPos}]
  BY <1>8, <1>10
<1>14. TypeOK'
  <2>1. n' \in Nat
    BY <1>3
  <2>2. /\ i' \in Nat /\ target' \in Nat /\ pc' \in {"idle", "up", "down", "evict"}
        /\ pc' \in {"up", "down"} => i' \in Positions' /\ target' \in Positions'
    BY <1>1, <1>3, <1>9, StateFacts
  <2>3. afterUp' \in {"down", "idle"} /\ caller' \in {"idle", "evict"}
    BY <1>9
  <2> QED BY <1>4, <1>13, <2>1, <2>2, <2>3 DEF TTLInv, TypeOK
<1>15. CASE p = l
  <2>1. ASSUME NEW q \in Positions' PROVE Ordered(q)'
    <3>1. q \in Positions /\ q < l /\ q \in Nat /\ Ordered(q)
      BY <1>2, <1>3, StateFacts
    <3>2. q > 0 => Parent(q) \in Positions /\ Parent(q) < l /\ Parent(q) \in Nat
      <4>1. n \in Nat /\ l \in Nat
        BY <1>3, StateFacts
      <4> QED BY <3>1, <4>1, ParentPosition
    <3>3. heap'[q] = heap[q] /\ (q > 0 => heap'[Parent(q)] = heap[Parent(q)])
      BY <1>3, <1>4, <1>15, <3>1, <3>2
    <3> QED BY <3>1, <3>3 DEF Ordered
  <2> QED BY <1>9, <1>12, <1>14, <1>15, <2>1 DEF TTLInv, HeapOrder, CallInv
<1>16. CASE p # l
  <2>1. ASSUME NEW q \in Positions', q # p, ~Child(q, p) PROVE Ordered(q)'
    <3>1. q \in Positions /\ q < l /\ q \in Nat /\ Ordered(q)
      BY <1>2, <1>3, StateFacts
    <3>2. q > 0 => Parent(q) \in Positions' /\ Parent(q) # p /\ Parent(q) \in Positions
      <4>1. n \in Nat /\ l \in Nat
        BY <1>3, StateFacts
      <4>2. q > 0 => Parent(q) \in Positions /\ Parent(q) \in Nat /\ Parent(q) < l
        BY <3>1, <4>1, ParentPosition
      <4> QED BY <1>3, <2>1, <4>1, <4>2 DEF Child
    <3> QED BY <1>4, <2>1, <3>1, <3>2 DEF Ordered
  <2>2. ASSUME NEW q \in Positions', p > 0, Child(q, p)
        PROVE  heap'[Parent(p)].at <= heap'[q].at
    <3>1. p \in Nat /\ p < l /\ Parent(p) \in Positions /\ Parent(p) < p
      BY <1>1, <1>3, <1>16, <2>2, StateFacts
    <3>2. q \in Positions /\ q > p /\ Parent(q) = p /\ q > 0
      BY <1>1, <1>3, <2>2, StateFacts
    <3>8. Parent(p) \in Nat /\ q \in Nat /\ l \in Nat
      BY <1>3, <3>1, <3>2, StateFacts
    <3>5. Parent(p) # l /\ Parent(p) # p /\ q # p
      BY <3>1, <3>2, <3>8
    <3>6. Parent(p) \in Positions'
      BY <1>3, <3>1, <3>5
    <3>3. heap'[Parent(p)] = heap[Parent(p)] /\ heap'[q] = heap[q]
      BY <1>4, <3>5, <3>6
    <3>7. heap[Parent(p)].at \in Int /\ heap[p].at \in Int /\ heap[q].at \in Int
      BY <1>1, <3>1, <3>2, StateFacts
    <3>4. heap[Parent(p)].at <= heap[p].at /\ heap[p].at <= heap[q].at
      BY <1>1, <1>2, <2>2, <3>2 DEF Ordered
    <3> QED BY <3>3, <3>4, <3>7
  <2>3. p \in Nat /\ p <= p
    BY <1>1, StateFacts
  <2>4. UpInv'
    BY <1>9, <1>16, <2>1, <2>2, <2>3 DEF UpInv, Child
  <2> QED BY <1>9, <1>12, <1>14, <1>16, <2>4 DEF TTLInv, HeapOrder, CallInv
<1> QED BY <1>15, <1>16

-----------------------------------------------------------------------------
\* One exchange of sift_up moves the disorder to the parent's position.
LEMMA RiseStep ==
  ASSUME TTLInv, pc = "up", Rises(i), SwapEntries(Parent(i), i), i' = Parent(i),
         UNCHANGED <<pc, target, afterUp, now, n, caller, expired, evicted>>
  PROVE  TTLInv'
<1> DEFINE a == Parent(i)
<1>1. n \in Nat /\ i \in Positions /\ i > 0 /\ target \in Positions /\ UpInv
  BY DEF TTLInv, TypeOK, CallInv, Rises
<1>2. a \in Positions /\ a \in Nat /\ a < i /\ i \in Nat
  BY <1>1, ParentPosition
<1>3. heap[i].at < heap[a].at
  BY DEF Rises
<1>4. /\ heap' \in [Positions -> Entry] /\ index' \in [Key -> Positions \cup {NoPos}]
      /\ heap'[a] = heap[i] /\ heap'[i] = heap[a]
      /\ \A p \in Positions : p # a /\ p # i => heap'[p] = heap[p]
      /\ IndexInverse'
  BY <1>1, <1>2, SwapFacts DEF TTLInv
<1>5. \A q \in Positions : heap[q].at \in Int
  BY StateFacts
<1>6. i' = a /\ Positions' = Positions
  BY DEF Positions
<1>7. ~Child(a, i) /\ Child(i, a)
  BY <1>1, <1>2, StateFacts DEF Child
<1>8. \A q \in Positions : q # i /\ ~Child(q, i) => Ordered(q)
  BY <1>1 DEF UpInv
<1>9. \A q \in Positions : Child(q, i) => heap[a].at <= heap[q].at
  BY <1>1 DEF UpInv
<1> HIDE DEF a
<1>10. ASSUME NEW q \in Positions, q # a PROVE Ordered(q)'
  <2> SUFFICES ASSUME q > 0 PROVE heap'[Parent(q)].at <= heap'[q].at
    BY DEF Ordered
  <2>1. Parent(q) \in Positions /\ Parent(q) # q /\ q \in Nat
    BY <1>1, ParentPosition
  <2>2. CASE q = i
    BY <1>2, <1>3, <1>4, <1>5, <1>1, <2>2 DEF a
  <2>3. CASE q # i /\ Parent(q) = i
    <3>1. Child(q, i)
      BY <2>3 DEF Child
    <3> QED BY <1>4, <1>9, <1>10, <2>3, <3>1
  <2>4. CASE q # i /\ Parent(q) # i
    <3>1. ~Child(q, i)
      BY <2>4 DEF Child
    <3>2. heap[Parent(q)].at <= heap[q].at
      BY <1>8, <2>4, <3>1 DEF Ordered
    <3>3. CASE Parent(q) = a
      <4>1. heap'[q] = heap[q] /\ heap'[Parent(q)] = heap[i]
        BY <1>4, <1>10, <2>4, <3>3
      <4> QED BY <1>1, <1>2, <1>3, <1>5, <3>2, <3>3, <4>1
    <3>4. CASE Parent(q) # a
      BY <1>4, <1>10, <2>1, <2>4, <3>2, <3>4
    <3> QED BY <3>3, <3>4
  <2> QED BY <2>2, <2>3, <2>4
<1>11. ASSUME NEW q \in Positions, a > 0, Child(q, a)
       PROVE  heap'[Parent(a)].at <= heap'[q].at
  <2>1. Parent(a) \in Positions /\ Parent(a) # a /\ Parent(a) # i
    BY <1>1, <1>2, <1>11, ParentPosition
  <2>2. heap[Parent(a)].at <= heap[a].at
    BY <1>2, <1>7, <1>8, <1>11 DEF Ordered
  <2>3. heap'[Parent(a)] = heap[Parent(a)]
    BY <1>4, <2>1
  <2>4. CASE q = i
    BY <1>4, <2>2, <2>3, <2>4
  <2>5. CASE q # i
    <3>1. q # a /\ ~Child(q, i) /\ Parent(q) = a /\ q > 0
      BY <1>1, <1>2, <1>11, StateFacts DEF Child
    <3>2. heap[a].at <= heap[q].at /\ heap'[q] = heap[q]
      BY <1>4, <1>8, <2>5, <3>1 DEF Ordered
    <3>3. heap[Parent(a)].at \in Int /\ heap[a].at \in Int /\ heap[q].at \in Int
      BY <1>2, <1>5, <2>1
    <3> QED BY <2>2, <2>3, <3>2, <3>3
  <2> QED BY <2>4, <2>5
<1>12. a <= target
  <2>1. target \in Nat /\ i <= target
    BY <1>1, StateFacts DEF UpInv
  <2> QED BY <1>2, <2>1
<1>13. UpInv'
  BY <1>1, <1>6, <1>10, <1>11, <1>12 DEF UpInv, Child
<1>14. TypeOK'
  BY <1>1, <1>2, <1>4, <1>6 DEF TTLInv, TypeOK
<1> QED BY <1>4, <1>13, <1>14 DEF TTLInv, HeapOrder, CallInv

\* Once sift_up stops, only the entry it left at target can be out of order,
\* and only with its children.
LEMMA RiseEnds ==
  ASSUME TTLInv, pc = "up", ~Rises(i)
  PROVE  /\ \A q \in Positions : Child(q, target) \/ Ordered(q)
         /\ target > 0 => \A q \in Positions :
                            Child(q, target) => heap[Parent(target)].at <= heap[q].at
<1>1. n \in Nat /\ i \in Positions /\ target \in Positions /\ UpInv
  BY DEF TTLInv, TypeOK, CallInv
<1>2. Ordered(i)
  <2> SUFFICES ASSUME i > 0 PROVE heap[Parent(i)].at <= heap[i].at
    BY DEF Ordered
  <2>1. Parent(i) \in Positions
    BY <1>1, ParentPosition
  <2> QED BY <1>1, <2>1, StateFacts DEF Rises
<1>3. CASE i = target
  BY <1>1, <1>2, <1>3 DEF UpInv
<1>4. CASE i # target
  <2>1. \A q \in Positions : Ordered(q)
    BY <1>1, <1>2, <1>4 DEF UpInv
  <2>2. ASSUME NEW q \in Positions, target > 0, Child(q, target)
        PROVE  heap[Parent(target)].at <= heap[q].at
    <3>1. Parent(target) \in Positions /\ q > 0 /\ Parent(q) = target
      BY <1>1, <2>2, ParentPosition DEF Child
    <3>2. heap[Parent(target)].at <= heap[target].at /\ heap[target].at <= heap[q].at
      BY <1>1, <2>1, <2>2, <3>1 DEF Ordered
    <3>3. /\ heap[Parent(target)].at \in Int /\ heap[target].at \in Int
          /\ heap[q].at \in Int
      BY <1>1, <3>1, StateFacts
    <3> QED BY <3>2, <3>3
  <2> QED BY <2>1, <2>2
<1> QED BY <1>3, <1>4

\* sift_up, one iteration or its end.
LEMMA SiftUpStep ==
  ASSUME TTLInv, SiftUp
  PROVE  TTLInv'
<1>1. pc = "up" /\ UNCHANGED <<now, n, caller, expired, evicted>>
  BY DEF SiftUp
<1>2. CASE Rises(i)
  BY <1>1, <1>2, RiseStep DEF SiftUp
<1>3. CASE ~Rises(i) /\ afterUp = "down"
  <2>1. pc' = "down" /\ i' = target /\ UNCHANGED <<heap, index, target, afterUp>>
    BY <1>3 DEF SiftUp
  <2>2. Positions' = Positions /\ \A q \in Positions : Ordered(q)' = Ordered(q)
    BY <1>1, <2>1 DEF Positions, Ordered
  <2>3. DownInv'
    BY <1>1, <1>3, <2>1, <2>2, RiseEnds DEF DownInv, Child
  <2>4. TypeOK' /\ IndexInverse'
    BY <1>1, <2>1, <2>2 DEF TTLInv, TypeOK, IndexInverse
  <2> QED BY <2>1, <2>3, <2>4 DEF TTLInv, HeapOrder, CallInv
<1>4. CASE ~Rises(i) /\ afterUp = "idle"
  <2>1. pc' = "idle" /\ i' = 0 /\ target' = 0 /\ afterUp' = "idle" /\ UNCHANGED <<heap, index>>
    BY <1>4 DEF SiftUp, Unwind
  <2>2. Positions' = Positions /\ \A q \in Positions : Ordered(q)' = Ordered(q)
    BY <1>1, <2>1 DEF Positions, Ordered
  <2>3. target = n - 1 /\ caller = "idle"
    BY <1>1, <1>4 DEF TTLInv, CallInv, UpInv
  <2>4. ASSUME NEW q \in Positions PROVE ~Child(q, target)
    <3>1. target \in Positions /\ n \in Nat
      BY <1>1 DEF TTLInv, TypeOK
    <3>2. q \in Nat /\ q < n
      BY <3>1, StateFacts
    <3> QED BY <2>3, <3>1, <3>2, StateFacts
  <2>5. HeapOrder'
    BY <1>1, <1>4, <2>2, <2>4, RiseEnds DEF HeapOrder
  <2>6. TypeOK' /\ IndexInverse'
    BY <1>1, <2>1, <2>2 DEF TTLInv, TypeOK, IndexInverse
  <2> QED BY <1>1, <2>1, <2>3, <2>5, <2>6 DEF TTLInv, CallInv
<1> QED BY <1>2, <1>3, <1>4 DEF SiftUp

\* One exchange of sift_down moves the disorder to the earlier child.
LEMMA SinkStep ==
  ASSUME TTLInv, pc = "down", Smallest(i) # i, SwapEntries(i, Smallest(i)),
         i' = Smallest(i),
         UNCHANGED <<pc, target, afterUp, now, n, caller, expired, evicted>>
  PROVE  TTLInv'
<1> DEFINE s == Smallest(i)
<1>1. n \in Nat /\ i \in Positions /\ target \in Positions /\ DownInv /\ TypeOK
  BY DEF TTLInv, TypeOK, CallInv
<1>2. /\ s \in Positions /\ s # i /\ Child(s, i) /\ heap[s].at < heap[i].at
      /\ \A q \in Positions : Child(q, i) => heap[s].at <= heap[q].at
  BY <1>1, SmallestFacts
<1>3. s > 0 /\ Parent(s) = i /\ s \in Nat /\ i \in Nat /\ i < s
  BY <1>1, <1>2, StateFacts
<1>4. i' = s /\ Positions' = Positions
  BY DEF Positions
<1>5. /\ heap' \in [Positions -> Entry] /\ index' \in [Key -> Positions \cup {NoPos}]
      /\ heap'[i] = heap[s] /\ heap'[s] = heap[i]
      /\ \A p \in Positions : p # i /\ p # s => heap'[p] = heap[p]
      /\ IndexInverse'
  BY <1>1, <1>2, SwapFacts DEF TTLInv
<1> HIDE DEF s
<1>6. \A q \in Positions : heap[q].at \in Int
  BY StateFacts
<1>7. \A q \in Positions : ~Child(q, i) => Ordered(q)
  BY <1>1 DEF DownInv
<1>8. i > 0 => \A q \in Positions : Child(q, i) => heap[Parent(i)].at <= heap[q].at
  BY <1>1 DEF DownInv
<1>9. ASSUME NEW q \in Positions, ~Child(q, s) PROVE Ordered(q)'
  <2> SUFFICES ASSUME q > 0 PROVE heap'[Parent(q)].at <= heap'[q].at
    BY DEF Ordered
  <2>1. Parent(q) \in Positions /\ Parent(q) # q /\ Parent(q) # s
    BY <1>1, <1>9, ParentPosition DEF Child
  <2>2. CASE q = s
    BY <1>1, <1>2, <1>3, <1>5, <1>6, <2>2
  <2>3. CASE q = i
    <3>1. heap'[Parent(q)] = heap[Parent(q)] /\ heap'[q] = heap[s]
      BY <1>5, <2>1, <2>3
    <3> QED BY <1>2, <1>8, <2>3, <3>1
  <2>4. CASE q # s /\ q # i /\ Parent(q) = i
    <3>1. Child(q, i)
      BY <2>4 DEF Child
    <3> QED BY <1>2, <1>5, <2>4, <3>1
  <2>5. CASE q # s /\ q # i /\ Parent(q) # i
    <3>1. Ordered(q)
      BY <1>7, <2>5 DEF Child
    <3> QED BY <1>5, <2>1, <2>5, <3>1 DEF Ordered
  <2> QED BY <2>2, <2>3, <2>4, <2>5
<1>10. ASSUME NEW q \in Positions, Child(q, s) PROVE heap'[Parent(s)].at <= heap'[q].at
  <2>1. q > 0 /\ Parent(q) = s /\ q > s
    BY <1>2, <1>10, StateFacts
  <2>2. q # s /\ q # i /\ ~Child(q, i)
    BY <1>2, <1>3, <2>1, StateFacts DEF Child
  <2>3. heap[s].at <= heap[q].at
    BY <1>7, <2>1, <2>2 DEF Ordered
  <2> QED BY <1>3, <1>5, <2>2, <2>3
<1>11. DownInv'
  BY <1>1, <1>4, <1>9, <1>10 DEF DownInv, Child
<1>12. TypeOK'
  BY <1>1, <1>2, <1>3, <1>4, <1>5 DEF TypeOK
<1> QED BY <1>5, <1>11, <1>12 DEF TTLInv, HeapOrder, CallInv

\* sift_down, one iteration or its end.
LEMMA SiftDownStep ==
  ASSUME TTLInv, SiftDown
  PROVE  TTLInv'
<1>1. pc = "down" /\ UNCHANGED <<now, n, caller, expired, evicted>>
  BY DEF SiftDown
<1>2. CASE Smallest(i) # i
  BY <1>1, <1>2, SinkStep DEF SiftDown
<1>3. CASE Smallest(i) = i
  <2>1. pc' = caller /\ i' = 0 /\ target' = 0 /\ afterUp' = "idle" /\ UNCHANGED <<heap, index>>
    BY <1>3 DEF SiftDown, Unwind
  <2>2. Positions' = Positions /\ \A q \in Positions : Ordered(q)' = Ordered(q)
    BY <1>1, <2>1 DEF Positions, Ordered
  <2>3. i \in Positions /\ TypeOK /\ DownInv /\ caller \in {"idle", "evict"}
    BY <1>1 DEF TTLInv, TypeOK, CallInv
  <2>4. \A q \in Positions : Child(q, i) => heap[i].at <= heap[q].at
    BY <1>3, <2>3, SmallestFacts
  <2>5. \A q \in Positions : Ordered(q)
    BY <2>3, <2>4 DEF DownInv, Ordered, Child
  <2>6. TypeOK' /\ IndexInverse'
    BY <1>1, <2>1, <2>2, <2>3 DEF TTLInv, TypeOK, IndexInverse
  <2> QED BY <1>1, <2>1, <2>2, <2>3, <2>5, <2>6 DEF TTLInv, HeapOrder, CallInv
<1> QED BY <1>2, <1>3

\* evict_expired: the root is removed, or the loop is over.
LEMMA EvictStep ==
  ASSUME TTLInv, EvictExpired
  PROVE  TTLInv'
<1>1. CASE RootDue
  <2>1. /\ pc = "evict" /\ Remove(heap[0].key, "evict") /\ now' = now /\ evicted' = evicted
        /\ expired' = expired \cup {heap[0]}
    BY <1>1 DEF EvictExpired
  <2>2. 0 \in Positions
    BY <1>1, StateFacts DEF RootDue
  <2>3. heap[0] \in Entry /\ heap[0].key \in Key
    BY <2>2, StateFacts
  <2>4. index[heap[0].key] # NoPos
    BY <2>2, TTLAssumption DEF TTLInv, IndexInverse
  <2>5. expired' \in SUBSET Entry /\ evicted' \in SUBSET Key
    BY <2>1, <2>3 DEF TTLInv, TypeOK
  <2> QED BY <2>1, <2>3, <2>4, <2>5, RemoveStep
<1>2. CASE ~RootDue
  <2>1. /\ pc = "evict" /\ pc' = "idle" /\ caller' = "idle" /\ expired' = {}
        /\ evicted' = {e.key : e \in expired}
        /\ UNCHANGED <<heap, n, index, i, target, afterUp, now>>
    BY <1>2 DEF EvictExpired
  <2>2. evicted' \in SUBSET Key
    BY <2>1 DEF TTLInv, TypeOK, Entry
  <2>3. Positions' = Positions /\ \A q \in Positions : Ordered(q)' = Ordered(q)
    BY <2>1 DEF Positions, Ordered
  <2>4. TypeOK'
    BY <2>1, <2>2, <2>3 DEF TTLInv, TypeOK
  <2> QED BY <2>1, <2>3, <2>4 DEF TTLInv, IndexInverse, HeapOrder, CallInv
<1> QED BY <1>1, <1>2

-----------------------------------------------------------------------------
\* Every step preserves the inductive invariant.
LEMMA TTLInvNext == TTLInv /\ [Next]_vars => TTLInv'
<1> SUFFICES ASSUME TTLInv, [Next]_vars PROVE TTLInv'
  OBVIOUS
<1>1. ASSUME NEW k \in Key, RemoveExpiry(k) PROVE TTLInv'
  <2>1. /\ pc = "idle" /\ index[k] # NoPos /\ Remove(k, "idle") /\ evicted' = {}
        /\ now' = now /\ expired' = expired
    BY <1>1 DEF RemoveExpiry
  <2>2. expired' \in SUBSET Entry /\ evicted' \in SUBSET Key
    BY <2>1 DEF TTLInv, TypeOK
  <2> QED BY <2>1, <2>2, RemoveStep
<1>2. ASSUME NEW k \in Key, NEW ttl \in Ttl, SetExpiry(k, ttl) PROVE TTLInv'
  <2>1. now + ttl \in Int
    BY TTLAssumption DEF TTLInv, TypeOK
  <2>2. pc = "idle" /\ evicted' = {} /\ UNCHANGED <<now, caller, expired>>
    BY <1>2 DEF SetExpiry
  <2>3. CASE index[k] # NoPos /\ Update(k, now + ttl)
    BY <2>1, <2>2, <2>3, UpdateStep
  <2>4. CASE index[k] = NoPos /\ Push(k, now + ttl)
    BY <2>1, <2>2, <2>4, PushStep
  <2> QED BY <1>2, <2>3, <2>4 DEF SetExpiry
<1>3. ASSUME UNCHANGED <<heap, n, index, i, target, afterUp>>,
             StartEvict \/ Pass \/ UNCHANGED vars
      PROVE  TTLInv'
  <2>1. Positions' = Positions /\ \A q \in Positions : Ordered(q)' = Ordered(q)
    BY <1>3 DEF Positions, Ordered
  <2>2. CASE StartEvict
    BY <1>3, <2>1, <2>2 DEF StartEvict, TTLInv, TypeOK, IndexInverse, HeapOrder, CallInv
  <2>3. CASE Pass
    BY <1>3, <2>1, <2>3 DEF Pass, call, TTLInv, TypeOK, IndexInverse, HeapOrder, CallInv
  <2>4. CASE UNCHANGED vars
    BY <1>3, <2>1, <2>4 DEF vars, call, TTLInv, TypeOK, IndexInverse, HeapOrder, CallInv,
                            UpInv, DownInv, Ordered, Child, Positions
  <2> QED BY <1>3, <2>2, <2>3, <2>4
<1>4. (StartEvict \/ Pass \/ UNCHANGED vars) => UNCHANGED <<heap, n, index, i, target, afterUp>>
  BY DEF StartEvict, Pass, call, vars
<1> QED BY <1>1, <1>2, <1>3, <1>4, SiftUpStep, SiftDownStep, EvictStep DEF Next

\* The inductive invariant: index_ inverse to heap_, the heap ordered between
\* calls, and during a call disordered only where the sift stands (ttl.cpp:9-94).
THEOREM TTLInvAlways == Spec => []TTLInv
BY TTLInvInit, TTLInvNext, PTL DEF Spec

\* heap_ and index_ always have their shape: every recorded position lies
\* inside the heap and every loop index points into it (ttl.cpp:9-94).
THEOREM TypeOKAlways == Spec => []TypeOK
<1>1. TTLInv => TypeOK
  BY DEF TTLInv
<1> QED BY <1>1, TTLInvAlways, PTL

\* index_ and heap_ agree at every step of every call, for any number of keys
\* (ttl.cpp:13,32-34,88-94).
THEOREM IndexInverseAlways == Spec => []IndexInverse
<1>1. TTLInv => IndexInverse
  BY DEF TTLInv
<1> QED BY <1>1, TTLInvAlways, PTL

\* Sifting up and then down restores the heap order from any update or removal
\* in the middle of a heap of any size (ttl.cpp:14-16,32-37,65-86).
THEOREM HeapOrderAlways == Spec => []HeapOrder
<1>1. TTLInv => HeapOrder
  BY DEF TTLInv
<1> QED BY <1>1, TTLInvAlways, PTL

\* The root that evict_expired and next_expiry_in read is the earliest deadline
\* of a heap of any size (ttl.cpp:52,61).
THEOREM RootEarliestAlways == Spec => []RootEarliest
<1>1. TTLInv => RootEarliest
  BY OrderedRootEarliest DEF TTLInv, HeapOrder, RootEarliest
<1> QED BY <1>1, TTLInvAlways, PTL

-----------------------------------------------------------------------------
(***************************************************************************)
(* Refinement of Deadlines.  EvictInv says what evict_expired has put      *)
(* aside while its loop runs.                                              *)
(***************************************************************************)
EvictInv ==
  /\ caller = "idle" => expired = {}
  /\ \A e \in expired : index[e.key] = NoPos /\ e.at <= now
  /\ \A e, f \in expired : e.key = f.key => e = f

\* The deadlines of the abstract table.
Shown == [k \in Key |-> IF Pending(k) = {} THEN GetExpiry(k)
                        ELSE CHOOSE at \in Pending(k) : TRUE]

\* What is put aside for a key is what the table shows for it.
LEMMA ShownFacts ==
  ASSUME EvictInv, NEW k \in Key
  PROVE  /\ (\A e \in expired : e.key # k) => Shown[k] = GetExpiry(k)
         /\ \A e \in expired : e.key = k => Shown[k] = e.at
<1>1. ASSUME \A e \in expired : e.key # k PROVE Shown[k] = GetExpiry(k)
  BY <1>1 DEF Shown, Pending
<1>2. ASSUME NEW e \in expired, e.key = k PROVE Shown[k] = e.at
  <2>1. Pending(k) = {e.at}
    BY <1>2 DEF Pending, EvictInv
  <2> QED BY <2>1 DEF Shown
<1> QED BY <1>1, <1>2

\* swap_entries changes no deadline.
LEMMA SwapKeepsDeadlines ==
  ASSUME TypeOK, IndexInverse, NEW a \in Positions, NEW b \in Positions, a # b,
         SwapEntries(a, b), n' = n, NEW k \in Key
  PROVE  GetExpiry(k)' = GetExpiry(k) /\ (index[k] = NoPos => index'[k] = NoPos)
<1>1. /\ heap \in [Positions -> Entry] /\ index \in [Key -> Positions \cup {NoPos}]
      /\ heap' = [heap EXCEPT ![a] = heap[b], ![b] = heap[a]]
      /\ index' = [index EXCEPT ![heap[b].key] = a, ![heap[a].key] = b]
      /\ n \in Nat /\ Positions \subseteq Nat
  BY DEF TypeOK, SwapEntries, Positions
<1>2. /\ heap[a].key \in Key /\ heap[b].key \in Key
      /\ index[heap[a].key] = a /\ index[heap[b].key] = b
      /\ a # NoPos /\ b # NoPos
  BY <1>1, TTLAssumption DEF IndexInverse, Entry
<1>3. heap'[a] = heap[b] /\ heap'[b] = heap[a]
  BY <1>1
<1>4. CASE k = heap[a].key
  <2>1. index'[k] = b
    BY <1>1, <1>2, <1>4
  <2> QED BY <1>2, <1>3, <1>4, <2>1 DEF GetExpiry
<1>5. CASE k = heap[b].key
  <2>1. index'[k] = a
    BY <1>1, <1>2, <1>5
  <2> QED BY <1>2, <1>3, <1>5, <2>1 DEF GetExpiry
<1>6. CASE k # heap[a].key /\ k # heap[b].key
  <2>1. index'[k] = index[k]
    BY <1>1, <1>2, <1>6
  <2>2. CASE index[k] = NoPos
    BY <2>1, <2>2 DEF GetExpiry
  <2>3. CASE index[k] # NoPos
    <3>1. index[k] \in Positions /\ heap[index[k]].key = k
      BY <1>1, <2>3 DEF IndexInverse
    <3>2. heap'[index[k]] = heap[index[k]]
      BY <1>1, <1>6, <3>1
    <3> QED BY <2>1, <2>3, <3>2 DEF GetExpiry
  <2> QED BY <2>2, <2>3
<1> QED BY <1>4, <1>5, <1>6

\* remove_expiry removes one deadline and changes no other.
LEMMA RemoveKeepsOthers ==
  ASSUME TTLInv, NEW k \in Key, index[k] # NoPos, NEW ret, Remove(k, ret), NEW kk \in Key
  PROVE  /\ kk = k => index'[kk] = NoPos /\ GetExpiry(kk)' = NoDeadline
         /\ kk # k => GetExpiry(kk)' = GetExpiry(kk)
         /\ index[kk] = NoPos => index'[kk] = NoPos
<1> DEFINE p == index[k]
           l == n - 1
<1>1. p \in Positions /\ heap[p].key = k /\ n \in Nat /\ p \in Nat /\ p < n
  BY StateFacts DEF TTLInv, TypeOK, IndexInverse
<1>2. l \in Positions /\ l \in Nat /\ heap[l].key \in Key
  BY <1>1, StateFacts DEF Positions
<1>3. index[heap[l].key] = l /\ l # NoPos
  BY <1>2, TTLAssumption DEF TTLInv, IndexInverse
<1>4. /\ heap' = [q \in 0 .. n - 2 |-> IF q = p THEN heap[l] ELSE heap[q]]
      /\ index' = [[index EXCEPT ![heap[l].key] = p] EXCEPT ![k] = NoPos]
      /\ index \in [Key -> Positions \cup {NoPos}]
  BY DEF Remove, TTLInv, TypeOK
<1>5. /\ index'[k] = NoPos
      /\ kk # k /\ kk = heap[l].key => index'[kk] = p
      /\ kk # k /\ kk # heap[l].key => index'[kk] = index[kk]
  BY <1>2, <1>4
<1>6. l = n - 1 /\ p # NoPos
  OBVIOUS
<1> HIDE DEF p, l
<1>7. CASE kk = k
  BY <1>5, <1>7 DEF GetExpiry
<1>8. CASE kk # k /\ kk = heap[l].key
  <2>1. p # l /\ p \in 0 .. n - 2
    BY <1>1, <1>2, <1>6, <1>8
  <2>2. heap'[p] = heap[l]
    BY <1>4, <2>1
  <2> QED BY <1>3, <1>5, <1>6, <1>8, <2>2 DEF GetExpiry
<1>9. CASE kk # k /\ kk # heap[l].key
  <2>1. CASE index[kk] = NoPos
    BY <1>5, <1>9, <2>1 DEF GetExpiry
  <2>2. CASE index[kk] # NoPos
    <3>1. index[kk] \in Positions /\ heap[index[kk]].key = kk
      BY <1>4, <2>2 DEF TTLInv, IndexInverse
    <3>2. index[kk] # p /\ index[kk] # l /\ index[kk] \in Nat /\ index[kk] < n
      BY <1>1, <1>9, <3>1, StateFacts
    <3>3. index[kk] \in 0 .. n - 2
      BY <1>1, <1>6, <3>2
    <3>4. heap'[index[kk]] = heap[index[kk]]
      BY <1>4, <3>2, <3>3
    <3> QED BY <1>5, <1>9, <2>2, <3>4 DEF GetExpiry
  <2> QED BY <2>1, <2>2
<1> QED BY <1>7, <1>8, <1>9

\* A step that changes no deadline and puts nothing aside leaves the table alone.
LEMMA ShownKept ==
  ASSUME expired' = expired, \A k \in Key : GetExpiry(k)' = GetExpiry(k)
  PROVE  Shown' = Shown
BY DEF Shown, Pending

\* Such a step keeps EvictInv if it does not move the clock back.
LEMMA EvictInvKept ==
  ASSUME EvictInv, TypeOK, expired' = expired, caller' = caller, now' = now,
         \A k \in Key : index[k] = NoPos => index'[k] = NoPos
  PROVE  EvictInv'
<1>1. \A e \in expired : e.key \in Key
  BY DEF TypeOK, Entry
<1> QED BY <1>1 DEF EvictInv

\* Outside an eviction the table shows what get_expiry returns.
LEMMA ShownIdle ==
  ASSUME expired = {}
  PROVE  Shown = [k \in Key |-> GetExpiry(k)]
BY DEF Shown, Pending

\* The sifts change no deadline.
LEMMA SiftRefines ==
  ASSUME TTLInv, EvictInv, SiftUp \/ SiftDown
  PROVE  EvictInv' /\ Shown' = Shown /\ UNCHANGED <<now, evicted>>
<1>1. UNCHANGED <<now, n, caller, expired, evicted>>
  BY DEF SiftUp, SiftDown
<1>2. TypeOK /\ IndexInverse /\ n \in Nat
  BY DEF TTLInv, TypeOK
<1>3. \/ UNCHANGED <<heap, index>>
      \/ \E a, b \in Positions : a # b /\ SwapEntries(a, b)
  <2>1. CASE SiftUp /\ Rises(i)
    <3>1. i \in Positions /\ i > 0 /\ SwapEntries(Parent(i), i)
      BY <1>2, <2>1 DEF SiftUp, Rises, TypeOK
    <3>2. Parent(i) \in Positions /\ Parent(i) # i
      BY <1>2, <3>1, ParentPosition
    <3> QED BY <3>1, <3>2
  <2>2. CASE SiftDown /\ Smallest(i) # i
    <3>1. i \in Positions /\ SwapEntries(i, Smallest(i))
      BY <1>2, <2>2 DEF SiftDown, TypeOK
    <3>2. Smallest(i) \in Positions
      BY <1>2, <3>1, SmallestFacts
    <3> QED BY <2>2, <3>1, <3>2
  <2> QED BY <2>1, <2>2 DEF SiftUp, SiftDown
<1>4. \A k \in Key : GetExpiry(k)' = GetExpiry(k) /\ (index[k] = NoPos => index'[k] = NoPos)
  <2>1. CASE UNCHANGED <<heap, index>>
    BY <2>1 DEF GetExpiry
  <2>2. CASE \E a, b \in Positions : a # b /\ SwapEntries(a, b)
    BY <1>1, <1>2, <2>2, SwapKeepsDeadlines
  <2> QED BY <1>3, <2>1, <2>2
<1> QED BY <1>1, <1>2, <1>4, ShownKept, EvictInvKept

\* set_expiry sets one deadline and changes no other.
LEMMA SetExpiryRefines ==
  ASSUME TTLInv, EvictInv, NEW k \in Key, NEW ttl \in Ttl, SetExpiry(k, ttl)
  PROVE  /\ EvictInv' /\ Shown' = [Shown EXCEPT ![k] = now + ttl]
         /\ evicted' = {} /\ now' = now
<1>1. /\ pc = "idle" /\ evicted' = {} /\ now' = now
      /\ caller' = caller /\ expired' = expired
  BY DEF SetExpiry
<1>2. expired = {} /\ expired' = {} /\ EvictInv'
  BY <1>1 DEF TTLInv, CallInv, EvictInv
<1>3. /\ n \in Nat /\ heap \in [Positions -> Entry]
      /\ index \in [Key -> Positions \cup {NoPos}] /\ n # NoPos
  BY TTLAssumption DEF TTLInv, TypeOK
<1>4. ASSUME NEW kk \in Key
      PROVE  GetExpiry(kk)' = IF kk = k THEN now + ttl ELSE GetExpiry(kk)
  <2>1. kk # k /\ index[kk] # NoPos => index[kk] \in Positions /\ index[kk] # index[k]
    BY <1>3, TTLAssumption DEF TTLInv, IndexInverse
  <2>2. CASE index[k] # NoPos /\ Update(k, now + ttl)
    <3>1. /\ heap' = [heap EXCEPT ![index[k]].at = now + ttl] /\ index' = index
          /\ index[k] \in Positions /\ heap[index[k]] \in Entry
      BY <1>3, <2>2 DEF Update
    <3>2. heap'[index[k]].at = now + ttl
      BY <1>3, <3>1 DEF Entry
    <3>3. kk # k /\ index[kk] # NoPos => heap'[index[kk]] = heap[index[kk]]
      BY <1>3, <2>1, <3>1
    <3>4. CASE kk = k
      BY <2>2, <3>1, <3>2, <3>4 DEF GetExpiry
    <3>5. CASE kk # k
      <4>1. index' = index
        BY <3>1
      <4> QED BY <3>3, <3>5, <4>1 DEF GetExpiry
    <3> QED BY <3>4, <3>5
  <2>3. CASE index[k] = NoPos /\ Push(k, now + ttl)
    <3>1. /\ heap' = [p \in 0 .. n |-> IF p = n THEN [at |-> now + ttl, key |-> k]
                                                ELSE heap[p]]
          /\ index' = [index EXCEPT ![k] = n]
      BY <2>3 DEF Push
    <3>2. index'[k] = n /\ heap'[n].at = now + ttl
      BY <1>3, <3>1
    <3>3. kk # k => index'[kk] = index[kk]
      BY <1>3, <3>1
    <3>4. kk # k /\ index[kk] # NoPos => heap'[index[kk]] = heap[index[kk]]
      BY <1>3, <2>1, <3>1 DEF Positions
    <3> QED BY <1>3, <3>2, <3>3, <3>4 DEF GetExpiry
  <2> QED BY <2>2, <2>3 DEF SetExpiry
<1>5. Shown' = [kk \in Key |-> GetExpiry(kk)']
  BY <1>2 DEF Shown, Pending
<1> QED BY <1>1, <1>2, <1>4, <1>5, ShownIdle

\* remove_expiry clears one deadline and changes no other.
LEMMA RemoveExpiryRefines ==
  ASSUME TTLInv, EvictInv, NEW k \in Key, RemoveExpiry(k)
  PROVE  /\ EvictInv' /\ Shown' = [Shown EXCEPT ![k] = NoDeadline]
         /\ evicted' = {} /\ now' = now
<1>1. /\ pc = "idle" /\ index[k] # NoPos /\ Remove(k, "idle") /\ evicted' = {}
      /\ now' = now /\ expired' = expired
  BY DEF RemoveExpiry
<1>2. expired = {} /\ expired' = {} /\ EvictInv'
  BY <1>1 DEF TTLInv, CallInv, EvictInv
<1>3. \A kk \in Key : GetExpiry(kk)' = IF kk = k THEN NoDeadline ELSE GetExpiry(kk)
  BY <1>1, RemoveKeepsOthers
<1>4. Shown' = [kk \in Key |-> GetExpiry(kk)']
  BY <1>2 DEF Shown, Pending
<1> QED BY <1>1, <1>2, <1>3, <1>4, ShownIdle

\* An entry that evict_expired puts aside is still in the table.
LEMMA PutAsideRefines ==
  ASSUME TTLInv, EvictInv, EvictExpired, RootDue
  PROVE  EvictInv' /\ Shown' = Shown /\ UNCHANGED <<now, evicted>>
<1> DEFINE root == heap[0]
<1>1. /\ pc = "evict" /\ Remove(root.key, "evict") /\ now' = now /\ evicted' = evicted
      /\ expired' = expired \cup {root} /\ caller' = "evict"
  BY DEF EvictExpired, Remove
<1>2. 0 \in Positions /\ root \in Entry /\ root.key \in Key /\ root.at <= now
  BY StateFacts DEF RootDue
<1>3. index[root.key] = 0 /\ index[root.key] # NoPos
  BY <1>2, TTLAssumption DEF TTLInv, IndexInverse
<1>4. GetExpiry(root.key) = root.at
  BY <1>3 DEF GetExpiry
<1>5. \A kk \in Key : /\ kk = root.key => index'[kk] = NoPos
                      /\ kk # root.key => GetExpiry(kk)' = GetExpiry(kk)
                      /\ index[kk] = NoPos => index'[kk] = NoPos
  BY <1>1, <1>2, <1>3, RemoveKeepsOthers
<1> HIDE DEF root
<1>6. \A e \in expired : e.key \in Key /\ e.key # root.key /\ index[e.key] = NoPos /\ e.at <= now
  BY <1>3 DEF EvictInv, TTLInv, TypeOK, Entry
<1>7. EvictInv'
  BY <1>1, <1>2, <1>5, <1>6 DEF EvictInv
<1>8. ASSUME NEW k \in Key PROVE Shown'[k] = Shown[k]
  <2>1. CASE k = root.key
    <3>1. Shown[k] = root.at
      BY <1>4, <1>6, <2>1, ShownFacts
    <3>2. Pending(k)' = {root.at}
      BY <1>1, <1>6, <2>1 DEF Pending
    <3> QED BY <3>1, <3>2 DEF Shown
  <2>2. CASE k # root.key
    <3>1. Pending(k)' = Pending(k)
      BY <1>1, <2>2 DEF Pending
    <3> QED BY <1>5, <2>2, <3>1 DEF Shown
  <2> QED BY <2>1, <2>2
<1>9. Shown' = Shown
  BY <1>8 DEF Shown
<1> QED BY <1>1, <1>7, <1>9

\* evict_expired stops when the root is not due, and then nothing is: what it
\* returns is what was due when it was called.
LEMMA EvictEndRefines ==
  ASSUME TTLInv, EvictInv, EvictExpired, ~RootDue
  PROVE  /\ EvictInv' /\ now' = now
         /\ evicted' = {k \in Key : Shown[k] # NoDeadline /\ Shown[k] <= now}
         /\ Shown' = [k \in Key |-> IF k \in evicted' THEN NoDeadline ELSE Shown[k]]
<1>1. /\ pc = "evict" /\ caller' = "idle" /\ expired' = {}
      /\ evicted' = {e.key : e \in expired} /\ UNCHANGED <<heap, n, index, now>>
  BY DEF EvictExpired
<1>2. EvictInv'
  BY <1>1 DEF EvictInv
<1>3. \A p \in Positions : heap[0].at <= heap[p].at
  BY <1>1, OrderedRootEarliest DEF TTLInv, HeapOrder
<1>4. \A p \in Positions : heap[p].at \in Int /\ ~(heap[p].at <= now)
  <2>1. ASSUME NEW p \in Positions PROVE heap[p].at \in Int /\ ~(heap[p].at <= now)
    <3>1. n > 0 /\ 0 \in Positions
      BY StateFacts DEF Positions
    <3>2. heap[0].at \in Int /\ heap[p].at \in Int /\ now \in Int
      BY <3>1, StateFacts DEF TTLInv, TypeOK
    <3> QED BY <1>3, <3>1, <3>2 DEF RootDue
  <2> QED BY <2>1
<1>5. \A e \in expired : /\ e.key \in Key /\ e.at \in Int /\ e.at <= now
                         /\ index[e.key] = NoPos
  BY DEF EvictInv, TTLInv, TypeOK, Entry
<1>6. ASSUME NEW k \in Key
      PROVE  /\ k \in evicted' <=> Shown[k] # NoDeadline /\ Shown[k] <= now
             /\ GetExpiry(k) = IF k \in evicted' THEN NoDeadline ELSE Shown[k]
  <2>1. CASE k \in evicted'
    <3>1. PICK e \in expired : e.key = k
      BY <1>1, <2>1
    <3>2. Shown[k] = e.at /\ Shown[k] # NoDeadline /\ Shown[k] <= now
      BY <1>5, <3>1, ShownFacts, TTLAssumption
    <3>3. GetExpiry(k) = NoDeadline
      BY <1>5, <3>1 DEF GetExpiry
    <3> QED BY <2>1, <3>2, <3>3
  <2>2. CASE k \notin evicted'
    <3>1. Shown[k] = GetExpiry(k)
      BY <1>1, <2>2, ShownFacts
    <3>2. index[k] # NoPos => index[k] \in Positions
      BY DEF TTLInv, TypeOK
    <3>3. GetExpiry(k) = NoDeadline \/ ~(GetExpiry(k) <= now)
      BY <1>4, <3>2 DEF GetExpiry
    <3> QED BY <2>2, <3>1, <3>3
  <2> QED BY <2>1, <2>2
<1>7. evicted' \subseteq Key
  BY <1>1, <1>5
<1>8. evicted' = {k \in Key : Shown[k] # NoDeadline /\ Shown[k] <= now}
  BY <1>6, <1>7
<1>9. Shown' = [k \in Key |-> GetExpiry(k)]
  BY <1>1 DEF Shown, Pending, GetExpiry
<1>10. Shown' = [k \in Key |-> IF k \in evicted' THEN NoDeadline ELSE Shown[k]]
  BY <1>6, <1>9
<1> QED BY <1>1, <1>2, <1>8, <1>10

\* evict_expired is called, the clock advances, or nothing happens.
LEMMA QuietRefines ==
  ASSUME TTLInv, EvictInv, StartEvict \/ Pass \/ UNCHANGED vars
  PROVE  EvictInv' /\ Shown' = Shown
<1>1. expired' = expired /\ index' = index /\ heap' = heap
  BY DEF StartEvict, Pass, vars
<1>2. EvictInv'
  <2>1. CASE StartEvict \/ Pass
    <3>1. pc = "idle"
      BY <2>1 DEF StartEvict, Pass
    <3> QED BY <1>1, <3>1 DEF EvictInv, TTLInv, CallInv
  <2>2. CASE UNCHANGED vars
    BY <2>2 DEF vars, call, EvictInv
  <2> QED BY <2>1, <2>2
<1>3. \A k \in Key : GetExpiry(k)' = GetExpiry(k)
  BY <1>1 DEF GetExpiry
<1> QED BY <1>1, <1>2, <1>3, ShownKept

\* Every step of the heap is a step of the abstract table, or none.
LEMMA StepRefines ==
  ASSUME TTLInv, EvictInv, [Next]_vars
  PROVE  EvictInv' /\ [D!Next]_<<now, Shown, evicted>>
<1>1. ASSUME NEW k \in Key, RemoveExpiry(k) PROVE EvictInv' /\ D!RemoveExpiry(k)
  BY <1>1, RemoveExpiryRefines DEF D!RemoveExpiry, Shown
<1>2. ASSUME NEW k \in Key, NEW ttl \in Ttl, SetExpiry(k, ttl)
      PROVE  EvictInv' /\ D!SetExpiry(k, ttl)
  BY <1>2, SetExpiryRefines DEF D!SetExpiry, Shown
<1>3. CASE SiftUp \/ SiftDown
  BY <1>3, SiftRefines
<1>4. CASE EvictExpired /\ RootDue
  BY <1>4, PutAsideRefines
<1>5. CASE EvictExpired /\ ~RootDue
  <2>1. EvictInv' /\ D!EvictExpired
    BY <1>5, EvictEndRefines DEF D!EvictExpired, D!Due, Shown
  <2> QED BY <2>1 DEF D!Next
<1>6. CASE StartEvict
  <2>1. EvictInv' /\ D!StartEvict
    BY <1>6, QuietRefines DEF StartEvict, D!StartEvict, Shown
  <2> QED BY <2>1 DEF D!Next
<1>7. CASE Pass
  <2>1. EvictInv' /\ D!Pass
    BY <1>7, QuietRefines DEF Pass, D!Pass, Shown
  <2> QED BY <2>1 DEF D!Next
<1>8. CASE UNCHANGED vars
  BY <1>8, QuietRefines DEF vars
<1> QED BY <1>1, <1>2, <1>3, <1>4, <1>5, <1>6, <1>7, <1>8 DEF Next, D!Next

\* The heap of any size implements the abstract table of deadlines: sifting
\* changes, loses and invents none, and evict_expired returns exactly the keys
\* that were due (ttl.cpp:9-57).
THEOREM DeadlinesRefined == Spec => ImplementsDeadlines
<1>1. Init => EvictInv /\ D!Init
  BY DEF Init, EvictInv, D!Init, Pending, GetExpiry
<1>2. TTLInv /\ EvictInv /\ [Next]_vars => EvictInv' /\ [D!Next]_<<now, Shown, evicted>>
  BY StepRefines
<1>3. <<now, Shown, evicted>> = <<now, [k \in Key |-> IF Pending(k) = {} THEN GetExpiry(k)
                                  ELSE CHOOSE at \in Pending(k) : TRUE], evicted>>
  BY DEF Shown
<1> QED BY <1>1, <1>2, <1>3, TTLInvAlways, PTL DEF Spec, ImplementsDeadlines, D!Spec, Shown
=============================================================================
