------------------------- MODULE RobinHoodMapProofs -------------------------
(***************************************************************************)
(* The Robin Hood table, for any keys, any hash function and any capacity: *)
(* the probe order, the uniqueness of keys and the exact size survive      *)
(* insertion with displacement, rehashing and the backward shift.          *)
(***************************************************************************)
EXTENDS RobinHoodMap, FiniteSetTheorems, TLAPS

Entry == [key : Key \cup {NoKey}, val : Val \cup {NoVal}, dib : Nat]
Request == [op : {"none", "set", "get", "del"}, key : Key \cup {NoKey},
            val : Val \cup {NoVal}]
Probes == {"insert", "rehash", "find"}

Table == /\ hashOf \in [Key -> HashCode]
         /\ capacity \in Nat /\ capacity >= 2
         /\ entries \in [Slots -> Entry]

Locals == /\ size \in Int /\ idx \in Slots /\ probe \in Entry /\ req \in Request
          /\ pc \in {"idle", "grow", "erase"} \cup Probes

\* Which call each loop serves.
Serving == /\ pc # "idle" => req.key \in Key
           /\ pc \in {"insert", "grow", "rehash"} => req.op = "set" /\ req.val \in Val
           /\ pc = "find" => req.op \in {"get", "del"} /\ probe.key = req.key
           /\ pc = "erase" => req.op = "del" /\ idx \in Occupied

TypeOK == Table /\ Locals /\ Serving

-----------------------------------------------------------------------------
(***************************************************************************)
(* Slots form a ring.                                                      *)
(***************************************************************************)
LEMMA ModRange ==
  ASSUME NEW h \in Nat, NEW c \in Nat, c > 0
  PROVE  h % c \in 0 .. c - 1
OBVIOUS

\* The next slot is one further, or the first slot after the last.
LEMMA ModNext ==
  ASSUME NEW c \in Nat, NEW i \in 0 .. c - 1
  PROVE  (i + 1) % c = IF i + 1 = c THEN 0 ELSE i + 1
<1>1. CASE i + 1 = c
  <2>1. c > 0
    BY <1>1
  <2>2. c % c = 0
    BY <2>1
  <2> QED BY <1>1, <2>2
<1>2. CASE i + 1 < c
  <2> DEFINE n == i + 1
  <2>1. n \in 0 .. c - 1
    BY <1>2
  <2> HIDE DEF n
  <2>2. n % c = n
    BY <2>1
  <2> QED BY <1>2, <2>2 DEF n
<1> QED BY <1>1, <1>2

\* Distances, and how they change from a slot to the next.
LEMMA Ring ==
  ASSUME Table
  PROVE  /\ \A k \in Key : Home(k) \in Slots
         /\ \A i \in Slots : NextSlot(i) \in Slots /\ NextSlot(i) # i
         /\ \A h, i \in Slots : Dist(h, i) \in 0 .. capacity - 1
         /\ \A h \in Slots : Dist(h, h) = 0
         /\ \A h, i, j \in Slots : Dist(h, i) = Dist(h, j) => i = j
         /\ \A h, i \in Slots : Dist(h, i) + 1 < capacity
                                  => Dist(h, NextSlot(i)) = Dist(h, i) + 1
         /\ \A h, i \in Slots : Dist(h, NextSlot(i)) > 0
                                  => Dist(h, NextSlot(i)) = Dist(h, i) + 1
<1>0. capacity \in Nat /\ capacity >= 2 /\ Slots = 0 .. capacity - 1
  BY DEF Table, Slots
<1>1. ASSUME NEW k \in Key PROVE Home(k) \in Slots
  <2>1. hashOf[k] \in Nat
    BY MapAssumption DEF Table
  <2> QED BY <1>0, <2>1, ModRange DEF Home
<1>2. ASSUME NEW i \in Slots
      PROVE  /\ NextSlot(i) \in Slots /\ NextSlot(i) # i
             /\ NextSlot(i) = IF i + 1 = capacity THEN 0 ELSE i + 1
  <2>1. NextSlot(i) = IF i + 1 = capacity THEN 0 ELSE i + 1
    BY <1>0, ModNext DEF NextSlot
  <2> QED BY <1>0, <2>1
<1>3. ASSUME NEW h \in Slots, NEW i \in Slots PROVE Dist(h, i) \in 0 .. capacity - 1
  BY <1>0 DEF Dist
<1>4. ASSUME NEW h \in Slots PROVE Dist(h, h) = 0
  BY <1>0 DEF Dist
<1>5. ASSUME NEW h \in Slots, NEW i \in Slots, NEW j \in Slots, Dist(h, i) = Dist(h, j)
      PROVE  i = j
  BY <1>0, <1>5 DEF Dist
<1>6. ASSUME NEW h \in Slots, NEW i \in Slots
      PROVE  /\ Dist(h, i) + 1 < capacity => Dist(h, NextSlot(i)) = Dist(h, i) + 1
             /\ Dist(h, NextSlot(i)) > 0 => Dist(h, NextSlot(i)) = Dist(h, i) + 1
  <2>1. NextSlot(i) = IF i + 1 = capacity THEN 0 ELSE i + 1
    BY <1>2
  <2>2. h \in Int /\ i \in Int /\ 0 <= h /\ h < capacity /\ 0 <= i /\ i < capacity
    BY <1>0
  <2> QED BY <1>0, <2>1, <2>2 DEF Dist
<1> QED BY <1>1, <1>2, <1>3, <1>4, <1>5, <1>6

-----------------------------------------------------------------------------
(***************************************************************************)
(* The probe order, told by key: Path(t, k, n) says that in the table t the *)
(* n slots from the home of k on are in use by entries at least as far     *)
(* from their own homes.                                                   *)
(***************************************************************************)
Path(t, k, n) ==
  \A j \in Slots : Dist(Home(k), j) < n
                     => t[j].key # NoKey /\ t[j].dib >= Dist(Home(k), j)

Placed ==
  \A i \in Occupied : /\ entries[i].dib = Dist(Home(entries[i].key), i)
                      /\ Path(entries, entries[i].key, entries[i].dib + 1)

\* What the loop in progress carries or looks for has come from its home, and
\* if its key is in the table it is still ahead.
Probing ==
  pc \in Probes =>
    /\ probe.key \in Key
    /\ probe.dib = Dist(Home(probe.key), idx)
    /\ Path(entries, probe.key, probe.dib)
    /\ \A i \in Occupied : entries[i].key = probe.key => probe.dib <= entries[i].dib

\* An entry that was displaced, or comes from the old table, is nowhere else.
Carried ==
  pc = "rehash" \/ (pc = "insert" /\ probe.key # req.key)
    => \A i \in Occupied : entries[i].key # probe.key

\* A slot is occupied when its entry has a key.
LEMMA EntryFacts ==
  ASSUME Table
  PROVE  /\ \A i \in Slots : entries[i] \in Entry /\ entries[i].dib \in Nat
         /\ Occupied \subseteq Slots
         /\ \A i \in Slots : i \in Occupied <=> entries[i].key \in Key
         /\ \A i \in Slots : i \in Occupied <=> entries[i].key # NoKey
         /\ \A i \in Slots : i \in Occupied <=> ~IsEmpty(entries[i])
BY MapAssumption DEF Table, Entry, Occupied, IsEmpty

\* An entry whose path is occupied to its own slot is where ProbeOrder wants it.
LEMMA PlacedIsProbeOrder ==
  ASSUME TypeOK, Placed
  PROVE  ProbeOrder
<1>0. Table
  BY DEF TypeOK
<1>1. ASSUME NEW i \in Occupied, NEW j \in Slots, OnPath(i, j)
      PROVE  /\ ~IsEmpty(entries[j])
             /\ entries[j].dib >= Dist(Home(entries[i].key), j)
  <2> DEFINE h == Home(entries[i].key)
  <2>1. h \in Slots /\ entries[i].dib \in Nat
    BY <1>0, EntryFacts, Ring
  <2>2. Dist(h, j) \in Int
    BY <1>0, <2>1, Ring
  <2>3. Dist(h, j) < entries[i].dib + 1
    BY <1>1, <2>1, <2>2 DEF OnPath
  <2> QED BY <2>3 DEF Placed, Path, IsEmpty
<1> QED BY <1>1 DEF Placed, ProbeOrder

-----------------------------------------------------------------------------
(***************************************************************************)
(* What a write to one slot does to the order.                             *)
(***************************************************************************)
\* The same ring: the primed notions read the new entries only.
LEMMA SameRing ==
  ASSUME UNCHANGED <<hashOf, capacity>>
  PROVE  /\ Slots' = Slots
         /\ \A k : Home(k)' = Home(k)
         /\ \A h, i : Dist(h, i)' = Dist(h, i)
         /\ \A t, k, n : Path(t, k, n)' = Path(t, k, n)
         /\ Placed' <=>
              \A i \in Occupied' :
                 /\ entries'[i].dib = Dist(Home(entries'[i].key), i)
                 /\ Path(entries', entries'[i].key, entries'[i].dib + 1)
         /\ Probing' <=>
              (pc' \in Probes =>
                 /\ probe'.key \in Key
                 /\ probe'.dib = Dist(Home(probe'.key), idx')
                 /\ Path(entries', probe'.key, probe'.dib)
                 /\ \A i \in Occupied' : entries'[i].key = probe'.key
                                          => probe'.dib <= entries'[i].dib)
<1>1. Slots' = Slots /\ (\A k : Home(k)' = Home(k)) /\ \A h, i : Dist(h, i)' = Dist(h, i)
  BY DEF Slots, Home, Dist
<1>2. ASSUME NEW t, NEW k, NEW n PROVE Path(t, k, n)' = Path(t, k, n)
  BY DEF Path, Slots, Home, Dist
<1>3. Placed' <=>
        \A i \in Occupied' :
           /\ entries'[i].dib = Dist(Home(entries'[i].key), i)
           /\ Path(entries', entries'[i].key, entries'[i].dib + 1)
  BY DEF Placed, Slots, Home, Dist, Path
<1>4. Probing' <=>
        (pc' \in Probes =>
           /\ probe'.key \in Key
           /\ probe'.dib = Dist(Home(probe'.key), idx')
           /\ Path(entries', probe'.key, probe'.dib)
           /\ \A i \in Occupied' : entries'[i].key = probe'.key
                                    => probe'.dib <= entries'[i].dib)
  BY DEF Probing, Slots, Home, Dist, Path
<1> QED BY <1>1, <1>2, <1>3, <1>4

\* One slot of the table is overwritten.
LEMMA WriteFacts ==
  ASSUME Table, NEW s \in Slots, NEW e \in Entry,
         entries' = [entries EXCEPT ![s] = e], UNCHANGED <<hashOf, capacity>>
  PROVE  /\ Table' /\ Slots' = Slots
         /\ entries'[s] = e
         /\ \A i \in Slots : i # s => entries'[i] = entries[i]
         /\ e.key \in Key => Occupied' = Occupied \cup {s}
         /\ e.key = NoKey => Occupied' = Occupied \ {s}
<1>1. Slots' = Slots /\ Table'
  BY DEF Table, Slots
<1>2. entries'[s] = e /\ \A i \in Slots : i # s => entries'[i] = entries[i]
  BY DEF Table
<1> QED BY <1>1, <1>2, MapAssumption DEF Occupied, IsEmpty

\* An entry that has come from its home may take an empty slot or one whose
\* entry is no further from home: every path stays a path.
LEMMA WriteUp ==
  ASSUME Table, Placed, NEW s \in Slots, NEW e \in Entry,
         entries' = [entries EXCEPT ![s] = e], UNCHANGED <<hashOf, capacity>>,
         e.key \in Key, e.dib = Dist(Home(e.key), s), Path(entries, e.key, e.dib),
         s \in Occupied => e.dib >= entries[s].dib
  PROVE  /\ \A k \in Key : \A n : Path(entries, k, n) => Path(entries', k, n)
         /\ Placed'
<1>0. /\ Slots' = Slots /\ Occupied' = Occupied \cup {s}
      /\ entries'[s] = e
      /\ \A i \in Slots : i # s => entries'[i] = entries[i]
      /\ e.key # NoKey
  BY WriteFacts, MapAssumption
<1>1. /\ \A i \in Slots : entries[i].dib \in Nat
      /\ \A i \in Slots : i \in Occupied <=> entries[i].key # NoKey
      /\ \A i \in Occupied : entries[i].key \in Key
      /\ e.dib \in Nat /\ Occupied \subseteq Slots
  BY EntryFacts DEF Entry
<1>2. ASSUME NEW k \in Key, NEW n, Path(entries, k, n) PROVE Path(entries', k, n)
  <2>1. ASSUME NEW j \in Slots, Dist(Home(k), j) < n
        PROVE  entries'[j].key # NoKey /\ entries'[j].dib >= Dist(Home(k), j)
    <3>1. entries[j].key # NoKey /\ entries[j].dib >= Dist(Home(k), j)
      BY <1>2, <2>1 DEF Path
    <3>2. CASE j # s
      BY <1>0, <3>1, <3>2
    <3>3. CASE j = s
      <4>1. Dist(Home(k), j) \in Nat
        BY Ring
      <4> QED BY <1>0, <1>1, <3>1, <3>3, <4>1
    <3> QED BY <3>2, <3>3
  <2> QED BY <2>1 DEF Path
<1>3. ASSUME NEW i \in Occupied'
      PROVE  /\ entries'[i].dib = Dist(Home(entries'[i].key), i)
             /\ Path(entries', entries'[i].key, entries'[i].dib + 1)
  <2>1. CASE i # s
    <3>1. i \in Occupied /\ entries'[i] = entries[i]
      BY <1>0, <1>1, <2>1
    <3> QED BY <1>1, <1>2, <3>1 DEF Placed
  <2>2. CASE i = s
    <3>1. ASSUME NEW j \in Slots, Dist(Home(e.key), j) < e.dib + 1
          PROVE  entries'[j].key # NoKey /\ entries'[j].dib >= Dist(Home(e.key), j)
      <4>1. CASE j = s
        <5>1. Dist(Home(e.key), j) = e.dib
          BY <4>1
        <5> QED BY <1>0, <1>1, <4>1, <5>1
      <4>2. CASE j # s
        <5>0. Home(e.key) \in Slots
          BY Ring
        <5>1. Dist(Home(e.key), j) # e.dib /\ Dist(Home(e.key), j) \in Nat
          BY <4>2, <5>0, Ring
        <5>2. Dist(Home(e.key), j) < e.dib
          BY <1>1, <3>1, <5>1
        <5>3. entries[j].key # NoKey /\ entries[j].dib >= Dist(Home(e.key), j)
          BY <5>2 DEF Path
        <5> QED BY <1>0, <4>2, <5>3
      <4> QED BY <4>1, <4>2
    <3>2. Path(entries', e.key, e.dib + 1)
      BY <3>1 DEF Path
    <3> QED BY <1>0, <2>2, <3>2
  <2> QED BY <2>1, <2>2
<1> QED BY <1>2, <1>3, SameRing

\* An empty slot is on nobody's path: a key that would be ahead is not there.
LEMMA EmptyEndsProbe ==
  ASSUME Table, Placed, NEW s \in Slots, NEW k \in Key, NEW n,
         n = Dist(Home(k), s),
         entries[s].key = NoKey \/ n > entries[s].dib,
         \A i \in Occupied : entries[i].key = k => n <= entries[i].dib
  PROVE  \A i \in Occupied : entries[i].key # k
<1> SUFFICES ASSUME NEW i \in Occupied, entries[i].key = k PROVE FALSE
  OBVIOUS
<1>1. n \in Nat /\ entries[i].dib \in Nat /\ entries[s].dib \in Nat
  BY Ring, EntryFacts
<1>2. n < entries[i].dib + 1
  BY <1>1
<1>3. entries[s].key # NoKey /\ entries[s].dib >= n
  BY <1>2 DEF Placed, Path
<1> QED BY <1>1, <1>3

\* A path that leads past a slot leads to the next one, one further from home.
LEMMA PathGoesOn ==
  ASSUME Table, Placed, NEW s \in Slots, NEW i \in Occupied, i # s,
         Dist(Home(entries[i].key), s) < entries[i].dib + 1
  PROVE  /\ NextSlot(s) \in Occupied
         /\ entries[NextSlot(s)].dib >= Dist(Home(entries[i].key), s) + 1
<1> DEFINE h == Home(entries[i].key)
           n == NextSlot(s)
<1>1. i \in Slots /\ h \in Slots /\ n \in Slots /\ entries[i].dib \in Nat /\ capacity \in Nat
  BY EntryFacts, Ring DEF Table
<1>2. Dist(h, s) \in Nat /\ Dist(h, i) \in 0 .. capacity - 1 /\ Dist(h, s) # Dist(h, i)
  BY <1>1, Ring
<1>3. entries[i].dib = Dist(h, i)
  BY DEF Placed
<1>4. Dist(h, s) + 1 <= entries[i].dib /\ Dist(h, s) + 1 < capacity
  BY <1>1, <1>2, <1>3
<1>5. Dist(h, n) = Dist(h, s) + 1
  BY <1>1, <1>4, Ring
<1>6. Dist(h, n) < entries[i].dib + 1
  BY <1>1, <1>2, <1>4, <1>5
<1>7. entries[n].key # NoKey /\ entries[n].dib >= Dist(h, n)
  BY <1>1, <1>6 DEF Placed, Path
<1> QED BY <1>1, <1>5, <1>7, EntryFacts

\* erase_at moves the next entry back by one slot.
LEMMA ShiftDown ==
  ASSUME Table, Placed, NEW s \in Occupied, NextSlot(s) \in Occupied,
         entries[NextSlot(s)].dib # 0, NEW e, e = [entries[NextSlot(s)] EXCEPT !.dib = @ - 1],
         entries' = [entries EXCEPT ![s] = e], UNCHANGED <<hashOf, capacity>>
  PROVE  e \in Entry /\ e.key = entries[NextSlot(s)].key /\ Placed'
<1> DEFINE n == NextSlot(s)
           h == Home(e.key)
<1>1. /\ s \in Slots /\ n \in Slots /\ entries[n] \in Entry /\ entries[n].dib \in Nat
      /\ entries[n].key \in Key
  BY EntryFacts
<1>2. /\ e \in Entry /\ e.key = entries[n].key /\ e.dib = entries[n].dib - 1
  BY <1>1 DEF Entry
<1>3. h \in Slots /\ Dist(h, s) \in Nat
  BY <1>1, <1>2, Ring
<1>4. entries[n].dib = Dist(h, n) /\ Path(entries, e.key, entries[n].dib + 1)
  BY <1>2 DEF Placed
<1>5. e.dib = Dist(h, s) /\ entries[n].dib = Dist(h, s) + 1
  BY <1>1, <1>2, <1>3, <1>4, Ring
<1>6. /\ Slots' = Slots /\ Occupied' = Occupied
      /\ entries'[s] = e
      /\ \A i \in Slots : i # s => entries'[i] = entries[i]
      /\ e.key # NoKey
  <2>1. e.key \in Key /\ e.key # NoKey
    BY <1>1, <1>2, MapAssumption
  <2>2. /\ Slots' = Slots /\ Occupied' = Occupied \cup {s} /\ entries'[s] = e
        /\ \A i \in Slots : i # s => entries'[i] = entries[i]
    BY <1>1, <1>2, <2>1, WriteFacts
  <2> QED BY <2>1, <2>2
<1> HIDE DEF n
<1>7. ASSUME NEW i \in Occupied'
      PROVE  /\ entries'[i].dib = Dist(Home(entries'[i].key), i)
             /\ Path(entries', entries'[i].key, entries'[i].dib + 1)
  <2>0. i \in Occupied /\ i \in Slots /\ entries[i].dib \in Nat
    BY <1>6, EntryFacts
  <2>1. CASE i = s
    <3>1. ASSUME NEW j \in Slots, Dist(h, j) < e.dib + 1
          PROVE  entries'[j].key # NoKey /\ entries'[j].dib >= Dist(h, j)
      <4>0. Dist(h, j) \in Nat
        BY <1>3, Ring
      <4>1. entries[j].key # NoKey /\ entries[j].dib >= Dist(h, j)
        <5>1. Dist(h, j) < entries[n].dib + 1
          BY <1>1, <1>2, <3>1, <4>0
        <5> QED BY <1>4, <5>1 DEF Path
      <4>2. CASE j = s
        <5>1. entries'[j] = e /\ e.dib = Dist(h, j)
          BY <1>5, <1>6, <4>2
        <5>2. Dist(h, j) >= Dist(h, j)
          BY <4>0
        <5> QED BY <1>6, <5>1, <5>2, Zenon
      <4>3. CASE j # s
        BY <1>6, <4>1, <4>3
      <4> QED BY <4>2, <4>3
    <3>2. Path(entries', e.key, e.dib + 1)
      BY <3>1 DEF Path
    <3> QED BY <1>5, <1>6, <2>1, <3>2
  <2>2. CASE i # s
    <3>1. entries'[i] = entries[i]
      BY <1>6, <2>0, <2>2
    <3> DEFINE g == Home(entries[i].key)
    <3>2. ASSUME NEW j \in Slots, Dist(g, j) < entries[i].dib + 1
          PROVE  entries'[j].key # NoKey /\ entries'[j].dib >= Dist(g, j)
      <4>1. CASE j # s
        BY <1>6, <2>0, <3>2, <4>1 DEF Placed, Path
      <4>2. CASE j = s
        <5>1. entries[n].dib >= Dist(g, s) + 1
          BY <1>1, <2>0, <2>2, <3>2, <4>2, PathGoesOn DEF n
        <5>2. Dist(g, s) \in Nat
          BY <1>1, <2>0, EntryFacts, Ring
        <5>3. e.dib >= Dist(g, s)
          BY <1>1, <1>2, <5>1, <5>2
        <5> QED BY <1>6, <4>2, <5>3
      <4> QED BY <4>1, <4>2
    <3>3. Path(entries', entries[i].key, entries[i].dib + 1)
      BY <3>2 DEF Path
    <3> QED BY <2>0, <3>1, <3>3 DEF Placed
  <2> QED BY <2>1, <2>2
<1>8. Placed'
  BY <1>7, SameRing
<1> QED BY <1>2, <1>8 DEF n

\* The last slot of the run is cleared: no path leads through it.
LEMMA ClearEnd ==
  ASSUME Table, Placed, NEW s \in Occupied,
         NextSlot(s) \notin Occupied \/ entries[NextSlot(s)].dib = 0,
         entries' = [entries EXCEPT ![s] = EmptySlot], UNCHANGED <<hashOf, capacity>>
  PROVE  Placed'
<1>1. s \in Slots /\ EmptySlot \in Entry /\ EmptySlot.key = NoKey
  BY EntryFacts DEF EmptySlot, Entry
<1>2. /\ Slots' = Slots /\ Occupied' = Occupied \ {s}
      /\ \A i \in Slots : i # s => entries'[i] = entries[i]
  BY <1>1, WriteFacts
<1>3. ASSUME NEW i \in Occupied'
      PROVE  /\ entries'[i].dib = Dist(Home(entries'[i].key), i)
             /\ Path(entries', entries'[i].key, entries'[i].dib + 1)
  <2>0. i \in Occupied /\ i \in Slots /\ i # s /\ entries'[i] = entries[i]
    BY <1>2, EntryFacts
  <2> DEFINE g == Home(entries[i].key)
  <2>1. ASSUME NEW j \in Slots, Dist(g, j) < entries[i].dib + 1
        PROVE  entries'[j].key # NoKey /\ entries'[j].dib >= Dist(g, j)
    <3>1. j # s
      <4> SUFFICES ASSUME j = s PROVE FALSE
        OBVIOUS
      <4>1. NextSlot(s) \in Occupied /\ entries[NextSlot(s)].dib >= Dist(g, s) + 1
        BY <2>0, <2>1, PathGoesOn
      <4>2. Dist(g, s) \in Nat
        BY <1>1, <2>0, EntryFacts, Ring
      <4> QED BY <4>1, <4>2
    <3> QED BY <1>2, <2>0, <2>1, <3>1 DEF Placed, Path
  <2>2. Path(entries', entries[i].key, entries[i].dib + 1)
    BY <2>1 DEF Path
  <2> QED BY <2>0, <2>2 DEF Placed
<1> QED BY <1>3, SameRing

\* A path grows by a slot whose entry is far enough from home.
LEMMA PathExtends ==
  ASSUME Table, NEW k \in Key, NEW s \in Slots, NEW n, n = Dist(Home(k), s),
         Path(entries, k, n), entries[s].key # NoKey, entries[s].dib >= n
  PROVE  Path(entries, k, n + 1)
<1>1. ASSUME NEW j \in Slots, Dist(Home(k), j) < n + 1
      PROVE  entries[j].key # NoKey /\ entries[j].dib >= Dist(Home(k), j)
  <2>1. Home(k) \in Slots /\ n \in Nat
    BY Ring
  <2>2. Dist(Home(k), j) \in Nat
    BY <2>1, Ring
  <2>3. CASE j = s
    BY <2>3
  <2>4. CASE j # s
    <3>1. Dist(Home(k), j) # n
      BY <2>1, <2>4, Ring
    <3>2. Dist(Home(k), j) < n
      BY <1>1, <2>1, <2>2, <3>1
    <3> QED BY <3>2 DEF Path
  <2> QED BY <2>3, <2>4
<1> QED BY <1>1 DEF Path

\* Every slot in use: the table would be full.
LEMMA Room ==
  ASSUME Table, Cardinality(Occupied) < capacity
  PROVE  \E e \in Slots : entries[e].key = NoKey
<1> SUFFICES ASSUME \A e \in Slots : entries[e].key # NoKey PROVE FALSE
  OBVIOUS
<1>1. Occupied = 0 .. capacity - 1
  BY EntryFacts DEF Slots
<1>2. Cardinality(0 .. capacity - 1) = capacity
  BY FS_Interval DEF Table
<1> QED BY <1>1, <1>2 DEF Table

\* A probe that is on a used slot can go on: it has not been all the way round.
LEMMA NoWrap ==
  ASSUME Table, Cardinality(Occupied) < capacity, NEW k \in Key, NEW s \in Occupied,
         Path(entries, k, Dist(Home(k), s))
  PROVE  Dist(Home(k), NextSlot(s)) = Dist(Home(k), s) + 1
<1> DEFINE h == Home(k)
<1>1. /\ s \in Slots /\ h \in Slots /\ capacity \in Nat /\ Dist(h, s) \in 0 .. capacity - 1
      /\ entries[s].key # NoKey
  BY EntryFacts, Ring DEF Table
<1>2. PICK e \in Slots : entries[e].key = NoKey
  BY Room
<1>3. Dist(h, e) \in 0 .. capacity - 1 /\ Dist(h, e) # Dist(h, s)
  BY <1>1, <1>2, Ring
<1>4. ~(Dist(h, e) < Dist(h, s))
  BY <1>2 DEF Path
<1>5. Dist(h, s) + 1 < capacity
  BY <1>1, <1>3, <1>4
<1> QED BY <1>1, <1>5, Ring

-----------------------------------------------------------------------------
(***************************************************************************)
(* The invariant: the order, the distinct keys, the count with the room it *)
(* leaves, and what grow has moved so far.                                 *)
(***************************************************************************)
Distinct == \A i, j \in Occupied : entries[i].key = entries[j].key => i = j

Counted == /\ size = Cardinality(Occupied)
           /\ pc \in {"idle", "find", "erase"} => 4 * size <= 3 * capacity
           /\ pc = "insert" => 4 * (size + 1) <= 3 * capacity

OldUsed == {p \in DOMAIN old : ~IsEmpty(old[p])}
OldDone == {p \in OldUsed : p < oldPos}

OldTable(n) == /\ capacity = 2 * n /\ old \in [0 .. n - 1 -> Entry] /\ oldPos \in 0 .. n
               /\ 4 * Cardinality(OldUsed) <= 3 * n
               /\ \A p, q \in OldUsed : old[p].key = old[q].key => p = q

FromOld(k, m) == \E p \in OldUsed : p < m /\ old[p].key = k

Growing ==
  /\ pc \in {"grow", "rehash"} => /\ \E n \in 2 .. capacity : OldTable(n)
                                  /\ size = Cardinality(OldDone)
  /\ pc = "grow" => \A i \in Occupied : FromOld(entries[i].key, oldPos)
  /\ pc = "rehash" => /\ oldPos \in OldUsed /\ FromOld(probe.key, oldPos + 1)
                      /\ \A i \in Occupied : FromOld(entries[i].key, oldPos + 1)

MapInv == /\ TypeOK /\ Placed /\ Probing /\ Carried /\ KeysUnique
          /\ Counted /\ Growing

\* Outside erase_at the keys of occupied slots differ.
LEMMA DistinctKeys == pc # "erase" => (KeysUnique <=> Distinct)
BY DEF KeysUnique, Distinct

\* DistinctKeys in the state after a step.
LEMMA DistinctKeysNext == (pc # "erase" => (KeysUnique <=> Distinct))'
BY DistinctKeys, PTL

\* The occupied slots can be counted.
LEMMA OccupiedFinite ==
  ASSUME Table
  PROVE  IsFiniteSet(Occupied) /\ Cardinality(Occupied) \in Nat
<1>1. IsFiniteSet(0 .. capacity - 1)
  BY FS_Interval DEF Table
<1>2. Occupied \subseteq 0 .. capacity - 1
  BY DEF Occupied, Slots
<1> QED BY <1>1, <1>2, FS_Subset, FS_CardinalityType

\* OccupiedFinite in the state after a step.
LEMMA OccupiedFiniteNext == (Table => Cardinality(Occupied) \in Nat)'
<1>1. Table => Cardinality(Occupied) \in Nat
  BY OccupiedFinite
<1> QED BY <1>1, PTL

\* The entries of the table that grow() leaves behind can be counted.
LEMMA OldFacts ==
  ASSUME NEW n \in Nat, OldTable(n)
  PROVE  /\ IsFiniteSet(OldUsed) /\ Cardinality(OldUsed) \in Nat
         /\ IsFiniteSet(OldDone) /\ Cardinality(OldDone) <= Cardinality(OldUsed)
         /\ Cardinality(OldDone) \in Nat
         /\ DOMAIN old = 0 .. n - 1
         /\ \A p \in OldUsed : old[p] \in Entry /\ old[p].key \in Key
<1>1. DOMAIN old = 0 .. n - 1 /\ \A p \in 0 .. n - 1 : old[p] \in Entry
  BY DEF OldTable
<1>2. IsFiniteSet(0 .. n - 1)
  BY FS_Interval
<1>3. OldUsed \subseteq 0 .. n - 1 /\ OldDone \subseteq OldUsed
  BY <1>1 DEF OldUsed, OldDone
<1>4. IsFiniteSet(OldUsed) /\ Cardinality(OldUsed) \in Nat
  BY <1>2, <1>3, FS_Subset, FS_CardinalityType
<1>5. IsFiniteSet(OldDone) /\ Cardinality(OldDone) <= Cardinality(OldUsed)
  BY <1>3, <1>4, FS_Subset
<1>6. Cardinality(OldDone) \in Nat
  BY <1>5, FS_CardinalityType
<1>7. \A p \in OldUsed : old[p] \in Entry /\ old[p].key \in Key
  BY <1>1, <1>3 DEF OldUsed, IsEmpty, Entry
<1> QED BY <1>1, <1>4, <1>5, <1>6, <1>7

\* While a loop probes there is an empty slot.
LEMMA HasRoom ==
  ASSUME MapInv, pc \in Probes
  PROVE  Cardinality(Occupied) < capacity
<1>1. Cardinality(Occupied) \in Nat /\ capacity \in Nat /\ capacity >= 2
      /\ size = Cardinality(Occupied)
  BY OccupiedFinite DEF MapInv, TypeOK, Table, Counted
<1>2. CASE pc \in {"insert", "find"}
  <2>1. 4 * size <= 3 * capacity
    BY <1>1, <1>2 DEF MapInv, Counted
  <2> QED BY <1>1, <2>1
<1>3. CASE pc = "rehash"
  <2>1. PICK n \in 2 .. capacity : OldTable(n)
    BY <1>3 DEF MapInv, Growing
  <2>2. n \in Nat /\ capacity = 2 * n /\ 4 * Cardinality(OldUsed) <= 3 * n
    BY <1>1, <2>1 DEF OldTable
  <2>3. size <= Cardinality(OldUsed) /\ Cardinality(OldUsed) \in Nat
    BY <1>3, <2>1, <2>2, OldFacts DEF MapInv, Growing
  <2> QED BY <1>1, <2>2, <2>3
<1> QED BY <1>2, <1>3 DEF Probes

\* The table the constructor makes is empty and in order.
LEMMA MapInvInit == Init => MapInv
<1> SUFFICES ASSUME Init PROVE MapInv
  OBVIOUS
<1>1. Table /\ Slots = 0 .. InitialCapacity - 1
  BY MapAssumption DEF Init, Table, Slots, Entry, EmptySlot
<1>2. Locals
  BY MapAssumption DEF Init, Locals, Slots, Entry, EmptySlot, Request, NoCall
<1>3. Occupied = {}
  BY <1>1 DEF Init, Occupied, IsEmpty, EmptySlot
<1>4. Serving /\ Probing /\ Carried /\ Growing
  BY DEF Init, Serving, Probing, Probes, Carried, Growing
<1>5. Placed /\ KeysUnique
  BY <1>3 DEF Placed, KeysUnique
<1>6. Counted
  BY <1>3, FS_EmptySet, MapAssumption DEF Init, Counted
<1> QED BY <1>1, <1>2, <1>4, <1>5, <1>6 DEF MapInv, TypeOK

\* A loop that starts at the home of its key has passed nothing.
LEMMA ProbeStarts ==
  ASSUME Table, NEW loop, NEW k \in Key, NEW v \in Val \cup {NoVal}, StartProbe(loop, k, v),
         UNCHANGED <<hashOf, capacity, entries>>
  PROVE  /\ Table' /\ Probing' /\ idx' \in Slots' /\ probe' \in Entry
         /\ probe'.key = k /\ probe'.val = v /\ pc' = loop
<1>1. /\ idx' = Home(k) /\ Home(k) \in Slots /\ pc' = loop
      /\ probe' = [key |-> k, val |-> v, dib |-> 0]
  BY Ring DEF StartProbe, Carry
<1>2. Table' /\ Slots' = Slots /\ Occupied' = Occupied
  BY DEF Table, Slots, Occupied
<1>3. probe' \in Entry /\ probe'.key = k /\ probe'.val = v /\ probe'.dib = 0
  BY <1>1 DEF Entry
<1>4. Dist(Home(k), Home(k)) = 0
  BY <1>1, Ring
<1>5. Path(entries', k, 0)
  <2>1. ASSUME NEW j \in Slots, Dist(Home(k), j) < 0 PROVE FALSE
    BY <1>1, <2>1, Ring
  <2> QED BY <2>1 DEF Path
<1>6. \A i \in Occupied' : 0 <= entries'[i].dib
  BY <1>2, EntryFacts
<1>7. Probing'
  BY <1>1, <1>3, <1>4, <1>5, <1>6, SameRing
<1> QED BY <1>1, <1>2, <1>3, <1>7

-----------------------------------------------------------------------------
(***************************************************************************)
(* The calls.                                                              *)
(***************************************************************************)
LEMMA LookupCalled ==
  ASSUME MapInv, NEW k \in Key, Get(k) \/ Del(k)
  PROVE  MapInv'
<1>0. Table /\ Locals /\ Placed /\ Distinct /\ Counted /\ pc = "idle"
  BY DistinctKeys DEF MapInv, TypeOK, Get, Del, Call
<1>1. /\ UNCHANGED <<hashOf, entries, size, capacity, old, oldPos>>
      /\ StartProbe("find", k, NoVal)
      /\ req' \in [op : {"get", "del"}, key : {k}, val : {NoVal}]
  BY DEF Get, Del, Call
<1>2. /\ Table' /\ Probing' /\ idx' \in Slots' /\ probe' \in Entry
      /\ probe'.key = k /\ pc' = "find"
  BY <1>0, <1>1, ProbeStarts
<1>3. Locals' /\ Serving'
  BY <1>0, <1>1, <1>2 DEF Locals, Serving, Request, Probes
<1>4. Placed' /\ Distinct'
  BY <1>0, <1>1 DEF Placed, Distinct, Occupied, Slots, Path, Home, Dist
<1>5. Counted' /\ Carried' /\ Growing' /\ KeysUnique'
  BY <1>0, <1>1, <1>2, <1>4, DistinctKeysNext
     DEF Counted, Carried, Growing, Occupied, Slots
<1> QED BY <1>2, <1>3, <1>4, <1>5 DEF MapInv, TypeOK

\* set() begins with a growth or with the new entry at its home slot.
LEMMA SetCalled ==
  ASSUME MapInv, NEW k \in Key, NEW v \in Val, Set(k, v)
  PROVE  MapInv'
<1>0. Table /\ Locals /\ Placed /\ Distinct /\ Counted /\ pc = "idle"
  BY DistinctKeys DEF MapInv, TypeOK, Set, Call
<1>1. hashOf' = hashOf /\ req' = [op |-> "set", key |-> k, val |-> v]
  BY DEF Set, Call
<1>2. CASE ~Overloaded /\ StartProbe("insert", k, v) /\ UNCHANGED <<entries, size, capacity, old, oldPos>>
  <2>1. /\ Table' /\ Probing' /\ idx' \in Slots' /\ probe' \in Entry
        /\ probe'.key = k /\ pc' = "insert"
    BY <1>0, <1>1, <1>2, ProbeStarts
  <2>2. Locals' /\ Serving'
    BY <1>0, <1>1, <1>2, <2>1 DEF Locals, Serving, Request, Probes
  <2>3. Placed' /\ Distinct'
    BY <1>0, <1>1, <1>2 DEF Placed, Distinct, Occupied, Slots, Path, Home, Dist
  <2>4. 4 * (size + 1) <= 3 * capacity
    BY <1>0, <1>2 DEF Overloaded, Locals, Table
  <2>5. Counted' /\ Carried' /\ Growing' /\ KeysUnique'
    BY <1>0, <1>1, <1>2, <2>1, <2>3, <2>4, DistinctKeysNext
       DEF Counted, Carried, Growing, Occupied, Slots
  <2> QED BY <2>1, <2>2, <2>3, <2>5 DEF MapInv, TypeOK
<1>3. CASE Overloaded /\ StartGrow
  <2>1. /\ pc' = "grow" /\ old' = entries /\ oldPos' = 0 /\ capacity' = 2 * capacity
        /\ entries' = [i \in 0 .. 2 * capacity - 1 |-> EmptySlot]
        /\ size' = 0 /\ idx' = idx /\ probe' = probe
    BY <1>3 DEF StartGrow
  <2>2. capacity \in Nat /\ capacity >= 2 /\ entries \in [0 .. capacity - 1 -> Entry]
    BY <1>0 DEF Table, Slots
  <2>3. capacity' \in Nat /\ capacity' >= 2 /\ Slots' = 0 .. 2 * capacity - 1
    BY <2>1, <2>2 DEF Slots
  <2>4. Table'
    <3>1. EmptySlot \in Entry
      BY DEF EmptySlot, Entry
    <3> QED BY <1>0, <1>1, <2>1, <2>3, <3>1 DEF Table
  <2>5. Occupied' = {}
    BY <2>1, <2>3 DEF Occupied, IsEmpty, EmptySlot
  <2>6. Locals' /\ Serving'
    <3>1. idx' \in Slots'
      BY <1>0, <2>1, <2>2, <2>3 DEF Locals, Slots
    <3> QED BY <1>0, <1>1, <2>1, <3>1 DEF Locals, Serving, Request, Probes
  <2>7. Placed' /\ KeysUnique' /\ Probing' /\ Carried'
    BY <2>1, <2>5 DEF Placed, KeysUnique, Probing, Carried, Probes
  <2>8. Counted'
    BY <2>1, <2>5, FS_EmptySet DEF Counted
  <2>9. OldUsed' = Occupied /\ OldDone' = {}
    <3>1. DOMAIN old' = Slots
      BY <2>1, <2>2 DEF Slots
    <3>2. OldUsed' = Occupied
      BY <2>1, <3>1 DEF OldUsed, Occupied, IsEmpty
    <3>3. \A p \in Slots : ~(p < 0)
      BY <2>2 DEF Slots
    <3>4. Occupied \subseteq Slots
      BY DEF Occupied
    <3> QED BY <2>1, <3>2, <3>3, <3>4 DEF OldDone
  <2>0. PICK n \in Nat : n = capacity
    BY <2>2
  <2>10. OldTable(n)'
    <3>1. capacity' = 2 * n /\ old' \in [0 .. n - 1 -> Entry] /\ oldPos' \in 0 .. n
      BY <2>0, <2>1, <2>2
    <3>2. 4 * Cardinality(Occupied) <= 3 * n
      BY <1>0, <2>0 DEF Counted
    <3>3. \A p, q \in Occupied : old'[p].key = old'[q].key => p = q
      BY <1>0, <2>1 DEF Distinct
    <3> QED BY <2>9, <3>1, <3>2, <3>3 DEF OldTable
  <2>11. Growing'
    <3>1. n \in 2 .. capacity'
      BY <2>0, <2>1, <2>2
    <3> QED BY <2>1, <2>5, <2>9, <2>10, <3>1, FS_EmptySet DEF Growing
  <2> QED BY <2>4, <2>6, <2>7, <2>8, <2>11 DEF MapInv, TypeOK
<1> QED BY <1>2, <1>3 DEF Set

-----------------------------------------------------------------------------
(***************************************************************************)
(* The insertion loop.                                                     *)
(***************************************************************************)
\* What the invariant says of a loop that carries an entry.
LEMMA CarryFacts ==
  ASSUME MapInv, pc \in {"insert", "rehash"}
  PROVE  /\ Table /\ Placed /\ Distinct /\ idx \in Slots /\ probe \in Entry
         /\ probe.key \in Key /\ probe.dib = Dist(Home(probe.key), idx)
         /\ Path(entries, probe.key, probe.dib)
         /\ \A i \in Occupied : entries[i].key = probe.key => probe.dib <= entries[i].dib
         /\ Cardinality(Occupied) < capacity
         /\ idx \in Occupied <=> entries[idx].key # NoKey
         /\ size = Cardinality(Occupied)
BY DistinctKeys, HasRoom, EntryFacts
   DEF MapInv, TypeOK, Locals, Probing, Probes, Counted

\* The entry in the slot is not the one sought.
LEMMA NotSame ==
  ASSUME MapInv, idx \in Occupied,
         pc = "rehash" \/ (pc = "insert" /\ ~SameKey(entries[idx]))
  PROVE  entries[idx].key # probe.key
BY DEF MapInv, Carried, SameKey

\* The loop goes on with the entry it has, or with the one it has displaced.
LEMMA AdvanceFacts ==
  ASSUME MapInv, pc \in {"insert", "rehash"}, idx \in Occupied,
         entries[idx].key # probe.key, Advance(entries[idx]),
         UNCHANGED <<hashOf, capacity, pc, req>>
  PROVE  /\ Table' /\ Placed' /\ Probing' /\ Distinct' /\ Carried'
         /\ Occupied' = Occupied /\ idx' \in Slots' /\ probe' \in Entry
         /\ \/ /\ entries' = entries /\ probe'.key = probe.key /\ probe'.val = probe.val
            \/ /\ entries' = [entries EXCEPT ![idx] = probe]
               /\ probe'.key = entries[idx].key /\ probe'.val = entries[idx].val
               /\ \A i \in Occupied : entries[i].key # probe.key
               /\ \A i \in Occupied' : entries'[i].key # probe'.key
<1>0. /\ Table /\ Placed /\ Distinct /\ idx \in Slots /\ probe \in Entry
      /\ probe.key \in Key /\ probe.dib = Dist(Home(probe.key), idx)
      /\ Path(entries, probe.key, probe.dib)
      /\ \A i \in Occupied : entries[i].key = probe.key => probe.dib <= entries[i].dib
      /\ Cardinality(Occupied) < capacity
  BY CarryFacts
<1>1. /\ idx' = NextSlot(idx) /\ NextSlot(idx) \in Slots /\ Slots' = Slots
      /\ entries[idx] \in Entry /\ entries[idx].key \in Key
      /\ entries[idx].dib \in Nat /\ probe.dib \in Nat
  BY <1>0, Ring, EntryFacts DEF Advance, Slots, Entry
<1>2. CASE ~Displaces(entries[idx])
  <2>1. entries' = entries /\ probe' = [probe EXCEPT !.dib = @ + 1]
    BY <1>2 DEF Advance
  <2>2. /\ probe' \in Entry /\ probe'.key = probe.key /\ probe'.val = probe.val
        /\ probe'.dib = probe.dib + 1
    BY <1>0, <1>1, <2>1 DEF Entry
  <2>3. Table' /\ Occupied' = Occupied /\ Placed' /\ Distinct'
    BY <1>0, <2>1 DEF Table, Slots, Occupied, Placed, Distinct, Path, Home, Dist
  <2>4. Dist(Home(probe.key), NextSlot(idx)) = probe.dib + 1
    BY <1>0, NoWrap
  <2>5. entries[idx].dib >= probe.dib /\ entries[idx].key # NoKey
    BY <1>1, <1>2, MapAssumption DEF Displaces
  <2>6. Path(entries, probe.key, probe.dib + 1)
    BY <1>0, <2>5, PathExtends
  <2>7. ASSUME NEW i \in Occupied, entries[i].key = probe.key
        PROVE  probe.dib + 1 <= entries[i].dib
    <3>1. i \in Slots /\ i # idx /\ entries[i].dib \in Nat /\ Home(probe.key) \in Slots
      BY <1>0, <2>7, EntryFacts, Ring
    <3>2. entries[i].dib = Dist(Home(probe.key), i) /\ entries[i].dib # probe.dib
      BY <1>0, <2>7, <3>1, Ring DEF Placed
    <3> QED BY <1>0, <1>1, <2>7, <3>1, <3>2
  <2>8. Probing'
    BY <1>0, <1>1, <2>1, <2>2, <2>3, <2>4, <2>6, <2>7, SameRing
  <2>9. Carried'
    BY <2>1, <2>2, <2>3 DEF MapInv, Carried
  <2> QED BY <1>1, <2>1, <2>2, <2>3, <2>8, <2>9
<1>3. CASE Displaces(entries[idx])
  <2>1. /\ entries' = [entries EXCEPT ![idx] = probe]
        /\ probe' = [entries[idx] EXCEPT !.dib = @ + 1]
    BY <1>3 DEF Advance
  <2>2. /\ probe' \in Entry /\ probe'.key = entries[idx].key
        /\ probe'.val = entries[idx].val /\ probe'.dib = entries[idx].dib + 1
    BY <1>1, <2>1 DEF Entry
  <2>3. /\ Table' /\ Occupied' = Occupied /\ entries'[idx] = probe
        /\ \A i \in Slots : i # idx => entries'[i] = entries[i]
    <3>1. /\ Table' /\ Occupied' = Occupied \cup {idx} /\ entries'[idx] = probe
          /\ \A i \in Slots : i # idx => entries'[i] = entries[i]
      BY <1>0, <2>1, WriteFacts
    <3> QED BY <3>1
  <2>4. probe.dib > entries[idx].dib
    BY <1>3 DEF Displaces
  <2>5. Placed' /\ \A k \in Key : \A n : Path(entries, k, n) => Path(entries', k, n)
    <3>1. probe.dib >= entries[idx].dib
      BY <1>1, <2>4
    <3> QED BY <1>0, <2>1, <3>1, WriteUp
  <2>6. entries[idx].dib = Dist(Home(entries[idx].key), idx)
        /\ Path(entries', entries[idx].key, entries[idx].dib + 1)
    BY <1>0, <1>1, <2>5 DEF Placed
  <2>7. Dist(Home(entries[idx].key), NextSlot(idx)) = entries[idx].dib + 1
    <3>1. Home(entries[idx].key) \in Slots /\ probe.dib < capacity
      BY <1>0, <1>1, Ring DEF Table
    <3>2. entries[idx].dib + 1 < capacity
      BY <1>0, <1>1, <2>4, <3>1 DEF Table
    <3> QED BY <1>0, <2>6, <3>1, <3>2, Ring
  \* the key that takes the slot was nowhere: it would be further on
  <2>8. \A i \in Occupied : entries[i].key # probe.key
    BY <1>0, <2>4, EmptyEndsProbe
  <2>9. \A i \in Occupied' : entries'[i].key # probe'.key
    BY <1>0, <2>2, <2>3, EntryFacts DEF Distinct
  <2>10. Distinct'
    BY <1>0, <2>3, <2>8, EntryFacts DEF Distinct
  <2>11. Probing'
    BY <1>1, <2>2, <2>6, <2>7, <2>9, SameRing
  <2>12. Carried'
    BY <2>9 DEF Carried
  <2> QED BY <1>1, <2>1, <2>2, <2>3, <2>5, <2>8, <2>9, <2>10, <2>11, <2>12
<1> QED BY <1>2, <1>3

\* The carried entry finds an empty slot: its key was nowhere.
LEMMA PlaceFacts ==
  ASSUME MapInv, pc \in {"insert", "rehash"}, idx \notin Occupied, Place,
         UNCHANGED <<hashOf, capacity>>
  PROVE  /\ Table' /\ Placed' /\ Distinct'
         /\ Occupied' = Occupied \cup {idx} /\ entries'[idx] = probe
         /\ \A i \in Occupied : entries'[i] = entries[i] /\ entries[i].key # probe.key
         /\ size' = size + 1 /\ size' = Cardinality(Occupied')
<1>0. /\ Table /\ Placed /\ Distinct /\ idx \in Slots /\ probe \in Entry
      /\ probe.key \in Key /\ probe.dib = Dist(Home(probe.key), idx)
      /\ Path(entries, probe.key, probe.dib)
      /\ \A i \in Occupied : entries[i].key = probe.key => probe.dib <= entries[i].dib
      /\ entries[idx].key = NoKey /\ size = Cardinality(Occupied)
  BY CarryFacts
<1>1. entries' = [entries EXCEPT ![idx] = probe] /\ size' = size + 1
  BY DEF Place
<1>2. /\ Table' /\ Occupied' = Occupied \cup {idx} /\ entries'[idx] = probe
      /\ \A i \in Slots : i # idx => entries'[i] = entries[i]
  BY <1>0, <1>1, WriteFacts
<1>3. Placed'
  BY <1>0, <1>1, WriteUp
<1>4. \A i \in Occupied : entries[i].key # probe.key
  BY <1>0, EmptyEndsProbe
<1>5. \A i \in Occupied : i \in Slots /\ i # idx /\ entries'[i] = entries[i]
  BY <1>0, <1>2, EntryFacts
<1>6. Distinct'
  BY <1>0, <1>2, <1>4, <1>5 DEF Distinct
<1>7. Cardinality(Occupied \cup {idx}) = Cardinality(Occupied) + 1
  BY <1>0, OccupiedFinite, FS_AddElement
<1> QED BY <1>0, <1>1, <1>2, <1>3, <1>4, <1>5, <1>6, <1>7

\* Back from a call: nothing is carried, and the counts are the table's.
LEMMA Returned ==
  ASSUME Table', Placed', Distinct', NEW value, Return(value),
         size' = Cardinality(Occupied'), 4 * size' <= 3 * capacity'
  PROVE  MapInv'
<1>1. /\ pc' = "idle" /\ req' = NoCall /\ idx' = 0 /\ probe' = EmptySlot
  BY DEF Return
<1>2. Cardinality(Occupied)' \in Nat
  BY OccupiedFiniteNext
<1>3. Locals' /\ Serving'
  <2>1. EmptySlot \in Entry /\ NoCall \in Request
    BY DEF EmptySlot, Entry, NoCall, Request
  <2>2. capacity' \in Nat /\ capacity' >= 2
    BY DEF Table
  <2>3. 0 \in Slots'
    <3>1. ASSUME NEW c \in Nat, c >= 2 PROVE 0 \in 0 .. c - 1
      BY <3>1
    <3>2. 0 \in 0 .. capacity' - 1
      BY <2>2, <3>1
    <3> QED BY <3>2 DEF Slots
  <2> QED BY <1>1, <1>2, <2>1, <2>3 DEF Locals, Serving
<1>4. KeysUnique'
  BY <1>1, DistinctKeysNext
<1> QED BY <1>1, <1>3, <1>4 DEF MapInv, TypeOK, Probing, Probes, Carried, Counted, Growing

\* One iteration of insert: place the entry, overwrite its key, displace or go on.
LEMMA InsertStep == ASSUME MapInv, Insert PROVE MapInv'
<1>0. /\ pc = "insert" /\ UNCHANGED <<hashOf, capacity, old, oldPos>>
      /\ capacity \in Nat /\ size \in Int /\ 4 * (size + 1) <= 3 * capacity
  BY DEF Insert, MapInv, TypeOK, Table, Locals, Counted
<1>1. /\ Table /\ Placed /\ Distinct /\ idx \in Slots /\ size = Cardinality(Occupied)
      /\ idx \in Occupied <=> ~IsEmpty(entries[idx])
      /\ idx \in Occupied <=> entries[idx].key # NoKey
  BY <1>0, CarryFacts DEF IsEmpty
<1>2. CASE IsEmpty(entries[idx]) /\ Place /\ Return(TRUE)
  <2>1. /\ Table' /\ Placed' /\ Distinct' /\ size' = size + 1 /\ size' = Cardinality(Occupied')
    BY <1>0, <1>1, <1>2, PlaceFacts
  <2> QED BY <1>0, <1>2, <2>1, Returned
<1>3. CASE /\ ~IsEmpty(entries[idx]) /\ Return(FALSE) /\ UNCHANGED size
           /\ entries' = [entries EXCEPT ![idx].val = probe.val]
  <2> DEFINE e == [entries[idx] EXCEPT !.val = probe.val]
  <2>1. entries[idx] \in Entry /\ entries[idx].key \in Key /\ idx \in Occupied /\ probe.val \in Val \cup {NoVal}
    BY <1>0, <1>1, <1>3, EntryFacts, CarryFacts DEF Entry
  <2>2. e \in Entry /\ e.key = entries[idx].key /\ e.dib = entries[idx].dib
    BY <2>1 DEF Entry
  <2>3. entries' = [entries EXCEPT ![idx] = e]
    BY <1>3
  <2> HIDE DEF e
  <2>4. /\ Table' /\ Occupied' = Occupied \cup {idx} /\ entries'[idx] = e
        /\ \A i \in Slots : i # idx => entries'[i] = entries[i]
    BY <1>0, <1>1, <2>1, <2>2, <2>3, WriteFacts
  <2>5. Path(entries, e.key, e.dib)
    <3>1. Path(entries, e.key, e.dib + 1) /\ e.dib \in Nat
      BY <1>1, <2>1, <2>2 DEF Placed, Entry
    <3>2. Home(e.key) \in Slots
      BY <1>1, <2>1, <2>2, Ring
    <3>3. ASSUME NEW j \in Slots, Dist(Home(e.key), j) < e.dib PROVE Dist(Home(e.key), j) < e.dib + 1
      BY <1>1, <3>1, <3>2, <3>3, Ring
    <3> QED BY <3>1, <3>3 DEF Path
  <2>6. Placed'
    <3>1. e.dib = Dist(Home(e.key), idx) /\ e.dib >= entries[idx].dib
      BY <1>1, <2>1, <2>2, EntryFacts DEF Placed
    <3> QED BY <1>0, <1>1, <2>1, <2>2, <2>3, <2>5, <3>1, WriteUp
  <2>7. Occupied' = Occupied /\ \A i \in Occupied : i \in Slots /\ entries'[i].key = entries[i].key
    BY <1>1, <2>1, <2>2, <2>4, EntryFacts
  <2>8. Distinct'
    BY <1>1, <2>7 DEF Distinct
  <2>9. size' = Cardinality(Occupied') /\ 4 * size' <= 3 * capacity'
    BY <1>0, <1>1, <1>3, <2>7
  <2> QED BY <1>3, <2>4, <2>6, <2>8, <2>9, Returned
<1>4. CASE /\ ~IsEmpty(entries[idx]) /\ ~SameKey(entries[idx])
           /\ Advance(entries[idx]) /\ UNCHANGED <<size, pc, req>>
  <2>1. /\ Table' /\ Placed' /\ Probing' /\ Distinct' /\ Carried'
        /\ Occupied' = Occupied /\ idx' \in Slots' /\ probe' \in Entry
    BY <1>0, <1>1, <1>4, NotSame, AdvanceFacts
  <2>2. Locals' /\ Serving'
    BY <1>0, <1>4, <2>1 DEF MapInv, TypeOK, Locals, Serving
  <2>3. Counted' /\ Growing' /\ KeysUnique'
    BY <1>0, <1>1, <1>4, <2>1, DistinctKeysNext DEF Counted, Growing
  <2> QED BY <2>1, <2>2, <2>3 DEF MapInv, TypeOK
<1> QED BY <1>2, <1>3, <1>4 DEF Insert

-----------------------------------------------------------------------------
(***************************************************************************)
(* Growing.                                                                *)
(***************************************************************************)
LEMMA GrowStep == ASSUME MapInv, Grow PROVE MapInv'
<1>0. /\ pc = "grow" /\ UNCHANGED <<hashOf, entries, size, capacity, req>>
      /\ Table /\ Locals /\ Serving /\ Placed /\ Distinct /\ Growing
      /\ size = Cardinality(Occupied) /\ capacity \in Nat /\ size \in Int
  BY DistinctKeys DEF Grow, MapInv, TypeOK, Table, Locals, Counted
<1>1. Table' /\ Placed' /\ Distinct' /\ Occupied' = Occupied /\ Slots' = Slots
  BY <1>0 DEF Table, Slots, Occupied, Placed, Distinct, Path, Home, Dist
<1>2. PICK n \in 2 .. capacity : OldTable(n)
  BY <1>0 DEF Growing
<1>3. /\ n \in Nat /\ n >= 2 /\ capacity = 2 * n /\ DOMAIN old = 0 .. n - 1
      /\ oldPos \in 0 .. n /\ size = Cardinality(OldDone)
      /\ 4 * Cardinality(OldUsed) <= 3 * n /\ Cardinality(OldUsed) \in Nat
      /\ \A p \in OldUsed : old[p] \in Entry /\ old[p].key \in Key
  BY <1>0, <1>2, OldFacts DEF OldTable, Growing
<1>4. CASE /\ oldPos \in DOMAIN old /\ IsEmpty(old[oldPos])
           /\ oldPos' = oldPos + 1 /\ UNCHANGED <<pc, idx, probe, old>>
  <2>1. oldPos \notin OldUsed /\ OldUsed' = OldUsed
    BY <1>4 DEF OldUsed
  <2>2. OldDone' = OldDone
    <3>1. \A p \in OldUsed : p < oldPos + 1 <=> p < oldPos
      BY <1>3, <2>1 DEF OldUsed
    <3> QED BY <1>4, <2>1, <3>1 DEF OldDone
  <2>3. OldTable(n)'
    <3>1. oldPos' \in 0 .. n
      BY <1>3, <1>4
    <3> QED BY <1>0, <1>2, <1>4, <2>1, <3>1 DEF OldTable
  <2>4. ASSUME NEW k, FromOld(k, oldPos) PROVE FromOld(k, oldPos + 1)
    BY <1>3, <2>4 DEF FromOld, OldUsed
  <2>5. Growing'
    BY <1>0, <1>1, <1>2, <1>3, <1>4, <2>1, <2>2, <2>3, <2>4 DEF Growing, FromOld
  <2>6. Locals' /\ Serving' /\ Counted'
    BY <1>0, <1>1, <1>4 DEF Locals, Serving, Counted
  <2>7. KeysUnique' /\ Probing' /\ Carried'
    BY <1>0, <1>1, <1>4, DistinctKeysNext DEF Probing, Probes, Carried
  <2> QED BY <1>1, <2>5, <2>6, <2>7 DEF MapInv, TypeOK
<1>5. CASE /\ oldPos \in DOMAIN old /\ ~IsEmpty(old[oldPos])
           /\ StartProbe("rehash", old[oldPos].key, old[oldPos].val) /\ UNCHANGED <<old, oldPos>>
  <2>1. oldPos \in OldUsed /\ OldUsed' = OldUsed /\ OldDone' = OldDone
    BY <1>5 DEF OldUsed, OldDone
  <2>2. old[oldPos].key \in Key /\ old[oldPos].val \in Val \cup {NoVal}
    BY <1>3, <2>1 DEF Entry
  <2>3. /\ Probing' /\ idx' \in Slots' /\ probe' \in Entry
        /\ probe'.key = old[oldPos].key /\ pc' = "rehash"
    BY <1>0, <1>5, <2>2, ProbeStarts
  <2>4. oldPos < oldPos + 1 /\ \A p \in OldUsed : p < oldPos => p < oldPos + 1 /\ p # oldPos
    BY <1>3 DEF OldUsed
  <2>5. Carried'
    <3>1. ASSUME NEW j \in Occupied PROVE entries[j].key # old[oldPos].key
      <4>1. PICK p \in OldUsed : p < oldPos /\ old[p].key = entries[j].key
        BY <1>0 DEF Growing, FromOld
      <4> QED BY <1>2, <2>1, <2>4, <4>1 DEF OldTable
    <3> QED BY <1>0, <1>1, <2>3, <3>1 DEF Carried
  <2>6. FromOld(old[oldPos].key, oldPos + 1)
    BY <2>1, <2>4 DEF FromOld
  <2>7. \A j \in Occupied : FromOld(entries[j].key, oldPos + 1)
    BY <1>0, <2>4 DEF Growing, FromOld
  <2>8. OldTable(n)'
    BY <1>0, <1>2, <1>5, <2>1 DEF OldTable
  <2>9. Growing'
    BY <1>0, <1>1, <1>2, <1>3, <1>5, <2>1, <2>3, <2>6, <2>7, <2>8 DEF Growing, FromOld
  <2>10. Locals' /\ Serving' /\ Counted' /\ KeysUnique'
    BY <1>0, <1>1, <2>3, DistinctKeysNext DEF Locals, Serving, Counted, Probes
  <2> QED BY <1>1, <2>3, <2>5, <2>9, <2>10 DEF MapInv, TypeOK
<1>6. CASE oldPos \notin DOMAIN old /\ StartProbe("insert", req.key, req.val)
  <2>1. req.key \in Key /\ req.val \in Val
    BY <1>0 DEF Serving
  <2>2. /\ Probing' /\ idx' \in Slots' /\ probe' \in Entry
        /\ probe'.key = req.key /\ pc' = "insert"
    BY <1>0, <1>6, <2>1, ProbeStarts
  <2>3. OldDone \subseteq OldUsed /\ Cardinality(OldDone) <= Cardinality(OldUsed)
    BY <1>2, <1>3, OldFacts DEF OldDone
  <2>4. 4 * (size + 1) <= 3 * capacity
    BY <1>0, <1>3, <2>3
  <2>5. Locals' /\ Serving' /\ Counted' /\ KeysUnique' /\ Carried' /\ Growing'
    BY <1>0, <1>1, <2>2, <2>4, DistinctKeysNext
       DEF Locals, Serving, Counted, Probes, Carried, Growing
  <2> QED BY <1>1, <2>2, <2>5 DEF MapInv, TypeOK
<1> QED BY <1>4, <1>5, <1>6 DEF Grow

\* One iteration of grow: move an old entry, or place the one that is carried.
LEMMA RehashStep == ASSUME MapInv, Rehash PROVE MapInv'
<1>0. /\ pc = "rehash" /\ UNCHANGED <<hashOf, capacity, req, old>>
      /\ Table /\ Locals /\ Serving /\ Growing
      /\ size = Cardinality(Occupied) /\ capacity \in Nat /\ size \in Int
      /\ idx \in Occupied <=> ~IsEmpty(entries[idx])
      /\ OldUsed' = OldUsed /\ Occupied \subseteq Slots /\ idx \in Slots
  BY CarryFacts, EntryFacts DEF Rehash, MapInv, TypeOK, Table, Locals, IsEmpty, OldUsed
<1>2. PICK n \in 2 .. capacity : OldTable(n)
  BY <1>0 DEF Growing
<1>3. /\ n \in Nat /\ n >= 2 /\ DOMAIN old = 0 .. n - 1
      /\ oldPos \in 0 .. n - 1 /\ oldPos \in OldUsed /\ size = Cardinality(OldDone)
      /\ IsFiniteSet(OldDone)
  BY <1>0, <1>2, OldFacts DEF OldTable, Growing, OldUsed
<1>4. CASE IsEmpty(entries[idx]) /\ Place /\ pc' = "grow" /\ oldPos' = oldPos + 1 /\ UNCHANGED <<idx, probe>>
  <2>1. /\ Table' /\ Placed' /\ Distinct'
        /\ Occupied' = Occupied \cup {idx} /\ entries'[idx] = probe
        /\ \A i \in Occupied : entries'[i] = entries[i]
        /\ size' = size + 1 /\ size' = Cardinality(Occupied')
    BY <1>0, <1>4, PlaceFacts
  <2>2. oldPos \notin OldDone /\ OldDone' = OldDone \cup {oldPos}
    <3>1. \A p \in OldUsed : p < oldPos + 1 <=> p < oldPos \/ p = oldPos
      BY <1>3 DEF OldUsed
    <3>2. ~(oldPos < oldPos)
      BY <1>3
    <3> QED BY <1>0, <1>3, <1>4, <3>1, <3>2 DEF OldDone
  <2>3. Cardinality(OldDone') = Cardinality(OldDone) + 1
    BY <1>3, <2>2, FS_AddElement
  <2>4. OldTable(n)'
    <3>1. oldPos' \in 0 .. n
      BY <1>3, <1>4
    <3> QED BY <1>0, <1>2, <3>1 DEF OldTable
  <2>5. \A i \in Occupied' : FromOld(entries'[i].key, oldPos + 1)
    BY <1>0, <2>1 DEF Growing
  <2>6. Growing'
    BY <1>0, <1>2, <1>3, <1>4, <2>1, <2>3, <2>4, <2>5 DEF Growing, FromOld
  <2>7. Slots' = Slots
    BY <1>0 DEF Slots
  <2>8. Locals' /\ Serving' /\ Counted'
    BY <1>0, <1>4, <2>1, <2>7 DEF Locals, Serving, Counted
  <2>9. KeysUnique' /\ Probing' /\ Carried'
    BY <1>4, <2>1, DistinctKeysNext DEF Probing, Probes, Carried
  <2> QED BY <2>1, <2>6, <2>8, <2>9 DEF MapInv, TypeOK
<1>5. CASE ~IsEmpty(entries[idx]) /\ Advance(entries[idx]) /\ UNCHANGED <<size, pc, oldPos>>
  <2>1. /\ Table' /\ Placed' /\ Probing' /\ Distinct' /\ Carried'
        /\ Occupied' = Occupied /\ idx' \in Slots' /\ probe' \in Entry
        /\ \/ /\ entries' = entries /\ probe'.key = probe.key
           \/ /\ entries' = [entries EXCEPT ![idx] = probe]
              /\ probe'.key = entries[idx].key
    BY <1>0, <1>5, NotSame, AdvanceFacts
  <2>2. \A k : FromOld(k, oldPos + 1)' <=> FromOld(k, oldPos + 1)
    BY <1>0, <1>5 DEF FromOld
  <2>3. \A i \in Occupied : \/ entries'[i].key = probe.key
                            \/ entries'[i].key = entries[i].key
    BY <1>0, <2>1 DEF Table
  <2>4. \A i \in Occupied' : FromOld(entries'[i].key, oldPos + 1)
    BY <1>0, <2>1, <2>3 DEF Growing
  <2>5. FromOld(probe'.key, oldPos + 1)
    BY <1>0, <1>5, <2>1 DEF Growing
  <2>6. OldTable(n)' /\ OldDone' = OldDone
    BY <1>0, <1>2, <1>5 DEF OldTable, OldDone
  <2>7. Growing'
    BY <1>0, <1>2, <1>3, <1>5, <2>4, <2>5, <2>6 DEF Growing, FromOld
  <2>8. Locals' /\ Serving' /\ Counted' /\ KeysUnique'
    BY <1>0, <1>5, <2>1, DistinctKeysNext DEF Locals, Serving, Counted
  <2> QED BY <2>1, <2>7, <2>8 DEF MapInv, TypeOK
<1> QED BY <1>4, <1>5 DEF Rehash

-----------------------------------------------------------------------------
(***************************************************************************)
(* Lookup and erasure.                                                     *)
(***************************************************************************)
LEMMA FindStep == ASSUME MapInv, Find PROVE MapInv'
<1>0. /\ pc = "find" /\ UNCHANGED <<hashOf, entries, size, capacity, old, oldPos>>
      /\ Table /\ Locals /\ Serving /\ Placed /\ Distinct
      /\ size = Cardinality(Occupied) /\ 4 * size <= 3 * capacity
      /\ Cardinality(Occupied) < capacity
      /\ probe.key \in Key /\ probe.dib = Dist(Home(probe.key), idx)
      /\ Path(entries, probe.key, probe.dib)
      /\ \A i \in Occupied : entries[i].key = probe.key => probe.dib <= entries[i].dib
  BY DistinctKeys, HasRoom DEF Find, MapInv, TypeOK, Counted, Probing, Probes
<1>1. Table' /\ Placed' /\ Distinct' /\ Occupied' = Occupied /\ Slots' = Slots
  BY <1>0 DEF Table, Slots, Occupied, Placed, Distinct, Path, Home, Dist
<1>2. ASSUME NEW value, Return(value) PROVE MapInv'
  BY <1>0, <1>1, <1>2, Returned
<1>3. /\ probe.key = req.key /\ idx \in Slots /\ probe \in Entry /\ probe.dib \in Nat
      /\ idx \in Occupied <=> ~IsEmpty(entries[idx])
      /\ idx \in Occupied <=> entries[idx].key # NoKey
      /\ entries[idx].dib \in Nat
  BY <1>0, EntryFacts DEF Locals, Serving, Entry
<1>4. ASSUME ~Missing(entries[idx])
      PROVE  idx \in Occupied /\ entries[idx].dib >= probe.dib /\ entries[idx].key # NoKey
  BY <1>3, <1>4 DEF Missing
<1>5. CASE /\ ~Missing(entries[idx]) /\ req.op = "del"
           /\ pc' = "erase" /\ UNCHANGED <<idx, probe, req>>
  <2>1. KeysUnique'
    BY <1>0, <1>1 DEF Distinct, KeysUnique
  <2> QED BY <1>0, <1>1, <1>4, <1>5, <2>1
      DEF MapInv, TypeOK, Locals, Serving, Probing, Probes, Carried, Counted, Growing
<1>6. CASE /\ ~Missing(entries[idx]) /\ entries[idx].key # req.key
           /\ idx' = NextSlot(idx) /\ probe' = [probe EXCEPT !.dib = @ + 1]
           /\ UNCHANGED <<pc, req>>
  <2>1. probe' \in Entry /\ probe'.key = probe.key /\ probe'.dib = probe.dib + 1
    BY <1>3, <1>6 DEF Entry
  <2>2. Dist(Home(probe.key), NextSlot(idx)) = probe.dib + 1
    BY <1>0, <1>3, <1>4, <1>6, NoWrap
  <2>3. Path(entries, probe.key, probe.dib + 1)
    BY <1>0, <1>3, <1>4, <1>6, PathExtends
  <2>4. ASSUME NEW i \in Occupied, entries[i].key = probe.key
        PROVE  probe.dib + 1 <= entries[i].dib
    <3>1. i \in Slots /\ i # idx /\ entries[i].dib \in Nat /\ Home(probe.key) \in Slots
      BY <1>0, <1>3, <1>6, <2>4, EntryFacts, Ring
    <3>2. entries[i].dib = Dist(Home(probe.key), i) /\ entries[i].dib # probe.dib
      BY <1>0, <1>3, <2>4, <3>1, Ring DEF Placed
    <3> QED BY <1>0, <1>3, <2>4, <3>1, <3>2
  <2>5. NextSlot(idx) \in Slots
    BY <1>0, <1>3, Ring
  <2>6. Probing'
    BY <1>0, <1>1, <1>6, <2>1, <2>2, <2>3, <2>4, SameRing
  <2>7. Locals' /\ Serving'
    BY <1>0, <1>1, <1>3, <1>6, <2>1, <2>5 DEF Locals, Serving
  <2>8. KeysUnique' /\ Counted' /\ Carried' /\ Growing'
    BY <1>0, <1>1, <1>6, DistinctKeysNext DEF Counted, Carried, Growing
  <2> QED BY <1>1, <2>6, <2>7, <2>8 DEF MapInv, TypeOK
<1> QED BY <1>2, <1>5, <1>6 DEF Find

\* One iteration of erase_at: shift the next entry back, or empty the slot.
LEMMA EraseStep == ASSUME MapInv, Erase PROVE MapInv'
<1> DEFINE n == NextSlot(idx)
<1>0. /\ pc = "erase" /\ UNCHANGED <<hashOf, capacity, old, oldPos>>
      /\ Table /\ Locals /\ Serving /\ Placed /\ KeysUnique
      /\ size = Cardinality(Occupied) /\ 4 * size <= 3 * capacity
      /\ idx \in Occupied
  BY DEF Erase, MapInv, TypeOK, Counted, Serving
<1>1. /\ idx \in Slots /\ n \in Slots /\ n # idx /\ Occupied \subseteq Slots
      /\ n \in Occupied <=> ~IsEmpty(entries[n])
      /\ capacity \in Nat /\ IsFiniteSet(Occupied) /\ Cardinality(Occupied) \in Nat
  BY <1>0, Ring, EntryFacts, OccupiedFinite DEF Table
<1>2. CASE /\ EndsRun(entries[n]) /\ entries' = [entries EXCEPT ![idx] = EmptySlot]
           /\ size' = size - 1 /\ Return(TRUE)
  <2>1. EmptySlot \in Entry /\ EmptySlot.key = NoKey
    BY DEF EmptySlot, Entry
  <2>2. /\ Table' /\ Occupied' = Occupied \ {idx}
        /\ \A i \in Slots : i # idx => entries'[i] = entries[i]
    BY <1>0, <1>1, <1>2, <2>1, WriteFacts
  <2>3. Placed'
    BY <1>0, <1>1, <1>2, ClearEnd DEF EndsRun
  <2>4. Distinct'
    BY <1>0, <1>1, <2>2 DEF KeysUnique, Distinct
  <2>5. Cardinality(Occupied \ {idx}) = Cardinality(Occupied) - 1
    BY <1>0, <1>1, FS_RemoveElement
  <2>6. size' = Cardinality(Occupied') /\ 4 * size' <= 3 * capacity'
    BY <1>0, <1>1, <1>2, <2>2, <2>5
  <2> QED BY <1>2, <2>2, <2>3, <2>4, <2>6, Returned
<1>3. CASE ~EndsRun(entries[n]) /\ ShiftBack(n) /\ UNCHANGED <<size, pc, req, probe>>
  <2> DEFINE e == [entries[n] EXCEPT !.dib = @ - 1]
  <2>1. n \in Occupied /\ entries[n].dib # 0 /\ entries' = [entries EXCEPT ![idx] = e] /\ idx' = n
    BY <1>1, <1>3 DEF EndsRun, ShiftBack
  <2>2. e \in Entry /\ e.key = entries[n].key /\ Placed'
    BY <1>0, <2>1, ShiftDown
  <2>3. e.key \in Key
    BY <1>0, <1>1, <2>1, <2>2, EntryFacts
  <2> HIDE DEF e
  <2>4. /\ Table' /\ Slots' = Slots /\ Occupied' = Occupied /\ entries'[idx] = e
        /\ \A i \in Slots : i # idx => entries'[i] = entries[i]
    <3>1. /\ Table' /\ Slots' = Slots /\ Occupied' = Occupied \cup {idx} /\ entries'[idx] = e
          /\ \A i \in Slots : i # idx => entries'[i] = entries[i]
      BY <1>0, <1>1, <2>1, <2>2, <2>3, WriteFacts
    <3> QED BY <1>0, <3>1
  <2>5. KeysUnique'
    <3>1. ASSUME NEW i \in Occupied, NEW j \in Occupied, i # j,
                 entries'[i].key = entries'[j].key, i # n, j # n
          PROVE  FALSE
      <4>1. i \in Slots /\ j \in Slots
        BY <1>1
      <4>2. CASE i # idx /\ j # idx
        BY <1>0, <2>4, <3>1, <4>1, <4>2 DEF KeysUnique
      <4>3. CASE i = idx
        BY <1>0, <1>1, <2>1, <2>2, <2>4, <3>1, <4>1, <4>3 DEF KeysUnique
      <4>4. CASE j = idx
        BY <1>0, <1>1, <2>1, <2>2, <2>4, <3>1, <4>1, <4>4 DEF KeysUnique
      <4> QED BY <4>2, <4>3, <4>4
    <3> QED BY <1>0, <1>3, <2>1, <2>4, <3>1 DEF KeysUnique
  <2>6. Locals' /\ Serving'
    BY <1>0, <1>1, <1>3, <2>1, <2>4 DEF Locals, Serving
  <2>7. Counted' /\ Probing' /\ Carried' /\ Growing'
    BY <1>0, <1>3, <2>4 DEF Counted, Probing, Probes, Carried, Growing
  <2> QED BY <2>2, <2>4, <2>5, <2>6, <2>7 DEF MapInv, TypeOK
<1> QED BY <1>2, <1>3 DEF Erase

\* Every step of every call preserves the invariant.
LEMMA MapInvNext == MapInv /\ [Next]_vars => MapInv'
<1> SUFFICES ASSUME MapInv, [Next]_vars PROVE MapInv'
  OBVIOUS
<1>1. CASE UNCHANGED vars
  <2>1. Slots' = Slots /\ Occupied' = Occupied /\ OldUsed' = OldUsed /\ OldDone' = OldDone
    BY <1>1 DEF vars, Slots, Occupied, OldUsed, OldDone
  <2>2. TypeOK' /\ Counted' /\ Carried' /\ KeysUnique'
    BY <1>1, <2>1 DEF vars, MapInv, TypeOK, Table, Locals, Serving, Counted, Carried, KeysUnique
  <2>3. Placed' /\ Probing'
    BY <1>1, <2>1 DEF vars, MapInv, Placed, Probing, Path, Home, Dist
  <2>4. Growing'
    BY <1>1, <2>1 DEF vars, MapInv, Growing, OldTable, FromOld
  <2> QED BY <2>2, <2>3, <2>4 DEF MapInv
<1>2. CASE Loop
  BY <1>2, InsertStep, GrowStep, RehashStep, FindStep, EraseStep DEF Loop
<1>3. ASSUME NEW k \in Key, NEW v \in Val, Set(k, v) PROVE MapInv'
  BY <1>3, SetCalled
<1>4. ASSUME NEW k \in Key, Get(k) \/ Del(k) PROVE MapInv'
  BY <1>4, LookupCalled
<1> QED BY <1>1, <1>2, <1>3, <1>4 DEF Next

\* The invariant holds at every step of every call.
LEMMA MapInvAlways == Spec => []MapInv
BY MapInvInit, MapInvNext, PTL DEF Spec

\* For every hash function: dib is the true distance from home, and every slot
\* on the way from an entry's home is used by an entry at least as far from its
\* own, through displacement, rehashing and backward shift
\* (hashmap.cpp:14-97,130-151).
THEOREM ProbeOrderAlways == Spec => []ProbeOrder
<1>1. MapInv => ProbeOrder
  BY PlacedIsProbeOrder DEF MapInv
<1> QED BY <1>1, MapInvAlways, PTL

\* No key is stored twice: set meets the key it is called with before it
\* displaces anything (hashmap.cpp:26-46).
THEOREM KeysUniqueAlways == Spec => []KeysUnique
<1>1. MapInv => KeysUnique
  BY DEF MapInv
<1> QED BY <1>1, MapInvAlways, PTL

\* Between calls size_ is the number of entries and at most three quarters of
\* the slots are used, at every capacity (hashmap.cpp:16-18,99-128).
THEOREM SizeExactAlways == Spec => []SizeExact
<1>1. MapInv => SizeExact
  BY DEF MapInv, Counted, SizeExact
<1> QED BY <1>1, MapInvAlways, PTL

-----------------------------------------------------------------------------
(***************************************************************************)
(* Refinement.  While a call is in progress the caller's map is before:    *)
(* what the table, the entry being carried and the old table hold between  *)
(* them is before with at most the change the call is about.               *)
(***************************************************************************)
Stored(k, v) == \E i \in Occupied : entries[i].key = k /\ entries[i].val = v
Carries(k, v) == probe.key = k /\ probe.val = v
WasOld(k, v, m) == \E p \in OldUsed : p < m /\ old[p].key = k /\ old[p].val = v

Maps == [Key -> Val \cup {NoVal}]

Values == /\ \A i \in Occupied : entries[i].val \in Val
          /\ pc \in {"insert", "rehash"} => probe.val \in Val
          /\ pc # "idle" => result = <<"none">> /\ before \in Maps
          /\ pc \in {"grow", "rehash"} => \A p \in OldUsed : old[p].val \in Val

InsertsInto ==
  pc = "insert" =>
    /\ \A k \in Key \ {req.key}, v \in Val : before[k] = v <=> Stored(k, v) \/ Carries(k, v)
    /\ probe.key = req.key
         => probe.val = req.val /\ \A v \in Val : before[req.key] = v <=> Stored(req.key, v)
    /\ probe.key # req.key => before[req.key] = NoVal /\ Stored(req.key, req.val)

GrowsFrom ==
  /\ pc \in {"grow", "rehash"} =>
       \A k \in Key, v \in Val : before[k] = v <=> WasOld(k, v, capacity)
  /\ pc = "grow" => \A k \in Key, v \in Val : Stored(k, v) <=> WasOld(k, v, oldPos)
  /\ pc = "rehash" => \A k \in Key, v \in Val :
                        Stored(k, v) \/ Carries(k, v) <=> WasOld(k, v, oldPos + 1)

ErasesFrom ==
  pc = "erase" =>
    /\ before[req.key] # NoVal
    /\ \A i \in Occupied \ {idx} : entries[i].key # req.key
    /\ \A k \in Key \ {req.key}, v \in Val :
         before[k] = v <=> \E i \in Occupied \ {idx} : entries[i].key = k /\ entries[i].val = v

Faithful == /\ pc = "find" => before = Contents
            /\ InsertsInto /\ GrowsFrom /\ ErasesFrom

RefInv == MapInv /\ Values /\ Faithful

MapState == IF pc = "idle" THEN Contents ELSE before

\* The contents of a table of distinct keys, and what is needed to be them.
LEMMA ContentsFacts ==
  ASSUME Table, Distinct, \A i \in Occupied : entries[i].val \in Val
  PROVE  /\ Contents \in Maps
         /\ \A k \in Key, v \in Val : Contents[k] = v <=> Stored(k, v)
         /\ \A m \in Maps : (\A k \in Key, v \in Val : m[k] = v <=> Stored(k, v)) => Contents = m
<1>1. ASSUME NEW k \in Key
      PROVE  /\ Contents[k] \in Val \cup {NoVal}
             /\ \A v \in Val : Contents[k] = v <=> Stored(k, v)
  <2>1. CASE \E i \in Slots : entries[i].key = k
    <3> DEFINE c == CHOOSE i \in Slots : entries[i].key = k
    <3>1. c \in Slots /\ entries[c].key = k
      BY <2>1
    <3>2. Contents[k] = entries[c].val
      BY <2>1 DEF Contents
    <3> HIDE DEF c
    <3>3. c \in Occupied
      BY <3>1, EntryFacts
    <3>4. ASSUME NEW v \in Val PROVE Contents[k] = v <=> Stored(k, v)
      <4>1. ASSUME Stored(k, v) PROVE Contents[k] = v
        <5>1. PICK i \in Occupied : entries[i].key = k /\ entries[i].val = v
          BY <4>1 DEF Stored
        <5>2. i = c
          BY <3>1, <3>3, <5>1 DEF Distinct
        <5> QED BY <3>2, <5>1, <5>2
      <4>2. ASSUME Contents[k] = v PROVE Stored(k, v)
        BY <3>1, <3>2, <3>3, <4>2 DEF Stored
      <4> QED BY <4>1, <4>2
    <3> QED BY <3>2, <3>3, <3>4
  <2>2. CASE ~\E i \in Slots : entries[i].key = k
    <3>1. Contents[k] = NoVal
      BY <2>2 DEF Contents
    <3>2. \A v \in Val : ~Stored(k, v)
      BY <2>2, EntryFacts DEF Stored
    <3> QED BY <3>1, <3>2, MapAssumption
  <2> QED BY <2>1, <2>2
<1>2. Contents \in Maps
  <2>1. Contents = [k \in Key |-> Contents[k]]
    BY DEF Contents
  <2> QED BY <1>1, <2>1 DEF Maps
<1>3. ASSUME NEW m \in Maps, \A k \in Key, v \in Val : m[k] = v <=> Stored(k, v)
      PROVE  Contents = m
  <2>1. ASSUME NEW k \in Key PROVE Contents[k] = m[k]
    BY <1>1, <1>3 DEF Maps
  <2> QED BY <1>2, <2>1 DEF Maps
<1> QED BY <1>1, <1>2, <1>3

\* What the table stores determines the map, in the state after a step.
LEMMA ContentsNext ==
  (Table /\ Distinct /\ (\A i \in Occupied : entries[i].val \in Val)
     => /\ Contents \in Maps
        /\ \A k \in Key, v \in Val : Contents[k] = v <=> Stored(k, v)
        /\ \A m \in Maps : (\A k \in Key, v \in Val : m[k] = v <=> Stored(k, v)) => Contents = m)'
<1>1. Table /\ Distinct /\ (\A i \in Occupied : entries[i].val \in Val)
     => /\ Contents \in Maps
        /\ \A k \in Key, v \in Val : Contents[k] = v <=> Stored(k, v)
        /\ \A m \in Maps : (\A k \in Key, v \in Val : m[k] = v <=> Stored(k, v)) => Contents = m
  BY ContentsFacts
<1> QED BY <1>1, PTL

\* Nothing a call does before it returns is seen by the caller.
LEMMA InnerStep ==
  ASSUME pc # "idle", pc' # "idle", UNCHANGED <<before, result>>
  PROVE  UNCHANGED <<MapState, result>>
BY DEF MapState

\* At its return the caller sees the contents of the table.
LEMMA ReturnStep ==
  ASSUME RefInv, pc # "idle", NEW m \in Maps, NEW value, Return(value),
         Table', Distinct', \A i \in Occupied' : entries'[i].val \in Val,
         \A k \in Key, v \in Val : m[k] = v <=> Stored(k, v)'
  PROVE  /\ Values' /\ Faithful' /\ MapState = before /\ MapState' = m
         /\ result = <<"none">> /\ result' = <<req.op, req.key, value>>
<1>1. pc' = "idle" /\ result' = <<req.op, req.key, value>>
  BY DEF Return
<1>2. Contents' = m
  BY ContentsNext
<1>3. Values' /\ Faithful'
  BY <1>1 DEF Values, Faithful, InsertsInto, GrowsFrom, ErasesFrom
<1> QED BY <1>1, <1>2, <1>3 DEF RefInv, Values, MapState

\* The abstract operations, as the returns of the three calls.
LEMMA AbstractSet ==
  ASSUME req.key \in Key, req.val \in Val, MapState = before,
         MapState' = [before EXCEPT ![req.key] = req.val], result = <<"none">>,
         NEW value, value = (before[req.key] = NoVal), result' = <<"set", req.key, value>>
  PROVE  Map!Next
<1>1. Map!Set(req.key, req.val)
  BY DEF Map!Set, MapState
<1> QED BY <1>1 DEF Map!Next

\* A get() that returns what was stored is a step of KVMap.
LEMMA AbstractGet ==
  ASSUME req.key \in Key, MapState = before, MapState' = before, result = <<"none">>,
         result' = <<"get", req.key, before[req.key]>>
  PROVE  Map!Next
<1>1. Map!Get(req.key)
  BY DEF Map!Get, MapState
<1> QED BY <1>1 DEF Map!Next

\* A del() that removes the key and tells whether it was there is a step of KVMap.
LEMMA AbstractDel ==
  ASSUME req.key \in Key, MapState = before,
         MapState' = [before EXCEPT ![req.key] = NoVal], result = <<"none">>,
         NEW value, value = (before[req.key] # NoVal), result' = <<"del", req.key, value>>
  PROVE  Map!Next
<1>1. Map!Del(req.key)
  BY DEF Map!Del, MapState
<1> QED BY <1>1 DEF Map!Next

\* A call that begins leaves the abstract map alone.
LEMMA AbstractBegin ==
  ASSUME pc = "idle", pc' # "idle", before' = Contents, result' = <<"none">>
  PROVE  [Map!Next]_<<MapState, result>>
<1>1. MapState' = MapState
  BY DEF MapState
<1>2. CASE result = <<"none">>
  BY <1>1, <1>2
<1>3. CASE result # <<"none">>
  <2>1. Map!Begin
    BY <1>1, <1>3 DEF Map!Begin, MapState
  <2> QED BY <2>1 DEF Map!Next
<1> QED BY <1>2, <1>3

\* Calls that begin keep the refinement.
LEMMA CalledRef ==
  ASSUME RefInv, NEW k \in Key, Get(k) \/ Del(k) \/ \E v \in Val : Set(k, v)
  PROVE  Values' /\ Faithful' /\ [Map!Next]_<<MapState, result>>
<1>0. /\ Table /\ Distinct /\ pc = "idle" /\ before' = Contents /\ result' = <<"none">>
      /\ hashOf' = hashOf /\ \A i \in Occupied : entries[i].val \in Val
  BY DistinctKeys DEF RefInv, MapInv, TypeOK, Values, Get, Del, Set, Call
<1>1. Contents \in Maps /\ \A q \in Key, v \in Val : Contents[q] = v <=> Stored(q, v)
  BY <1>0, ContentsFacts
<1>2. CASE Get(k) \/ Del(k)
  <2>1. pc' = "find" /\ UNCHANGED <<entries, capacity>>
    BY <1>2 DEF Get, Del, StartProbe
  <2>2. Contents' = Contents /\ Occupied' = Occupied
    BY <1>0, <2>1 DEF Contents, Occupied, Slots
  <2>3. Values' /\ Faithful'
    BY <1>0, <1>1, <2>1, <2>2 DEF Values, Faithful, InsertsInto, GrowsFrom, ErasesFrom
  <2> QED BY <1>0, <2>1, <2>3, AbstractBegin
<1>3. ASSUME NEW v \in Val, Set(k, v) PROVE Values' /\ Faithful' /\ [Map!Next]_<<MapState, result>>
  <2>0. req' = [op |-> "set", key |-> k, val |-> v]
    BY <1>3 DEF Set, Call
  <2>1. CASE StartProbe("insert", k, v) /\ UNCHANGED <<entries, capacity>>
    <3>1. pc' = "insert" /\ probe' = [key |-> k, val |-> v, dib |-> 0]
      BY <2>1 DEF StartProbe, Carry
    <3>2. /\ probe'.key = k /\ probe'.val = v /\ req'.key = k /\ req'.val = v
      BY <2>0, <3>1
    <3>3. Occupied' = Occupied /\ \A q, w : Stored(q, w)' <=> Stored(q, w)
      BY <2>1 DEF Occupied, Slots, Stored
    <3>4. Values'
      BY <1>0, <1>1, <2>1, <3>1, <3>2, <3>3 DEF Values
    <3>5. InsertsInto'
      <4>1. \A q \in Key \ {k} : \A w : ~Carries(q, w)'
        BY <3>2 DEF Carries
      <4> QED BY <1>0, <1>1, <3>2, <3>3, <4>1 DEF InsertsInto
    <3>6. Faithful'
      BY <3>1, <3>5 DEF Faithful, GrowsFrom, ErasesFrom
    <3> QED BY <1>0, <3>1, <3>4, <3>6, AbstractBegin
  <2>2. CASE StartGrow
    <3>1. /\ pc' = "grow" /\ old' = entries /\ oldPos' = 0 /\ capacity' = 2 * capacity
          /\ entries' = [i \in 0 .. 2 * capacity - 1 |-> EmptySlot]
      BY <2>2 DEF StartGrow
    <3>2. capacity \in Nat /\ DOMAIN entries = Slots /\ Occupied \subseteq Slots
      BY <1>0 DEF Table, Occupied
    <3>3. OldUsed' = Occupied
      BY <3>1, <3>2 DEF OldUsed, Occupied, IsEmpty
    <3>4. Occupied' = {}
      BY <3>1 DEF Occupied, Slots, IsEmpty, EmptySlot
    <3>5. \A p \in Occupied : p < 2 * capacity /\ ~(p < 0)
      BY <3>2 DEF Slots
    <3>6. \A q, w : /\ WasOld(q, w, capacity)' <=> Stored(q, w)
                    /\ ~WasOld(q, w, oldPos)' /\ ~Stored(q, w)'
      BY <3>1, <3>3, <3>4, <3>5 DEF WasOld, Stored
    <3>7. Values'
      BY <1>0, <1>1, <3>1, <3>3, <3>4 DEF Values
    <3>8. Faithful'
      BY <1>0, <1>1, <3>1, <3>6 DEF Faithful, InsertsInto, GrowsFrom, ErasesFrom
    <3> QED BY <1>0, <3>1, <3>7, <3>8, AbstractBegin
  <2> QED BY <1>3, <2>1, <2>2 DEF Set
<1> QED BY <1>2, <1>3

\* Table and carried entry together keep what they hold.
LEMMA AdvanceKeeps ==
  ASSUME MapInv, Values, pc \in {"insert", "rehash"}, idx \in Occupied,
         entries[idx].key # probe.key, Advance(entries[idx]),
         UNCHANGED <<hashOf, capacity, pc, req>>
  PROVE  /\ Occupied' = Occupied
         /\ \A i \in Occupied' : entries'[i].val \in Val
         /\ probe'.val \in Val
         /\ \A k, v : Stored(k, v)' \/ Carries(k, v)' <=> Stored(k, v) \/ Carries(k, v)
<1>0. Occupied' = Occupied /\ probe.val \in Val /\ entries[idx].val \in Val
      /\ \A i \in Occupied : i \in Slots /\ entries[i].val \in Val
  BY AdvanceFacts, EntryFacts DEF Values, MapInv, TypeOK
<1>1. CASE entries' = entries /\ probe'.key = probe.key /\ probe'.val = probe.val
  BY <1>0, <1>1 DEF Stored, Carries
<1>2. CASE /\ entries' = [entries EXCEPT ![idx] = probe]
           /\ probe'.key = entries[idx].key /\ probe'.val = entries[idx].val
  <2>1. entries'[idx] = probe /\ \A i \in Occupied : i # idx => entries'[i] = entries[i]
    BY <1>0, <1>2 DEF MapInv, TypeOK, Table
  <2>2. \A i \in Occupied' : entries'[i].val \in Val
    BY <1>0, <2>1
  <2>3. ASSUME NEW k, NEW v
        PROVE  Stored(k, v)' \/ Carries(k, v)' <=> Stored(k, v) \/ Carries(k, v)
    BY <1>0, <1>2, <2>1 DEF Stored, Carries
  <2> QED BY <1>0, <1>2, <2>2, <2>3
<1> QED BY <1>1, <1>2, AdvanceFacts

\* One iteration of insert keeps the refinement; the last one is the Set of KVMap.
LEMMA InsertRef ==
  ASSUME RefInv, Insert
  PROVE  Values' /\ Faithful' /\ [Map!Next]_<<MapState, result>>
<1>0. /\ pc = "insert" /\ UNCHANGED <<hashOf, capacity>> /\ MapInv /\ Values /\ InsertsInto
      /\ req.key \in Key /\ req.val \in Val /\ req.op = "set"
      /\ before \in Maps /\ result = <<"none">> /\ probe.val \in Val
      /\ \A i \in Occupied : entries[i].val \in Val
  BY DEF Insert, RefInv, Faithful, Values, MapInv, TypeOK, Serving
<1>1. /\ Table /\ Distinct /\ idx \in Slots /\ probe.key \in Key /\ probe \in Entry
      /\ idx \in Occupied <=> ~IsEmpty(entries[idx])
      /\ \A i \in Occupied : i \in Slots
  BY <1>0, CarryFacts, EntryFacts DEF IsEmpty
<1> DEFINE m == [before EXCEPT ![req.key] = req.val]
<1>2. m \in Maps /\ m[req.key] = req.val /\ \A k \in Key \ {req.key} : m[k] = before[k]
  BY <1>0 DEF Maps
<1> HIDE DEF m
<1>3. CASE IsEmpty(entries[idx]) /\ Place /\ Return(TRUE)
  <2>1. /\ Table' /\ Distinct' /\ Occupied' = Occupied \cup {idx} /\ entries'[idx] = probe
        /\ \A i \in Occupied : entries'[i] = entries[i] /\ entries[i].key # probe.key
    BY <1>0, <1>1, <1>3, PlaceFacts
  <2>2. \A k, v : Stored(k, v)' <=> Stored(k, v) \/ Carries(k, v)
    BY <2>1 DEF Stored, Carries
  <2>3. /\ before[req.key] = NoVal
        /\ \A v \in Val : Stored(req.key, v) \/ Carries(req.key, v) <=> v = req.val
    <3>1. CASE probe.key = req.key
      <4>1. \A v : ~Stored(req.key, v)
        BY <2>1, <3>1 DEF Stored
      <4>2. before[req.key] \notin Val
        BY <1>0, <3>1, <4>1 DEF InsertsInto
      <4>3. before[req.key] = NoVal
        BY <1>0, <4>2 DEF Maps
      <4> QED BY <1>0, <3>1, <4>1, <4>3 DEF InsertsInto, Carries
    <3>2. CASE probe.key # req.key
      <4>1. before[req.key] = NoVal /\ Stored(req.key, req.val)
        BY <1>0, <3>2 DEF InsertsInto
      <4> QED BY <1>1, <3>2, <4>1 DEF Stored, Carries, Distinct
    <3> QED BY <3>1, <3>2
  <2>4. ASSUME NEW k \in Key, NEW v \in Val PROVE m[k] = v <=> Stored(k, v)'
    <3>1. CASE k = req.key
      BY <1>2, <2>2, <2>3, <3>1
    <3>2. CASE k # req.key
      BY <1>0, <1>2, <2>2, <3>2 DEF InsertsInto
    <3> QED BY <3>1, <3>2
  <2>5. \A i \in Occupied' : entries'[i].val \in Val
    BY <1>0, <2>1
  <2>6. /\ Values' /\ Faithful' /\ MapState = before /\ MapState' = m
        /\ result' = <<req.op, req.key, TRUE>>
    BY <1>0, <1>2, <1>3, <2>1, <2>4, <2>5, ReturnStep
  <2>7. TRUE = (before[req.key] = NoVal)
    BY <2>3
  <2>8. Map!Next
    BY <1>0, <2>6, <2>7, AbstractSet DEF m
  <2> QED BY <2>6, <2>8
<1>4. CASE /\ ~IsEmpty(entries[idx]) /\ SameKey(entries[idx]) /\ Return(FALSE)
           /\ entries' = [entries EXCEPT ![idx].val = probe.val]
  <2> DEFINE e == [entries[idx] EXCEPT !.val = probe.val]
  <2>0. /\ idx \in Occupied /\ entries[idx] \in Entry /\ entries[idx].key = probe.key
        /\ probe.key = req.key /\ probe.val = req.val
    BY <1>0, <1>1, <1>4, EntryFacts DEF SameKey, MapInv, Carried, InsertsInto
  <2>1. entries' = [entries EXCEPT ![idx] = e] /\ e \in Entry /\ e.key = req.key /\ e.val = req.val
    BY <1>0, <1>4, <2>0 DEF Entry
  <2> HIDE DEF e
  <2>2. /\ Table' /\ Occupied' = Occupied /\ entries'[idx] = e
        /\ \A i \in Occupied : i # idx => entries'[i] = entries[i]
    <3>1. /\ Table' /\ Occupied' = Occupied \cup {idx} /\ entries'[idx] = e
          /\ \A i \in Slots : i # idx => entries'[i] = entries[i]
      BY <1>0, <1>1, <2>1, WriteFacts
    <3> QED BY <1>1, <2>0, <3>1
  <2>3. Distinct' /\ \A i \in Occupied' : entries'[i].val \in Val
    BY <1>0, <1>1, <2>0, <2>1, <2>2 DEF Distinct
  <2>4. before[req.key] = entries[idx].val /\ before[req.key] # NoVal
    <3>1. Stored(req.key, entries[idx].val) /\ entries[idx].val \in Val
      BY <1>0, <2>0 DEF Stored
    <3> QED BY <1>0, <2>0, <3>1, MapAssumption DEF InsertsInto
  <2>5. ASSUME NEW k \in Key, NEW v \in Val PROVE m[k] = v <=> Stored(k, v)'
    <3>1. CASE k = req.key
      <4>1. Stored(k, v)' <=> v = req.val
        BY <1>1, <2>0, <2>1, <2>2, <2>3, <3>1 DEF Stored, Distinct
      <4> QED BY <1>2, <3>1, <4>1
    <3>2. CASE k # req.key
      <4>1. Stored(k, v)' <=> Stored(k, v)
        BY <2>0, <2>1, <2>2, <3>2 DEF Stored
      <4>2. ~Carries(k, v)
        BY <2>0, <3>2 DEF Carries
      <4> QED BY <1>0, <1>2, <3>2, <4>1, <4>2 DEF InsertsInto
    <3> QED BY <3>1, <3>2
  <2>6. /\ Values' /\ Faithful' /\ MapState = before /\ MapState' = m
        /\ result' = <<req.op, req.key, FALSE>>
    BY <1>0, <1>2, <1>4, <2>2, <2>3, <2>5, ReturnStep
  <2>7. FALSE = (before[req.key] = NoVal)
    BY <2>4
  <2>8. Map!Next
    BY <1>0, <2>6, <2>7, AbstractSet DEF m
  <2> QED BY <2>6, <2>8
<1>5. CASE /\ ~IsEmpty(entries[idx]) /\ ~SameKey(entries[idx])
           /\ Advance(entries[idx]) /\ UNCHANGED <<pc, req, result, before>>
  <2>0. idx \in Occupied /\ entries[idx].key # probe.key
    BY <1>0, <1>1, <1>5, NotSame
  <2>1. /\ Occupied' = Occupied /\ probe'.val \in Val
        /\ \A i \in Occupied' : entries'[i].val \in Val
        /\ \A k, v : Stored(k, v)' \/ Carries(k, v)' <=> Stored(k, v) \/ Carries(k, v)
    BY <1>0, <1>5, <2>0, AdvanceKeeps
  <2>2. Values'
    BY <1>0, <1>5, <2>1 DEF Values
  <2>3. ASSUME entries' = entries /\ probe'.key = probe.key /\ probe'.val = probe.val
        PROVE  InsertsInto'
    <3>1. \A k, v : (Stored(k, v)' <=> Stored(k, v)) /\ (Carries(k, v)' <=> Carries(k, v))
      BY <2>1, <2>3 DEF Stored, Carries
    <3>2. InsertsInto'
      BY <1>0, <1>5, <2>3, <3>1 DEF InsertsInto
    <3> QED BY <3>2
  <2>4. ASSUME /\ entries' = [entries EXCEPT ![idx] = probe]
               /\ probe'.key = entries[idx].key /\ probe'.val = entries[idx].val
               /\ \A i \in Occupied : entries[i].key # probe.key
               /\ \A i \in Occupied' : entries'[i].key # probe'.key
        PROVE  InsertsInto'
    <3>1. entries'[idx] = probe /\ \A i \in Occupied : i # idx => entries'[i] = entries[i]
      BY <1>1, <2>4 DEF Table
    <3>2. before[req.key] = NoVal
      <4>1. CASE probe.key = req.key
        <5>1. \A v : ~Stored(req.key, v)
          BY <2>4, <4>1 DEF Stored
        <5>2. before[req.key] \notin Val
          BY <1>0, <4>1, <5>1 DEF InsertsInto
        <5> QED BY <1>0, <5>2 DEF Maps
      <4>2. CASE probe.key # req.key
        BY <1>0, <4>2 DEF InsertsInto
      <4> QED BY <4>1, <4>2
    <3>3. ASSUME probe'.key = req.key
          PROVE  probe'.val = req.val /\ \A v \in Val : before[req.key] = v <=> Stored(req.key, v)'
      <4>1. Stored(req.key, req.val)
        BY <1>0, <2>0, <2>4, <3>3 DEF InsertsInto
      <4>2. probe'.val = req.val
        BY <1>1, <2>0, <2>4, <3>3, <4>1 DEF Stored, Distinct
      <4>3. \A v : ~Stored(req.key, v)'
        BY <1>5, <2>4, <3>3 DEF Stored
      <4> QED BY <3>2, <4>2, <4>3, MapAssumption
    <3>4. ASSUME probe'.key # req.key PROVE Stored(req.key, req.val)'
      <4>1. CASE probe.key = req.key
        <5>1. probe.val = req.val
          BY <1>0, <4>1 DEF InsertsInto
        <5> QED BY <1>5, <2>0, <2>1, <3>1, <4>1, <5>1 DEF Stored
      <4>2. CASE probe.key # req.key
        <5>1. PICK i \in Occupied : entries[i].key = req.key /\ entries[i].val = req.val
          BY <1>0, <4>2 DEF InsertsInto, Stored
        <5>2. i # idx
          BY <2>4, <3>4, <5>1
        <5> QED BY <1>5, <2>1, <3>1, <5>1, <5>2 DEF Stored
      <4> QED BY <4>1, <4>2
    <3>5. \A k \in Key \ {req.key}, v \in Val : before[k] = v <=> Stored(k, v)' \/ Carries(k, v)'
      BY <1>0, <2>1 DEF InsertsInto
    <3> QED BY <1>5, <3>2, <3>3, <3>4, <3>5 DEF InsertsInto
  <2>5. InsertsInto'
    BY <1>0, <1>5, <2>0, <2>3, <2>4, AdvanceFacts
  <2>6. Faithful'
    BY <1>0, <1>5, <2>5 DEF Faithful, GrowsFrom, ErasesFrom
  <2> QED BY <1>0, <1>5, <2>2, <2>6, InnerStep
<1> QED BY <1>3, <1>4, <1>5 DEF Insert

\* Allocating the larger table keeps the refinement.
LEMMA GrowRef ==
  ASSUME RefInv, Grow
  PROVE  Values' /\ Faithful' /\ [Map!Next]_<<MapState, result>>
<1>0. /\ pc = "grow" /\ UNCHANGED <<hashOf, entries, size, capacity, req, result, before>>
      /\ Table /\ Growing /\ Values /\ GrowsFrom
      /\ req.key \in Key /\ req.val \in Val
      /\ Occupied' = Occupied /\ \A k, v : Stored(k, v)' <=> Stored(k, v)
  BY DEF Grow, RefInv, Faithful, MapInv, TypeOK, Serving, Occupied, Slots, Stored
<1>1. PICK n \in 2 .. capacity : OldTable(n)
  BY <1>0 DEF Growing
<1>2. /\ n \in Nat /\ DOMAIN old = 0 .. n - 1 /\ oldPos \in 0 .. n /\ capacity = 2 * n
      /\ OldUsed \subseteq 0 .. n - 1
      /\ \A p \in OldUsed : old[p].key \in Key /\ old[p].val \in Val
  BY <1>0, <1>1, OldFacts DEF OldTable, OldUsed, Values, Table
<1>3. CASE /\ oldPos \in DOMAIN old /\ IsEmpty(old[oldPos])
           /\ oldPos' = oldPos + 1 /\ UNCHANGED <<pc, idx, probe, old>>
  <2>1. oldPos \notin OldUsed /\ OldUsed' = OldUsed
    BY <1>3 DEF OldUsed
  <2>2. \A p \in OldUsed : p < oldPos + 1 <=> p < oldPos
    BY <1>2, <2>1
  <2>3. \A k, v : /\ WasOld(k, v, capacity)' <=> WasOld(k, v, capacity)
                  /\ WasOld(k, v, oldPos)' <=> WasOld(k, v, oldPos)
    BY <1>0, <1>3, <2>1, <2>2 DEF WasOld
  <2>4. Values' /\ Faithful'
    BY <1>0, <1>3, <2>1, <2>3 DEF Values, Faithful, InsertsInto, GrowsFrom, ErasesFrom
  <2> QED BY <1>0, <1>3, <2>4, InnerStep
<1>4. CASE /\ oldPos \in DOMAIN old /\ ~IsEmpty(old[oldPos])
           /\ StartProbe("rehash", old[oldPos].key, old[oldPos].val) /\ UNCHANGED <<old, oldPos>>
  <2>1. /\ pc' = "rehash" /\ probe'.key = old[oldPos].key /\ probe'.val = old[oldPos].val
        /\ oldPos \in OldUsed /\ OldUsed' = OldUsed
    BY <1>4 DEF StartProbe, Carry, OldUsed
  <2>2. \A p \in OldUsed : p < oldPos + 1 <=> p < oldPos \/ p = oldPos
    BY <1>2
  <2>3. \A k, v : /\ WasOld(k, v, capacity)' <=> WasOld(k, v, capacity)
                  /\ WasOld(k, v, oldPos + 1)' <=> WasOld(k, v, oldPos) \/ Carries(k, v)'
    BY <1>0, <1>4, <2>1, <2>2 DEF WasOld, Carries
  <2>4. Values'
    BY <1>0, <1>2, <2>1, <1>4 DEF Values
  <2>5. Faithful'
    BY <1>0, <2>1, <2>3 DEF Faithful, InsertsInto, GrowsFrom, ErasesFrom
  <2> QED BY <1>0, <2>1, <2>4, <2>5, InnerStep
<1>5. CASE oldPos \notin DOMAIN old /\ StartProbe("insert", req.key, req.val)
  <2>1. pc' = "insert" /\ probe'.key = req.key /\ probe'.val = req.val
    BY <1>5 DEF StartProbe, Carry
  <2>2. \A p \in OldUsed : p < oldPos /\ p < capacity
    BY <1>2, <1>5
  <2>3. \A k, v : WasOld(k, v, capacity) <=> WasOld(k, v, oldPos)
    BY <2>2 DEF WasOld
  <2>4. \A k \in Key, v \in Val : before[k] = v <=> Stored(k, v)
    BY <1>0, <2>3 DEF GrowsFrom
  <2>5. \A k \in Key \ {req.key} : \A v : ~Carries(k, v)'
    BY <2>1 DEF Carries
  <2>6. InsertsInto'
    BY <1>0, <2>1, <2>4, <2>5 DEF InsertsInto
  <2>7. Values' /\ Faithful'
    BY <1>0, <2>1, <2>6 DEF Values, Faithful, GrowsFrom, ErasesFrom
  <2> QED BY <1>0, <2>1, <2>7, InnerStep
<1> QED BY <1>3, <1>4, <1>5 DEF Grow

\* Moving an entry to the larger table keeps the refinement.
LEMMA RehashRef ==
  ASSUME RefInv, Rehash
  PROVE  Values' /\ Faithful' /\ [Map!Next]_<<MapState, result>>
<1>0. /\ pc = "rehash" /\ UNCHANGED <<hashOf, capacity, req, old, result, before>>
      /\ MapInv /\ Values /\ GrowsFrom /\ OldUsed' = OldUsed
      /\ probe.val \in Val /\ \A i \in Occupied : entries[i].val \in Val
      /\ idx \in Occupied <=> ~IsEmpty(entries[idx])
  BY CarryFacts DEF Rehash, RefInv, Faithful, OldUsed, Values, IsEmpty
<1>1. \A k, v : WasOld(k, v, capacity)' <=> WasOld(k, v, capacity)
  BY <1>0 DEF WasOld
<1>2. CASE IsEmpty(entries[idx]) /\ Place /\ pc' = "grow" /\ oldPos' = oldPos + 1
  <2>1. /\ Occupied' = Occupied \cup {idx} /\ entries'[idx] = probe
        /\ \A i \in Occupied : entries'[i] = entries[i]
    BY <1>0, <1>2, PlaceFacts
  <2>2. \A k, v : Stored(k, v)' <=> Stored(k, v) \/ Carries(k, v)
    BY <2>1 DEF Stored, Carries
  <2>3. \A k, v : WasOld(k, v, oldPos)' <=> WasOld(k, v, oldPos + 1)
    BY <1>0, <1>2 DEF WasOld
  <2>4. Values'
    BY <1>0, <1>2, <2>1 DEF Values
  <2>5. Faithful'
    BY <1>0, <1>1, <1>2, <2>2, <2>3 DEF Faithful, InsertsInto, GrowsFrom, ErasesFrom
  <2> QED BY <1>0, <1>2, <2>4, <2>5, InnerStep
<1>3. CASE ~IsEmpty(entries[idx]) /\ Advance(entries[idx]) /\ UNCHANGED <<size, pc, oldPos>>
  <2>1. /\ probe'.val \in Val /\ \A i \in Occupied' : entries'[i].val \in Val
        /\ \A k, v : Stored(k, v)' \/ Carries(k, v)' <=> Stored(k, v) \/ Carries(k, v)
    BY <1>0, <1>3, NotSame, AdvanceKeeps
  <2>2. \A k, v : WasOld(k, v, oldPos + 1)' <=> WasOld(k, v, oldPos + 1)
    BY <1>0, <1>3 DEF WasOld
  <2>3. Values'
    BY <1>0, <1>3, <2>1 DEF Values
  <2>4. Faithful'
    BY <1>0, <1>1, <1>3, <2>1, <2>2 DEF Faithful, InsertsInto, GrowsFrom, ErasesFrom
  <2> QED BY <1>0, <1>3, <2>3, <2>4, InnerStep
<1> QED BY <1>2, <1>3 DEF Rehash

\* One iteration of the search keeps the refinement; a get() returns the stored value.
LEMMA FindRef ==
  ASSUME RefInv, Find
  PROVE  Values' /\ Faithful' /\ [Map!Next]_<<MapState, result>>
<1>0. /\ pc = "find" /\ UNCHANGED <<hashOf, entries, capacity>>
      /\ Table /\ Placed /\ Distinct /\ Values /\ before = Contents /\ before \in Maps
      /\ req.key \in Key /\ req.op \in {"get", "del"} /\ probe.key = req.key /\ idx \in Slots
      /\ probe.dib = Dist(Home(probe.key), idx) /\ result = <<"none">>
      /\ \A i \in Occupied : entries[i].key = probe.key => probe.dib <= entries[i].dib
  BY DistinctKeys DEF Find, RefInv, Faithful, MapInv, TypeOK, Locals, Serving, Probing, Probes, Values
<1>1. /\ Table' /\ Distinct' /\ Occupied' = Occupied /\ Contents' = Contents
      /\ \A k, v : Stored(k, v)' <=> Stored(k, v)
      /\ \A i \in Occupied : entries[i].val \in Val
  BY <1>0 DEF Table, Distinct, Occupied, Slots, Contents, Stored, Values
<1>2. \A k \in Key, v \in Val : before[k] = v <=> Stored(k, v)
  BY <1>0, <1>1, ContentsFacts
<1>3. ASSUME NEW value, Return(value)
      PROVE  /\ Values' /\ Faithful' /\ MapState = before /\ MapState' = before
             /\ result' = <<req.op, req.key, value>>
  BY <1>0, <1>1, <1>2, <1>3, ReturnStep
<1>4. CASE Missing(entries[idx]) /\ Return(IF req.op = "get" THEN NoVal ELSE FALSE)
  <2>1. \A i \in Occupied : entries[i].key # req.key
    BY <1>0, <1>4, EmptyEndsProbe DEF Missing, IsEmpty
  <2>2. before[req.key] = NoVal
    <3>1. before[req.key] \notin Val
      BY <1>0, <1>2, <2>1 DEF Stored
    <3> QED BY <1>0, <3>1 DEF Maps
  <2>3. CASE req.op = "get"
    <3>1. Return(NoVal)
      BY <1>4, <2>3
    <3>2. /\ Values' /\ Faithful' /\ MapState = before /\ MapState' = before
          /\ result' = <<req.op, req.key, NoVal>>
      BY <1>3, <3>1
    <3>3. Map!Next
      BY <1>0, <2>2, <2>3, <3>2, AbstractGet
    <3> QED BY <3>2, <3>3
  <2>4. CASE req.op = "del"
    <3>1. Return(FALSE)
      BY <1>4, <2>4
    <3>2. /\ Values' /\ Faithful' /\ MapState = before /\ MapState' = before
          /\ result' = <<req.op, req.key, FALSE>>
      BY <1>3, <3>1
    <3>3. before = [before EXCEPT ![req.key] = NoVal]
      BY <1>0, <2>2 DEF Maps
    <3>4. FALSE = (before[req.key] # NoVal)
      BY <2>2
    <3>5. Map!Next
      BY <1>0, <2>4, <3>2, <3>3, <3>4, AbstractDel
    <3> QED BY <3>2, <3>5
  <2> QED BY <1>0, <2>3, <2>4
<1>5. ASSUME ~Missing(entries[idx]), entries[idx].key = req.key
      PROVE  idx \in Occupied /\ before[req.key] = entries[idx].val /\ before[req.key] \in Val
  <2>1. idx \in Occupied
    BY <1>0, <1>5, EntryFacts DEF Missing
  <2>2. Stored(req.key, entries[idx].val) /\ entries[idx].val \in Val
    BY <1>1, <1>5, <2>1 DEF Stored
  <2> QED BY <1>0, <1>2, <2>1, <2>2
<1>6. CASE ~Missing(entries[idx]) /\ entries[idx].key = req.key /\ req.op = "get" /\ Return(entries[idx].val)
  <2>1. /\ Values' /\ Faithful' /\ MapState = before /\ MapState' = before
        /\ result' = <<req.op, req.key, entries[idx].val>>
    BY <1>3, <1>6
  <2>2. Map!Next
    BY <1>0, <1>5, <1>6, <2>1, AbstractGet
  <2> QED BY <2>1, <2>2
<1>7. CASE /\ ~Missing(entries[idx]) /\ entries[idx].key = req.key
           /\ pc' = "erase" /\ UNCHANGED <<idx, probe, req, result, before>>
  <2>1. ErasesFrom'
    <3>1. before[req.key] # NoVal /\ idx \in Occupied
      BY <1>5, <1>7, MapAssumption
    <3>2. \A i \in Occupied \ {idx} : entries[i].key # req.key
      BY <1>0, <1>7, <3>1 DEF Distinct
    <3>3. ASSUME NEW k \in Key \ {req.key}, NEW v \in Val
          PROVE  before[k] = v
                   <=> \E i \in Occupied \ {idx} : entries[i].key = k /\ entries[i].val = v
      BY <1>2, <1>7 DEF Stored
    <3> QED BY <1>0, <1>1, <1>7, <3>1, <3>2, <3>3 DEF ErasesFrom
  <2>2. Values' /\ Faithful'
    BY <1>0, <1>1, <1>7, <2>1 DEF Values, Faithful, InsertsInto, GrowsFrom
  <2> QED BY <1>0, <1>7, <2>2, InnerStep
<1>8. CASE pc' = pc /\ UNCHANGED <<req, result, before>>
  <2>1. Values' /\ Faithful'
    BY <1>0, <1>1, <1>8 DEF Values, Faithful, InsertsInto, GrowsFrom, ErasesFrom
  <2> QED BY <1>0, <1>8, <2>1, InnerStep
<1> QED BY <1>4, <1>6, <1>7, <1>8 DEF Find

\* One iteration of the backward shift keeps the refinement; the last is the Del of KVMap.
LEMMA EraseRef ==
  ASSUME RefInv, Erase
  PROVE  Values' /\ Faithful' /\ [Map!Next]_<<MapState, result>>
<1> DEFINE n == NextSlot(idx)
<1>0. /\ pc = "erase" /\ UNCHANGED <<hashOf, capacity>>
      /\ MapInv /\ Table /\ Values /\ ErasesFrom /\ before \in Maps /\ idx \in Occupied
      /\ req.key \in Key /\ req.op = "del" /\ result = <<"none">> /\ KeysUnique
  BY DEF Erase, RefInv, Faithful, MapInv, TypeOK, Serving, Values
<1>1. /\ idx \in Slots /\ n \in Slots /\ n # idx
      /\ n \in Occupied <=> ~IsEmpty(entries[n])
      /\ \A i \in Occupied : i \in Slots /\ entries[i].val \in Val
  BY <1>0, Ring, EntryFacts DEF Values
<1>2. CASE /\ EndsRun(entries[n]) /\ entries' = [entries EXCEPT ![idx] = EmptySlot]
           /\ Return(TRUE)
  <2> DEFINE m == [before EXCEPT ![req.key] = NoVal]
  <2>0. m \in Maps /\ m[req.key] = NoVal /\ \A k \in Key \ {req.key} : m[k] = before[k]
    BY <1>0 DEF Maps
  <2> HIDE DEF m
  <2>1. EmptySlot \in Entry /\ EmptySlot.key = NoKey
    BY DEF EmptySlot, Entry
  <2>2. /\ Table' /\ Occupied' = Occupied \ {idx}
        /\ \A i \in Occupied' : entries'[i] = entries[i]
    <3>1. /\ Table' /\ Occupied' = Occupied \ {idx}
          /\ \A i \in Slots : i # idx => entries'[i] = entries[i]
      BY <1>0, <1>1, <1>2, <2>1, WriteFacts
    <3> QED BY <1>1, <3>1
  <2>3. Distinct' /\ \A i \in Occupied' : entries'[i].val \in Val
    BY <1>0, <1>1, <2>2 DEF KeysUnique, Distinct
  <2>4. ASSUME NEW k \in Key, NEW v \in Val PROVE m[k] = v <=> Stored(k, v)'
    <3>1. CASE k = req.key
      <4>1. ~Stored(k, v)'
        BY <1>0, <2>2, <3>1 DEF ErasesFrom, Stored
      <4> QED BY <2>0, <3>1, <4>1, MapAssumption
    <3>2. CASE k # req.key
      BY <1>0, <2>0, <2>2, <3>2 DEF ErasesFrom, Stored
    <3> QED BY <3>1, <3>2
  <2>5. /\ Values' /\ Faithful' /\ MapState = before /\ MapState' = m
        /\ result' = <<req.op, req.key, TRUE>>
    BY <1>0, <1>2, <2>0, <2>2, <2>3, <2>4, ReturnStep
  <2>6. TRUE = (before[req.key] # NoVal)
    BY <1>0 DEF ErasesFrom
  <2>7. Map!Next
    BY <1>0, <2>5, <2>6, AbstractDel DEF m
  <2> QED BY <2>5, <2>7
<1>3. CASE ~EndsRun(entries[n]) /\ ShiftBack(n) /\ UNCHANGED <<size, pc, req, probe, result, before>>
  <2> DEFINE e == [entries[n] EXCEPT !.dib = @ - 1]
  <2>1. n \in Occupied /\ entries[n].dib # 0 /\ entries' = [entries EXCEPT ![idx] = e] /\ idx' = n
    BY <1>1, <1>3 DEF EndsRun, ShiftBack
  <2>2. /\ e \in Entry /\ e.key = entries[n].key /\ e.val = entries[n].val /\ e.key \in Key
    <3>1. entries[n] \in Entry /\ entries[n].key \in Key
      BY <1>0, <1>1, <2>1, EntryFacts
    <3>2. e \in Entry
      BY <1>0, <2>1, ShiftDown DEF MapInv
    <3> QED BY <3>1, <3>2 DEF Entry
  <2> HIDE DEF e
  <2>3. /\ Occupied' = Occupied /\ entries'[idx] = e
        /\ \A i \in Occupied : i # idx => entries'[i] = entries[i]
    <3>1. /\ Occupied' = Occupied \cup {idx} /\ entries'[idx] = e
          /\ \A i \in Slots : i # idx => entries'[i] = entries[i]
      BY <1>0, <1>1, <2>1, <2>2, WriteFacts
    <3> QED BY <1>0, <1>1, <3>1
  <2>4. \A i \in Occupied' \ {n} : entries'[i].key # req.key
    BY <1>0, <1>1, <2>1, <2>2, <2>3 DEF ErasesFrom
  <2>5. ASSUME NEW k, NEW v
        PROVE  (\E i \in Occupied' \ {n} : entries'[i].key = k /\ entries'[i].val = v)
                 <=> \E i \in Occupied \ {idx} : entries[i].key = k /\ entries[i].val = v
    BY <1>0, <1>1, <2>1, <2>2, <2>3
  <2>6. ErasesFrom'
    <3>1. before[req.key] # NoVal /\ req' = req /\ before' = before /\ idx' = n
      BY <1>0, <1>3, <2>1 DEF ErasesFrom
    <3>2. ASSUME NEW k \in Key \ {req.key}, NEW v \in Val
          PROVE  before[k] = v
                   <=> \E i \in Occupied' \ {n} : entries'[i].key = k /\ entries'[i].val = v
      <4>1. before[k] = v
              <=> \E i \in Occupied \ {idx} : entries[i].key = k /\ entries[i].val = v
        BY <1>0 DEF ErasesFrom
      <4> QED BY <2>5, <4>1
    <3> HIDE DEF n
    <3> QED BY <2>4, <3>1, <3>2, Zenon DEF ErasesFrom
  <2>7. \A i \in Occupied' : entries'[i].val \in Val
    BY <1>0, <1>1, <2>1, <2>2, <2>3
  <2>8. Values' /\ Faithful'
    BY <1>0, <1>3, <2>6, <2>7 DEF Values, Faithful, InsertsInto, GrowsFrom
  <2> QED BY <1>0, <1>3, <2>8, InnerStep
<1> QED BY <1>2, <1>3 DEF Erase

\* Every step of the table is a step of KVMap or leaves the map alone.
LEMMA RefInvNext == RefInv /\ [Next]_vars => RefInv' /\ [Map!Next]_<<MapState, result>>
<1> SUFFICES ASSUME RefInv, [Next]_vars
             PROVE  Values' /\ Faithful' /\ [Map!Next]_<<MapState, result>>
  BY MapInvNext DEF RefInv
<1>1. CASE UNCHANGED vars
  <2>1. /\ Occupied' = Occupied /\ OldUsed' = OldUsed /\ Contents' = Contents
        /\ \A k, v : (Stored(k, v)' <=> Stored(k, v)) /\ (Carries(k, v)' <=> Carries(k, v))
    BY <1>1 DEF vars, Occupied, Slots, OldUsed, Contents, Stored, Carries
  <2>2. Values' /\ UNCHANGED <<MapState, result>>
    BY <1>1, <2>1 DEF vars, RefInv, Values, MapState
  <2>3. InsertsInto' /\ ErasesFrom'
    BY <1>1, <2>1 DEF vars, RefInv, Faithful, InsertsInto, ErasesFrom
  <2>4. GrowsFrom'
    BY <1>1, <2>1 DEF vars, RefInv, Faithful, GrowsFrom, WasOld
  <2> QED BY <1>1, <2>1, <2>2, <2>3, <2>4 DEF vars, RefInv, Faithful
<1>2. CASE Loop
  BY <1>2, InsertRef, GrowRef, RehashRef, FindRef, EraseRef DEF Loop
<1>3. CASE \E k \in Key : (\E v \in Val : Set(k, v)) \/ Get(k) \/ Del(k)
  BY <1>3, CalledRef
<1> QED BY <1>1, <1>2, <1>3 DEF Next

\* Seen at its returns the table is the abstract map: set, get and del return
\* what the map returns and leave exactly its contents, whatever collides and
\* whenever the table grows (hashmap.cpp:14-97).
THEOREM TableImplementsMap == Spec => ImplementsMap
<1>1. Init => RefInv /\ Map!Init
  <2> SUFFICES ASSUME Init PROVE Values /\ Faithful /\ Map!Init
    BY MapInvInit DEF RefInv
  <2>1. Occupied = {} /\ pc = "idle" /\ result = <<"none">>
    BY DEF Init, Occupied, Slots, IsEmpty, EmptySlot
  <2>2. Values /\ Faithful
    BY <2>1 DEF Values, Faithful, InsertsInto, GrowsFrom, ErasesFrom
  <2>3. \A i \in Slots : entries[i].key = NoKey
    BY DEF Init, Slots, EmptySlot
  <2>4. Contents = [k \in Key |-> NoVal]
    BY <2>3, MapAssumption DEF Contents
  <2>5. Map!Init
    BY <2>1, <2>4 DEF Map!Init
  <2> QED BY <2>2, <2>5
<1> QED BY <1>1, RefInvNext, PTL DEF Spec, ImplementsMap, Map!Spec, MapState
=============================================================================
