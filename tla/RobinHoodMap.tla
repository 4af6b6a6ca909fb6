---------------------------- MODULE RobinHoodMap ----------------------------
(***************************************************************************)
(* The open-addressing table under the key-value engine                    *)
(* (src/src/kv/hashmap.{hpp,cpp}).  An operation runs alone, one iteration *)
(* of its loop per step: pc names the loop it is in, and only that loop's  *)
(* step is enabled until the operation returns.                            *)
(*                                                                         *)
(* hashOf stands for the 32-bit FNV-1a hash.  It never changes; Init picks *)
(* any assignment of hash codes to keys, so every collision pattern of the *)
(* key set is covered.  A slot keeps its key, its value and dib, the       *)
(* distance from the slot the key hashes to; the cached hash of a slot is  *)
(* hashOf of its key and is not stored twice.                              *)
(***************************************************************************)
EXTENDS Integers, FiniteSets

CONSTANTS Key, Val, NoKey, NoVal,
          HashCode,         \* the values hash() may return: never EMPTY
          InitialCapacity   \* next_pow2 of the constructor's argument

ASSUME MapAssumption ==
  /\ NoKey \notin Key /\ NoVal \notin Val
  /\ HashCode \subseteq Nat
  /\ InitialCapacity \in Nat /\ InitialCapacity >= 2
  /\ \E n \in 1 .. 32 : InitialCapacity = 2 ^ n

VARIABLES
  hashOf,    \* hash of each key
  entries,   \* entries_, indexed from 0
  size,      \* size_
  capacity,  \* capacity_ (mask_ is capacity_ - 1)
  pc,        \* the loop in progress, or "idle"
  req,       \* the call in progress: its name and arguments
  idx,       \* idx of that loop
  probe,     \* incoming of set and grow; key and dib sought by get and del
  old,       \* old of grow
  oldPos,    \* i of grow
  result,    \* what the last finished call returned
  before     \* history: the contents when the call in progress began

vars == <<hashOf, entries, size, capacity, pc, req, idx, probe, old, oldPos,
          result, before>>

\* An Entry: key, value and the distance from its home slot.
EmptySlot == [key |-> NoKey, val |-> NoVal, dib |-> 0]
IsEmpty(slot) == slot.key = NoKey

Slots == 0 .. capacity - 1
Home(k) == hashOf[k] % capacity             \* hash(key) & mask_

NextSlot(i) == (i + 1) % capacity           \* (idx + 1) & mask_

Occupied == {i \in Slots : ~IsEmpty(entries[i])}

\* The map a caller sees: only meaningful between calls.
Contents == [k \in Key |-> IF \E i \in Slots : entries[i].key = k
                           THEN entries[CHOOSE i \in Slots : entries[i].key = k].val
                           ELSE NoVal]

NoCall == [op |-> "none", key |-> NoKey, val |-> NoVal]

Nothing == [k \in Key |-> NoVal]

Init == /\ hashOf \in [Key -> HashCode]
        /\ capacity = InitialCapacity
        /\ entries = [i \in 0 .. InitialCapacity - 1 |-> EmptySlot]
        /\ size = 0
        /\ pc = "idle"
        /\ req = NoCall
        /\ idx = 0 /\ probe = EmptySlot
        /\ old = <<>> /\ oldPos = 0
        /\ result = <<"none">>
        /\ before = Nothing

\* The call is over: its locals are gone.
Return(value) == /\ pc' = "idle"
                 /\ result' = <<req.op, req.key, value>>
                 /\ req' = NoCall
                 /\ idx' = 0 /\ probe' = EmptySlot
                 /\ before' = Nothing

(***************************************************************************)
(* The calls.  set checks the load factor first (0.75 of the capacity,     *)
(* counting the entry about to be added even if the key is there already). *)
(***************************************************************************)
Overloaded == 4 * (size + 1) > 3 * capacity

Carry(k, v) == [key |-> k, val |-> v, dib |-> 0]

StartProbe(loop, k, v) == /\ pc' = loop
                          /\ idx' = Home(k)
                          /\ probe' = Carry(k, v)

\* Fault: size_ is not reset, so rehashing counts every entry twice.
StartGrowKeepsSize == /\ pc' = "grow"
                      /\ old' = entries /\ oldPos' = 0
                      /\ capacity' = 2 * capacity
                      /\ entries' = [i \in 0 .. 2 * capacity - 1 |-> EmptySlot]
                      /\ UNCHANGED <<size, idx, probe>>

\* grow(), up to its loop: the new table replaces the old one and is empty.
StartGrow == /\ pc' = "grow"
             /\ old' = entries /\ oldPos' = 0
             /\ capacity' = 2 * capacity
             /\ entries' = [i \in 0 .. 2 * capacity - 1 |-> EmptySlot]
             /\ size' = 0
             /\ UNCHANGED <<idx, probe>>

Call(c) == /\ pc = "idle"
           /\ req' = c
           /\ before' = Contents
           /\ result' = <<"none">>
           /\ UNCHANGED hashOf

Set(k, v) ==
  /\ Call([op |-> "set", key |-> k, val |-> v])
  /\ \/ Overloaded /\ StartGrow
     \/ /\ ~Overloaded
        /\ StartProbe("insert", k, v)
        /\ UNCHANGED <<entries, size, capacity, old, oldPos>>

Get(k) == /\ Call([op |-> "get", key |-> k, val |-> NoVal])
          /\ StartProbe("find", k, NoVal)
          /\ UNCHANGED <<entries, size, capacity, old, oldPos>>

Del(k) == /\ Call([op |-> "del", key |-> k, val |-> NoVal])
          /\ StartProbe("find", k, NoVal)
          /\ UNCHANGED <<entries, size, capacity, old, oldPos>>

(***************************************************************************)
(* The insertion loop shared by set and grow: an entry further from home   *)
(* than the one it meets takes its slot and the loop carries the other.    *)
(***************************************************************************)
\* Fault: an equally distant entry is displaced too.
DisplacesEqual(slot) == probe.dib >= slot.dib
Displaces(slot) == probe.dib > slot.dib

Advance(slot) ==
  LET swap == Displaces(slot)
      kept == IF swap THEN slot ELSE probe
  IN  /\ entries' = IF swap THEN [entries EXCEPT ![idx] = probe] ELSE entries
      /\ probe' = [kept EXCEPT !.dib = @ + 1]
      /\ idx' = NextSlot(idx)

Place == /\ entries' = [entries EXCEPT ![idx] = probe]
         /\ size' = size + 1

\* The loop of set compares hashes with the hash of the key it was called
\* with, keys with the key it carries now.
SameKey(slot) == hashOf[slot.key] = hashOf[req.key] /\ slot.key = probe.key

Insert ==
  LET slot == entries[idx] IN
  /\ pc = "insert"
  /\ \/ /\ IsEmpty(slot)
        /\ Place
        /\ Return(TRUE)
     \/ /\ ~IsEmpty(slot) /\ SameKey(slot)
        /\ entries' = [entries EXCEPT ![idx].val = probe.val]
        /\ Return(FALSE)
        /\ UNCHANGED size
     \/ /\ ~IsEmpty(slot) /\ ~SameKey(slot)
        /\ Advance(slot)
        /\ UNCHANGED <<size, pc, req, result, before>>
  /\ UNCHANGED <<hashOf, capacity, old, oldPos>>

\* The outer loop of grow; when it ends, set goes on in the new table.
Grow ==
  /\ pc = "grow"
  /\ \/ /\ oldPos \in DOMAIN old /\ IsEmpty(old[oldPos])
        /\ oldPos' = oldPos + 1
        /\ UNCHANGED <<pc, idx, probe, old>>
     \/ /\ oldPos \in DOMAIN old /\ ~IsEmpty(old[oldPos])
        /\ StartProbe("rehash", old[oldPos].key, old[oldPos].val)
        /\ UNCHANGED <<old, oldPos>>
     \/ /\ oldPos \notin DOMAIN old
        /\ StartProbe("insert", req.key, req.val)
        /\ old' = <<>> /\ oldPos' = 0
  /\ UNCHANGED <<hashOf, entries, size, capacity, req, result, before>>

\* The inner loop of grow.
Rehash ==
  LET slot == entries[idx] IN
  /\ pc = "rehash"
  /\ \/ /\ IsEmpty(slot)
        /\ Place
        /\ pc' = "grow"
        /\ oldPos' = oldPos + 1
        /\ UNCHANGED <<idx, probe>>
     \/ /\ ~IsEmpty(slot)
        /\ Advance(slot)
        /\ UNCHANGED <<size, pc, oldPos>>
  /\ UNCHANGED <<hashOf, capacity, req, old, result, before>>

(***************************************************************************)
(* The lookup loop of get and del.                                         *)
(***************************************************************************)
\* Fault: the early exit comes one slot too soon.
MissingTooSoon(slot) == IsEmpty(slot) \/ (probe.dib > 0 /\ probe.dib >= slot.dib)
Missing(slot) == IsEmpty(slot) \/ probe.dib > slot.dib

Find ==
  LET slot == entries[idx] IN
  /\ pc = "find"
  /\ \/ /\ Missing(slot)
        /\ Return(IF req.op = "get" THEN NoVal ELSE FALSE)
     \/ /\ ~Missing(slot) /\ slot.key = req.key /\ req.op = "get"
        /\ Return(slot.val)
     \/ /\ ~Missing(slot) /\ slot.key = req.key /\ req.op = "del"
        /\ pc' = "erase"
        /\ UNCHANGED <<idx, probe, req, result, before>>
     \/ /\ ~Missing(slot) /\ slot.key # req.key
        /\ idx' = NextSlot(idx)
        /\ probe' = [probe EXCEPT !.dib = @ + 1]
        /\ UNCHANGED <<pc, req, result, before>>
  /\ UNCHANGED <<hashOf, entries, size, capacity, old, oldPos>>

(***************************************************************************)
(* erase_at: shift the run that follows back by one slot, then del's       *)
(* size_--.  The slot an entry was moved out of keeps its old hash and dib *)
(* until the next iteration overwrites or resets it.                       *)
(***************************************************************************)
\* Faults: the moved entry keeps its dib; the hole does not move on.
ShiftBackKeepsDib(next) == /\ entries' = [entries EXCEPT ![idx] = entries[next]]
                           /\ idx' = next
ShiftBackStaysPut(next) ==
  /\ entries' = [entries EXCEPT ![idx] = [entries[next] EXCEPT !.dib = @ - 1]]
  /\ UNCHANGED idx

ShiftBack(next) ==
  /\ entries' = [entries EXCEPT ![idx] = [entries[next] EXCEPT !.dib = @ - 1]]
  /\ idx' = next

EndsRun(slot) == IsEmpty(slot) \/ slot.dib = 0

Erase ==
  LET next == NextSlot(idx) IN
  /\ pc = "erase"
  /\ \/ /\ EndsRun(entries[next])
        /\ entries' = [entries EXCEPT ![idx] = EmptySlot]
        /\ size' = size - 1
        /\ Return(TRUE)
     \/ /\ ~EndsRun(entries[next])
        /\ ShiftBack(next)
        /\ UNCHANGED <<size, pc, req, probe, result, before>>
  /\ UNCHANGED <<hashOf, capacity, old, oldPos>>

Loop == Insert \/ Grow \/ Rehash \/ Find \/ Erase

Next == \/ \E k \in Key : (\E v \in Val : Set(k, v)) \/ Get(k) \/ Del(k)
        \/ Loop

Spec == Init /\ [][Next]_vars

\* A call that has begun runs on: it is plain sequential code.
FairSpec == Spec /\ WF_vars(Loop)
-----------------------------------------------------------------------------
\* Cyclic distance from slot h forward to slot i.
Dist(h, i) == IF i >= h THEN i - h ELSE i - h + capacity

\* Slot j lies on the probe path of the entry in slot i.
OnPath(i, j) == Dist(Home(entries[i].key), j) <= entries[i].dib

(***************************************************************************)
(* The Robin Hood invariant.  dib is the true distance from home, and      *)
(* every slot on the way from an entry's home to the entry is in use by an *)
(* entry at least as far from its own home.  It is what makes the early    *)
(* exit of get and del (hashmap.cpp:57,72) sound, and it must survive      *)
(* displacement, backward shift and rehashing.                             *)
(***************************************************************************)
ProbeOrder ==
  \A i \in Occupied :
    /\ entries[i].dib = Dist(Home(entries[i].key), i)
    /\ \A j \in Slots : OnPath(i, j) =>
         /\ ~IsEmpty(entries[j])
         /\ entries[j].dib >= Dist(Home(entries[i].key), j)

\* No key is stored twice.  While del shifts a run back, the slot at idx
\* holds what is left of a moved-out entry and does not count.
KeysUnique ==
  \A i, j \in Occupied :
    (i # j /\ entries[i].key = entries[j].key) => (pc = "erase" /\ idx \in {i, j})

\* Between calls size_ counts the entries exactly and some slot is free, so
\* no probe loop runs round the table for ever.
SizeExact ==
  pc = "idle" => /\ size = Cardinality(Occupied)
                 /\ 4 * size <= 3 * capacity

(***************************************************************************)
(* Refinement: seen at its returns, the table is the abstract map.         *)
(***************************************************************************)
Map == INSTANCE KVMap WITH
         map <- IF pc = "idle" THEN Contents ELSE before

\* Every call returns what the abstract map returns and leaves the table
\* with exactly the abstract map's contents (hashmap.cpp:14-97).
ImplementsMap == Map!Spec

\* Every call returns: probe loops, backward shift and rehash all end.
CallsReturn == pc # "idle" ~> pc = "idle"
=============================================================================
