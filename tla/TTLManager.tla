----------------------------- MODULE TTLManager -----------------------------
(***************************************************************************)
(* The expiry heap of the key-value engine (src/src/kv/ttl.{hpp,cpp}): a   *)
(* binary min-heap of deadlines, and index_, the position of every key in  *)
(* it, which lets set_expiry and remove_expiry reach into the middle of    *)
(* the heap.  A call runs alone; every iteration of sift_up, of sift_down  *)
(* and of the eviction loop is a step.  TTLEntry's heap_idx is written and *)
(* never read, and is left out.                                            *)
(***************************************************************************)
EXTENDS Integers

CONSTANTS Key, Ttl, NoDeadline,
          NoPos,       \* "not in index_"
          MaxNow       \* bound on the clock

ASSUME TTLAssumption ==
  /\ Ttl \subseteq Int
  /\ NoDeadline \notin Int
  /\ NoPos \notin Nat
  /\ MaxNow \in Nat

VARIABLES
  now,       \* now_ms()
  heap,      \* heap_, indexed from 0
  n,         \* heap_.size()
  index,     \* index_
  pc,        \* the loop in progress, or "idle"
  i,         \* i of sift_up or sift_down
  target,    \* idx of the call that sifts
  afterUp,   \* what follows sift_up(idx): sift_down(idx) or the return
  caller,    \* where remove_expiry returns: "idle" or evict_expired's loop
  expired,   \* entries evict_expired has taken out so far
  evicted    \* keys evict_expired has just returned

call == <<pc, i, target, afterUp, caller>>
vars == <<now, heap, n, index, call, expired, evicted>>

Entry == [at : Int, key : Key]

Parent(p) == (p - 1) \div 2
Left(p) == 2 * p + 1
Right(p) == 2 * p + 2

Positions == 0 .. n - 1

\* get_expiry, with NoDeadline for its -1.
GetExpiry(k) == IF index[k] = NoPos THEN NoDeadline ELSE heap[index[k]].at

Init == /\ now = 0
        /\ heap = [p \in {} |-> 0] /\ n = 0
        /\ index = [k \in Key |-> NoPos]
        /\ pc = "idle" /\ i = 0 /\ target = 0
        /\ afterUp = "idle" /\ caller = "idle"
        /\ expired = {} /\ evicted = {}

\* Enter sift_up(p); next says whether sift_down(p) follows.
Sift(p, next) == /\ pc' = "up" /\ i' = p /\ target' = p
                 /\ afterUp' = next

\* Leave the sifts for the caller: their locals are gone.
Unwind(to) == /\ pc' = to /\ i' = 0 /\ target' = 0
              /\ afterUp' = "idle"

-----------------------------------------------------------------------------
\* Fault: a deadline that is moved forward is never sifted up.
UpdateDownOnly(k, at) ==
  /\ heap' = [heap EXCEPT ![index[k]].at = at]
  /\ pc' = "down" /\ i' = index[k] /\ target' = index[k]
  /\ afterUp' = "down"
  /\ UNCHANGED <<n, index>>

\* set_expiry of a key that has a deadline.
Update(k, at) == /\ heap' = [heap EXCEPT ![index[k]].at = at]
                 /\ Sift(index[k], "down")
                 /\ UNCHANGED <<n, index>>

\* set_expiry of a key that has none.
Push(k, at) == /\ heap' = [p \in 0 .. n |-> IF p = n THEN [at |-> at, key |-> k]
                                                    ELSE heap[p]]
               /\ n' = n + 1
               /\ index' = [index EXCEPT ![k] = n]
               /\ Sift(n, "idle")

SetExpiry(k, ttl) ==
  /\ pc = "idle"
  /\ \/ index[k] # NoPos /\ Update(k, now + ttl)
     \/ index[k] = NoPos /\ Push(k, now + ttl)
  /\ evicted' = {}
  /\ UNCHANGED <<now, caller, expired>>

(***************************************************************************)
(* remove_expiry of a key that has a deadline: the last entry takes its    *)
(* place.  ret is where the call returns.                                  *)
(***************************************************************************)
Remove(k, ret) ==
  LET p == index[k] IN
  /\ heap' = [q \in 0 .. n - 2 |-> IF q = p THEN heap[n - 1] ELSE heap[q]]
  /\ n' = n - 1
  /\ index' = [[index EXCEPT ![heap[n - 1].key] = p] EXCEPT ![k] = NoPos]
  /\ caller' = ret
  /\ \/ p # n - 1 /\ Sift(p, "down")
     \/ p = n - 1 /\ Unwind(ret)

RemoveExpiry(k) == /\ pc = "idle"
                   /\ index[k] # NoPos
                   /\ Remove(k, "idle")
                   /\ evicted' = {}
                   /\ UNCHANGED <<now, expired>>

-----------------------------------------------------------------------------
\* Fault: the positions recorded for the two keys are not exchanged.
SwapHeapOnly(a, b) == /\ heap' = [heap EXCEPT ![a] = heap[b], ![b] = heap[a]]
                      /\ UNCHANGED index

SwapEntries(a, b) ==
  /\ heap' = [heap EXCEPT ![a] = heap[b], ![b] = heap[a]]
  /\ index' = [index EXCEPT ![heap[b].key] = a, ![heap[a].key] = b]

Rises(p) == p > 0 /\ heap[p].at < heap[Parent(p)].at

SiftUp ==
  /\ pc = "up"
  /\ \/ /\ Rises(i)
        /\ SwapEntries(Parent(i), i)
        /\ i' = Parent(i)
        /\ UNCHANGED <<pc, target, afterUp>>
     \/ /\ ~Rises(i) /\ afterUp = "down"
        /\ pc' = "down" /\ i' = target
        /\ UNCHANGED <<heap, index, target, afterUp>>
     \/ /\ ~Rises(i) /\ afterUp = "idle"
        /\ Unwind("idle")
        /\ UNCHANGED <<heap, index>>
  /\ UNCHANGED <<now, n, caller, expired, evicted>>

\* smallest of sift_down: the position that must hold p's entry.
Smallest(p) ==
  LET s == IF Left(p) < n /\ heap[Left(p)].at < heap[p].at THEN Left(p) ELSE p
  IN  IF Right(p) < n /\ heap[Right(p)].at < heap[s].at THEN Right(p) ELSE s

SiftDown ==
  /\ pc = "down"
  /\ \/ /\ Smallest(i) # i
        /\ SwapEntries(i, Smallest(i))
        /\ i' = Smallest(i)
        /\ UNCHANGED <<pc, target, afterUp>>
     \/ /\ Smallest(i) = i
        /\ Unwind(caller)
        /\ UNCHANGED <<heap, index>>
  /\ UNCHANGED <<now, n, caller, expired, evicted>>

-----------------------------------------------------------------------------
StartEvict == /\ pc = "idle"
              /\ pc' = "evict" /\ caller' = "evict"
              /\ evicted' = {}
              /\ UNCHANGED <<now, heap, n, index, i, target, afterUp, expired>>

\* Fault: an entry due this very millisecond is left for later.
RootDueLate == n > 0 /\ heap[0].at < now
RootDue == n > 0 /\ heap[0].at <= now

EvictExpired ==
  /\ pc = "evict"
  /\ \/ /\ RootDue
        /\ expired' = expired \cup {heap[0]}
        /\ Remove(heap[0].key, "evict")
        /\ UNCHANGED evicted
     \/ /\ ~RootDue
        /\ evicted' = {e.key : e \in expired}
        /\ expired' = {}
        /\ pc' = "idle" /\ caller' = "idle"
        /\ UNCHANGED <<heap, n, index, i, target, afterUp>>
  /\ UNCHANGED now

Pass == /\ pc = "idle"
        /\ now < MaxNow
        /\ now' = now + 1
        /\ evicted' = {}
        /\ UNCHANGED <<heap, n, index, call, expired>>

Next == \/ \E k \in Key : RemoveExpiry(k) \/ \E ttl \in Ttl : SetExpiry(k, ttl)
        \/ SiftUp \/ SiftDown
        \/ StartEvict \/ EvictExpired
        \/ Pass

Spec == Init /\ [][Next]_vars
-----------------------------------------------------------------------------
TypeOK ==
  /\ now \in Nat
  /\ n \in Nat
  /\ heap \in [Positions -> Entry]
  /\ index \in [Key -> Positions \cup {NoPos}]
  /\ pc \in {"idle", "up", "down", "evict"}
  /\ i \in Nat /\ target \in Nat
  /\ pc \in {"up", "down"} => i \in Positions /\ target \in Positions
  /\ afterUp \in {"down", "idle"} /\ caller \in {"idle", "evict"}
  /\ expired \in SUBSET Entry
  /\ evicted \in SUBSET Key

\* index_ and heap_ agree at every step: a key's recorded position is where
\* its entry is, and every entry's key is recorded (ttl.cpp:13,32-34,88-94).
IndexInverse ==
  /\ \A p \in Positions : index[heap[p].key] = p
  /\ \A k \in Key : index[k] # NoPos => heap[index[k]].key = k

Ordered(p) == p > 0 => heap[Parent(p)].at <= heap[p].at

\* Between calls no entry is due before its parent, whichever entry in the
\* middle of the heap the call updated or removed (ttl.cpp:14-16,32-37).
HeapOrder == pc \in {"idle", "evict"} => \A p \in Positions : Ordered(p)

\* What next_expiry_in and evict_expired read at the root is the earliest
\* deadline of all (ttl.cpp:52,61).
RootEarliest ==
  pc \in {"idle", "evict"} => \A p \in Positions : heap[0].at <= heap[p].at

(***************************************************************************)
(* Refinement: at every step the deadlines are those of the abstract       *)
(* table.  A key taken out by an eviction counts until evict_expired       *)
(* returns it.                                                             *)
(***************************************************************************)
Pending(k) == {e.at : e \in {x \in expired : x.key = k}}

D == INSTANCE Deadlines WITH
       deadline <- [k \in Key |-> IF Pending(k) = {} THEN GetExpiry(k)
                                  ELSE CHOOSE at \in Pending(k) : TRUE]

\* Sifting never changes, loses or invents a deadline, and evict_expired
\* returns exactly the keys that are due (ttl.cpp:9-57).
ImplementsDeadlines == D!Spec
=============================================================================
