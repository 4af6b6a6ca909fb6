----------------------------- MODULE Deadlines -----------------------------
(***************************************************************************)
(* What TTLManager promises the key-value engine: at most one deadline per *)
(* key, and an eviction that hands back exactly the keys whose deadline    *)
(* has passed.  now is the reading of the steady clock.                    *)
(***************************************************************************)
EXTENDS Integers

CONSTANTS Key,
          Ttl,            \* the ttl_ms arguments of set_expiry
          NoDeadline

VARIABLES now,
          deadline,       \* deadline of each key, or NoDeadline
          evicted         \* keys evict_expired has just returned

Init == /\ now = 0
        /\ deadline = [k \in Key |-> NoDeadline]
        /\ evicted = {}

SetExpiry(k, ttl) == /\ deadline' = [deadline EXCEPT ![k] = now + ttl]
                     /\ evicted' = {}
                     /\ UNCHANGED now

RemoveExpiry(k) == /\ deadline' = [deadline EXCEPT ![k] = NoDeadline]
                   /\ evicted' = {}
                   /\ UNCHANGED now

Due == {k \in Key : deadline[k] # NoDeadline /\ deadline[k] <= now}

EvictExpired == /\ evicted' = Due
                /\ deadline' = [k \in Key |-> IF k \in Due THEN NoDeadline
                                                           ELSE deadline[k]]
                /\ UNCHANGED now

Pass == /\ now' = now + 1
        /\ evicted' = {}
        /\ UNCHANGED deadline

\* evict_expired has been called and has returned nothing yet.
StartEvict == evicted' = {} /\ UNCHANGED <<now, deadline>>

Next == \/ \E k \in Key : RemoveExpiry(k) \/ \E ttl \in Ttl : SetExpiry(k, ttl)
        \/ StartEvict \/ EvictExpired
        \/ Pass

Spec == Init /\ [][Next]_<<now, deadline, evicted>>
=============================================================================
