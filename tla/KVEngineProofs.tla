--------------------------- MODULE KVEngineProofs ---------------------------
(***************************************************************************)
(* The lifetime of keys, for any keys, values and lifetimes and any bound  *)
(* on the clock: no deadline without a key, nothing served late,           *)
(* nothing removed early, restarts faithful.                               *)
(*                                                                         *)
(* The invariant KVInv adds to the types that the engine's deadlines are   *)
(* always the lifetimes clients were promised, that they are positive (so  *)
(* that none is mistaken for get_expiry's -1), and that a snapshot has one *)
(* entry per key.                                                          *)
(***************************************************************************)
EXTENDS KVEngine, TLAPS

DeadlinesSane == \A k \in Key : deadline[k] # NoDeadline => deadline[k] > 0

SavedOnce == \A e, f \in saved : e.key = f.key => e = f

KVInv == /\ TypeOK /\ NoOrphanDeadline
         /\ until = deadline
         /\ now >= StartNow
         /\ DeadlinesSane /\ SavedOnce

-----------------------------------------------------------------------------
\* A new deadline is a positive number.
LEMMA NewDeadlinePositive ==
  ASSUME KVInv, NEW t \in Ttl
  PROVE  now + t \in Int /\ now + t > 0 /\ now + t # NoDeadline
<1>1. now \in Nat /\ now >= StartNow
  BY DEF KVInv, TypeOK
<1>2. StartNow \in Nat /\ t \in Int /\ StartNow + t > 0 /\ NoDeadline \notin Int
  BY KVAssumption, DeadlinesPositive
<1> QED BY <1>1, <1>2

\* With positive deadlines the lazy check of get is "the deadline has passed".
LEMMA LapsedIsOver ==
  ASSUME KVInv, NEW k \in Key
  PROVE  Lapsed(k) <=> (until[k] # NoDeadline /\ until[k] <= now)
<1>1. now \in Nat /\ until = deadline /\ deadline[k] \in Int \cup {NoDeadline}
  BY DEF KVInv, TypeOK
<1>2. deadline[k] # NoDeadline => deadline[k] > 0
  BY DEF KVInv, DeadlinesSane
<1> QED BY <1>1, <1>2 DEF Lapsed, GetExpiry

\* Replacing the value and the deadline of one key keeps the invariant.
LEMMA OneKeyStep ==
  ASSUME KVInv, NEW k \in Key, NEW v \in Val \cup {NoVal},
         NEW d \in Int \cup {NoDeadline},
         d # NoDeadline => d > 0 /\ v # NoVal,
         map' = [map EXCEPT ![k] = v],
         deadline' = [deadline EXCEPT ![k] = d],
         until' = [until EXCEPT ![k] = d],
         UNCHANGED <<now, saved>>
  PROVE  KVInv'
<1>1. TypeOK'
  BY DEF KVInv, TypeOK
<1>2. NoOrphanDeadline' /\ DeadlinesSane'
  BY DEF KVInv, TypeOK, NoOrphanDeadline, DeadlinesSane
<1>3. until' = deadline' /\ now' >= StartNow /\ SavedOnce'
  BY DEF KVInv, TypeOK, SavedOnce
<1> QED BY <1>1, <1>2, <1>3 DEF KVInv

\* Leaving both alone does, too.
LEMMA NoKeyStep ==
  ASSUME KVInv, UNCHANGED <<now, map, deadline, saved, until>>
  PROVE  KVInv'
BY DEF KVInv, TypeOK, NoOrphanDeadline, DeadlinesSane, SavedOnce

\* The empty engine.
LEMMA KVInvInit == Init => KVInv
BY KVAssumption DEF Init, None, KVInv, TypeOK, NoOrphanDeadline, DeadlinesSane, SavedOnce

-----------------------------------------------------------------------------
\* What load() brings back is what the snapshot holds for the key.
LEMMA LoadedFacts ==
  ASSUME KVInv, NEW k \in Key
  PROVE  /\ LoadedVal(k) \in Val \cup {NoVal}
         /\ LoadedDeadline(k) \in Int \cup {NoDeadline}
         /\ LoadedDeadline(k) # NoDeadline => LoadedDeadline(k) > 0 /\ LoadedVal(k) # NoVal
         /\ \A e \in saved : e.key = k /\ Loadable(e) =>
              e = [key |-> k, val |-> LoadedVal(k), at |-> LoadedDeadline(k)]
         /\ (~\E e \in saved : e.key = k /\ Loadable(e)) => LoadedVal(k) = NoVal
<1>1. now \in Nat /\ saved \in SUBSET Entry /\ NoVal \notin Val /\ NoDeadline \notin Int
  BY KVAssumption DEF KVInv, TypeOK
<1>2. CASE ~\E e \in saved : e.key = k /\ Loadable(e)
  BY <1>2 DEF LoadedVal, LoadedDeadline
<1>3. ASSUME NEW e \in saved, e.key = k, Loadable(e)
      PROVE  /\ LoadedVal(k) = e.val /\ LoadedDeadline(k) = e.at
             /\ e.val \in Val /\ e.at \in Int \cup {NoDeadline}
             /\ e.at # NoDeadline => e.at > 0
             /\ e = [key |-> k, val |-> e.val, at |-> e.at]
  <2>1. e \in Entry
    BY <1>1
  <2>2. /\ e.val \in Val /\ e.at \in Int \cup {NoDeadline}
        /\ e = [key |-> e.key, val |-> e.val, at |-> e.at]
    BY <2>1 DEF Entry
  <2>3. (CHOOSE x \in saved : x.key = k) = e
    <3>1. \A x \in saved : x.key = k => x = e
      BY <1>3 DEF KVInv, SavedOnce
    <3> QED BY <1>3, <3>1
  <2>4. LoadedVal(k) = e.val
    BY <1>3, <2>3 DEF LoadedVal
  <2>5. e.at # NoDeadline => e.at - now > 0
    BY <1>3 DEF Loadable
  <2>6. LoadedDeadline(k) = IF e.at = NoDeadline THEN NoDeadline
                            ELSE IF e.at - now > 0 THEN now + (e.at - now) ELSE NoDeadline
    BY <1>3, <2>3 DEF LoadedDeadline
  <2>7. CASE e.at = NoDeadline
    BY <1>3, <2>2, <2>4, <2>6, <2>7
  <2>8. CASE e.at # NoDeadline
    <3>1. e.at \in Int /\ e.at - now > 0 /\ now + (e.at - now) = e.at /\ e.at > 0
      BY <1>1, <2>2, <2>5, <2>8
    <3> QED BY <1>3, <2>2, <2>4, <2>6, <2>8, <3>1
  <2> QED BY <2>7, <2>8
<1>4. CASE \E e \in saved : e.key = k /\ Loadable(e)
  <2>1. PICK e \in saved : e.key = k /\ Loadable(e)
    BY <1>4
  <2>2. /\ LoadedVal(k) \in Val /\ LoadedDeadline(k) \in Int \cup {NoDeadline}
        /\ LoadedDeadline(k) # NoDeadline => LoadedDeadline(k) > 0
    BY <1>3, <2>1
  <2>3. ASSUME NEW f \in saved, f.key = k, Loadable(f)
        PROVE  f = [key |-> k, val |-> LoadedVal(k), at |-> LoadedDeadline(k)]
    BY <1>3, <2>3
  <2> QED BY <1>1, <1>4, <2>2, <2>3
<1> QED BY <1>2, <1>4

\* A restart keeps the invariant.
LEMMA RestartStep ==
  ASSUME KVInv, Restart
  PROVE  KVInv'
<1>1. /\ map' = [k \in Key |-> LoadedVal(k)]
      /\ deadline' = [k \in Key |-> LoadedDeadline(k)]
      /\ until' = deadline' /\ UNCHANGED <<now, saved>>
  BY DEF Restart
<1>2. \A k \in Key : /\ LoadedVal(k) \in Val \cup {NoVal}
                     /\ LoadedDeadline(k) \in Int \cup {NoDeadline}
                     /\ LoadedDeadline(k) # NoDeadline =>
                          LoadedDeadline(k) > 0 /\ LoadedVal(k) # NoVal
  BY LoadedFacts
<1>3. TypeOK'
  BY <1>1, <1>2 DEF KVInv, TypeOK
<1>4. NoOrphanDeadline' /\ DeadlinesSane'
  BY <1>1, <1>2 DEF NoOrphanDeadline, DeadlinesSane
<1> QED BY <1>1, <1>3, <1>4 DEF KVInv, SavedOnce

\* A snapshot has at most one entry per key.
LEMMA SaveStep ==
  ASSUME KVInv, Save
  PROVE  KVInv'
<1>1. saved' = AllEntries /\ UNCHANGED <<now, map, deadline, until>>
  BY DEF Save
<1>2. AllEntries \in SUBSET Entry
  BY DEF KVInv, TypeOK, AllEntries, Entry
<1>3. \A e, f \in AllEntries : e.key = f.key => e = f
  BY DEF AllEntries
<1> QED BY <1>1, <1>2, <1>3 DEF KVInv, TypeOK, NoOrphanDeadline, DeadlinesSane, SavedOnce

\* An eviction keeps the invariant.
LEMMA TickStep ==
  ASSUME KVInv, Tick
  PROVE  KVInv'
<1>1. /\ map' = [k \in Key |-> IF k \in Due THEN NoVal ELSE map[k]]
      /\ deadline' = [k \in Key |-> IF k \in Due THEN NoDeadline ELSE deadline[k]]
      /\ until' = [k \in Key |-> IF k \in Due THEN NoDeadline ELSE until[k]]
      /\ UNCHANGED <<now, saved>>
  BY DEF Tick
<1>2. TypeOK'
  BY <1>1 DEF KVInv, TypeOK
<1>3. NoOrphanDeadline' /\ DeadlinesSane'
  BY <1>1 DEF KVInv, NoOrphanDeadline, DeadlinesSane
<1>4. until' = deadline'
  BY <1>1 DEF KVInv
<1> QED BY <1>1, <1>2, <1>3, <1>4 DEF KVInv, SavedOnce

-----------------------------------------------------------------------------
\* Every command keeps the invariant.
LEMMA CommandStep ==
  ASSUME KVInv, Command
  PROVE  KVInv'
<1>0. /\ map \in [Key -> Val \cup {NoVal}] /\ NoVal \notin Val
      /\ deadline \in [Key -> Int \cup {NoDeadline}] /\ until = deadline
  BY KVAssumption DEF KVInv, TypeOK
<1>1. ASSUME NEW k \in Key, NEW v \in Val, NEW ttl \in Ttl \cup {-1}, Set(k, v, ttl)
      PROVE  KVInv'
  <2>1. CASE ttl > 0
    <3>1. ttl \in Ttl /\ now + ttl \in Int /\ now + ttl > 0
      BY <2>1, NewDeadlinePositive
    <3> QED BY <1>0, <1>1, <2>1, <3>1, OneKeyStep DEF Set, NewDeadline
  <2>2. CASE ~(ttl > 0)
    <3>1. /\ map' = [map EXCEPT ![k] = v] /\ UNCHANGED <<now, saved>>
          /\ deadline' = [deadline EXCEPT ![k] = NoDeadline]
          /\ until' = [until EXCEPT ![k] = NoDeadline]
      BY <1>1, <2>2 DEF Set, NewDeadline
    <3> QED BY <3>1, OneKeyStep
  <2> QED BY <2>1, <2>2
<1>2. ASSUME NEW k \in Key, Forget(k), UNCHANGED <<now, saved>> PROVE KVInv'
  BY <1>2, OneKeyStep DEF Forget
<1>3. ASSUME NEW k \in Key, NEW cmd \in {"GET", "EXISTS"}, Get(cmd, k) PROVE KVInv'
  BY <1>2, <1>3, NoKeyStep DEF Get
<1>4. ASSUME NEW k \in Key, Del(k) PROVE KVInv'
  BY <1>2, <1>4 DEF Del
<1>5. ASSUME NEW k \in Key, NEW ttl \in Ttl, Expire(k, ttl) PROVE KVInv'
  <2>1. CASE map[k] = NoVal
    BY <1>5, <2>1, NoKeyStep DEF Expire
  <2>2. CASE map[k] # NoVal
    <3>1. now + ttl \in Int /\ now + ttl > 0
      BY NewDeadlinePositive
    <3>2. /\ map' = [map EXCEPT ![k] = map[k]] /\ UNCHANGED <<now, saved>>
          /\ deadline' = [deadline EXCEPT ![k] = now + ttl]
          /\ until' = [until EXCEPT ![k] = now + ttl]
      BY <1>0, <1>5, <2>2 DEF Expire
    <3>3. map[k] \in Val \cup {NoVal}
      BY <1>0
    <3> QED BY <2>2, <3>1, <3>2, <3>3, OneKeyStep
  <2> QED BY <2>1, <2>2
<1>6. ASSUME NEW k \in Key, Persist(k) PROVE KVInv'
  <2>0. GetExpiry(k) \in Int
    BY <1>0 DEF GetExpiry
  <2>1. CASE GetExpiry(k) < 0
    <3>1. UNCHANGED <<now, map, deadline, saved, until>>
      BY <1>6, <2>0, <2>1 DEF Persist
    <3> QED BY <3>1, NoKeyStep
  <2>2. CASE ~(GetExpiry(k) < 0)
    <3>1. /\ map' = [map EXCEPT ![k] = map[k]] /\ UNCHANGED <<now, saved>>
          /\ deadline' = [deadline EXCEPT ![k] = NoDeadline]
          /\ until' = [until EXCEPT ![k] = NoDeadline]
      BY <1>0, <1>6, <2>0, <2>2 DEF Persist
    <3>2. map[k] \in Val \cup {NoVal}
      BY <1>0
    <3> QED BY <3>1, <3>2, OneKeyStep
  <2> QED BY <2>1, <2>2
<1>7. ASSUME NEW k \in Key, QueryTtl(k) PROVE KVInv'
  BY <1>7, NoKeyStep DEF QueryTtl
<1>8. ASSUME DbSize PROVE KVInv'
  BY <1>8, NoKeyStep DEF DbSize
<1> QED BY <1>1, <1>3, <1>4, <1>5, <1>6, <1>7, <1>8 DEF Command

\* Every step keeps the invariant.
LEMMA KVInvNext == KVInv /\ [Next]_vars => KVInv'
<1> SUFFICES ASSUME KVInv, [Next]_vars PROVE KVInv'
  OBVIOUS
<1>1. CASE Command
  BY <1>1, CommandStep
<1>2. CASE Tick
  BY <1>2, TickStep
<1>3. CASE Pass
  BY <1>3, KVAssumption DEF Pass, KVInv, TypeOK, NoOrphanDeadline, DeadlinesSane, SavedOnce
<1>4. CASE Save
  BY <1>4, SaveStep
<1>5. CASE Restart
  BY <1>5, RestartStep
<1>6. CASE UNCHANGED vars
  BY <1>6, NoKeyStep DEF vars
<1> QED BY <1>1, <1>2, <1>3, <1>4, <1>5, <1>6 DEF Next

\* The inductive invariant holds throughout.
THEOREM KVInvAlways == Spec => []KVInv
BY KVInvInit, KVInvNext, PTL DEF Spec

\* No sequence of commands, ticks, snapshots and restarts leaves a deadline
\* without its key (kv_engine.cpp:3-27,54-57).
THEOREM NoOrphanDeadlineAlways == Spec => []NoOrphanDeadline
<1>1. KVInv => NoOrphanDeadline
  BY DEF KVInv
<1> QED BY <1>1, KVInvAlways, PTL

-----------------------------------------------------------------------------
\* One step serves nothing late.
LEMMA NotServedLate ==
  ASSUME KVInv, Next, NEW k \in Key, Over(k), map[k] # NoVal
  PROVE  reply' \notin {<<"GET", k, map[k]>>, <<"EXISTS", k, map[k]>>}
<1>1. Lapsed(k)
  BY LapsedIsOver DEF Over
<1>2. ASSUME reply' = <<"none">> PROVE reply' \notin {<<"GET", k, map[k]>>, <<"EXISTS", k, map[k]>>}
  BY <1>2
<1>3. CASE Tick \/ Pass \/ Save \/ Restart
  BY <1>2, <1>3 DEF Tick, Pass, Save, Restart
<1>4. ASSUME NEW j \in Key, NEW cmd \in {"GET", "EXISTS"}, Get(cmd, j)
      PROVE  reply' \notin {<<"GET", k, map[k]>>, <<"EXISTS", k, map[k]>>}
  <2>1. CASE j = k
    <3>1. reply' = <<cmd, k, NoVal>>
      BY <1>1, <1>4, <2>1 DEF Get, Answer
    <3> QED BY <3>1
  <2>2. CASE j # k
    <3>1. \E w : reply' = <<cmd, j, w>>
      BY <1>4 DEF Get, Answer
    <3> QED BY <2>2, <3>1
  <2> QED BY <2>1, <2>2
<1>5. ASSUME NEW c \in {"SET", "DEL", "EXPIRE", "PERSIST", "PTTL", "TTL"}, NEW j, NEW w,
             reply' = <<c, j, w>>
      PROVE  reply' \notin {<<"GET", k, map[k]>>, <<"EXISTS", k, map[k]>>}
  BY <1>5
<1>6. ASSUME DbSize PROVE reply' \notin {<<"GET", k, map[k]>>, <<"EXISTS", k, map[k]>>}
  BY <1>6 DEF DbSize
<1>7. ASSUME NEW j \in Key,
             \/ \E v \in Val, ttl \in Ttl \cup {-1} : Set(j, v, ttl)
             \/ Del(j) \/ Persist(j) \/ QueryTtl(j)
             \/ \E ttl \in Ttl : Expire(j, ttl)
      PROVE  reply' \notin {<<"GET", k, map[k]>>, <<"EXISTS", k, map[k]>>}
  <2>1. \E c \in {"SET", "DEL", "EXPIRE", "PERSIST", "PTTL", "TTL"} :
          \E w : reply' = <<c, j, w>>
    BY <1>7 DEF Set, Del, Persist, QueryTtl, Expire, Answer
  <2> QED BY <1>5, <2>1
<1> QED BY <1>3, <1>4, <1>6, <1>7 DEF Next, Command

\* GET and EXISTS show no value whose lifetime is over, however late tick() is
\* (kv_engine.cpp:12-23).
THEOREM NeverServedLateAlways == Spec => NeverServedLate
<1>1. KVInv /\ [Next]_vars =>
        [\A k \in Key : Over(k) /\ map[k] # NoVal =>
           reply' \notin {<<"GET", k, map[k]>>, <<"EXISTS", k, map[k]>>}]_vars
  BY NotServedLate
<1> QED BY <1>1, KVInvAlways, PTL DEF Spec, NeverServedLate

\* One step removes no key early.
LEMMA NotRemovedEarly ==
  ASSUME KVInv, Next, NEW k \in Key, map[k] # NoVal, map'[k] = NoVal
  PROVE  Over(k) \/ Del(k) \/ Restart
<1>0. map \in [Key -> Val \cup {NoVal}] /\ NoVal \notin Val /\ until = deadline
  BY KVAssumption DEF KVInv, TypeOK
<1>1. CASE Tick
  BY <1>0, <1>1 DEF Tick, Due, Over
<1>2. CASE Pass \/ Save
  BY <1>2 DEF Pass, Save
<1>3. ASSUME NEW j \in Key, NEW cmd \in {"GET", "EXISTS"}, Get(cmd, j) PROVE Over(k)
  <2>1. Lapsed(j) /\ map' = [map EXCEPT ![j] = NoVal]
    BY <1>3 DEF Get, Forget
  <2>2. j = k
    BY <1>0, <2>1
  <2> QED BY <2>1, <2>2, LapsedIsOver DEF Over
<1>4. ASSUME NEW j \in Key, Del(j) PROVE Del(k)
  <2>1. map' = [map EXCEPT ![j] = NoVal]
    BY <1>4 DEF Del, Forget
  <2>2. j = k
    BY <1>0, <2>1
  <2> QED BY <1>4, <2>2
<1>5. ASSUME NEW j \in Key, NEW v \in Val, NEW ttl \in Ttl \cup {-1}, Set(j, v, ttl)
      PROVE  FALSE
  BY <1>0, <1>5 DEF Set
<1>6. ASSUME NEW j \in Key,
             \/ Persist(j) \/ QueryTtl(j)
             \/ \E ttl \in Ttl : Expire(j, ttl)
      PROVE  FALSE
  BY <1>6 DEF Persist, QueryTtl, Expire
<1>7. CASE DbSize
  BY <1>7 DEF DbSize
<1> QED BY <1>1, <1>2, <1>3, <1>4, <1>5, <1>6, <1>7 DEF Next, Command

\* A stored key goes only by DEL, by a restart or when its lifetime is over:
\* no tick() removes a key that was renewed (kv_engine.cpp:3-9,40-44,54-57).
THEOREM NoEarlyDeathAlways == Spec => NoEarlyDeath
<1>1. KVInv /\ [Next]_vars =>
        [\A k \in Key : (map[k] # NoVal /\ map'[k] = NoVal)
                        => Over(k) \/ Del(k) \/ Restart]_vars
  BY NotRemovedEarly
<1> QED BY <1>1, KVInvAlways, PTL DEF Spec, NoEarlyDeath

\* One restart is faithful.
LEMMA RestartExact ==
  ASSUME KVInv, Restart, NEW k \in Key
  PROVE  IF \E e \in saved : e.key = k /\ (e.at # NoDeadline => e.at > now)
         THEN [key |-> k, val |-> map'[k], at |-> deadline'[k]] \in saved
         ELSE map'[k] = NoVal
<1>1. map'[k] = LoadedVal(k) /\ deadline'[k] = LoadedDeadline(k)
  BY DEF Restart
<1>2. ASSUME NEW e \in saved PROVE Loadable(e) <=> (e.at # NoDeadline => e.at > now)
  <2>1. now \in Nat /\ e.at \in Int \cup {NoDeadline}
    BY DEF KVInv, TypeOK, Entry
  <2> QED BY <2>1 DEF Loadable
<1>3. CASE \E e \in saved : e.key = k /\ (e.at # NoDeadline => e.at > now)
  <2>1. PICK e \in saved : e.key = k /\ (e.at # NoDeadline => e.at > now)
    BY <1>3
  <2>2. e = [key |-> k, val |-> LoadedVal(k), at |-> LoadedDeadline(k)]
    BY <1>2, <2>1, LoadedFacts
  <2> QED BY <1>1, <1>3, <2>1, <2>2
<1>4. CASE ~\E e \in saved : e.key = k /\ (e.at # NoDeadline => e.at > now)
  <2>1. ~\E e \in saved : e.key = k /\ Loadable(e)
    BY <1>2, <1>4
  <2> QED BY <1>1, <1>4, <2>1, LoadedFacts
<1> QED BY <1>3, <1>4

\* A restart brings back what is alive with its deadline, and nothing else
\* (rdb.cpp:104-120).
THEOREM RestartFaithfulAlways == Spec => RestartFaithful
<1>1. KVInv /\ [Next]_vars =>
        [Restart => \A k \in Key :
           IF \E e \in saved : e.key = k /\ (e.at # NoDeadline => e.at > now)
           THEN [key |-> k, val |-> map'[k], at |-> deadline'[k]] \in saved
           ELSE map'[k] = NoVal]_vars
  BY RestartExact
<1> QED BY <1>1, KVInvAlways, PTL DEF Spec, RestartFaithful
=============================================================================
