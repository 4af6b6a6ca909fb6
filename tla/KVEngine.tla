------------------------------ MODULE KVEngine ------------------------------
(***************************************************************************)
(* The key-value engine (src/src/kv/kv_engine.{hpp,cpp}) behind the        *)
(* commands of Dispatcher::handle_kv: a map and a table of deadlines, here *)
(* in the abstract form that RobinHoodMap and TTLManager implement.        *)
(* Everything runs on the reactor thread, so a command is one step; the    *)
(* clock advances between commands, and so does the reactor's 100 ms timer *)
(* that calls tick().                                                      *)
(*                                                                         *)
(* A key whose deadline has passed stays in the map until tick() or a GET  *)
(* of it comes by.  Snapshots are modelled by the entries they hold: the   *)
(* KV section of RDB::save and RDB::load, for a restart of the process on  *)
(* the same machine, where the steady clock runs on.                       *)
(***************************************************************************)
EXTENDS Integers, FiniteSets

CONSTANTS Key, Val, NoVal, NoDeadline,
          Ttl,          \* ttl_ms arguments, in ms
          Second,       \* 1000 in the code: ms per second
          StartNow,     \* reading of the steady clock at the start
          MaxNow        \* bound on the clock

ASSUME KVAssumption ==
  /\ NoVal \notin Val /\ NoDeadline \notin Int
  /\ Ttl \subseteq Int
  /\ Second \in Nat \ {0}
  /\ StartNow \in Nat /\ MaxNow \in Nat

\* get_expiry answers -1 for "no deadline" and the engine takes every negative
\* answer for that: deadlines before the epoch of the clock are excluded.
ASSUME DeadlinesPositive == \A t \in Ttl : StartNow + t > 0

VARIABLES
  now,        \* now_ms()
  map,        \* map_
  deadline,   \* ttl_
  saved,      \* KV section of the last snapshot
  reply,      \* what the last command answered
  until       \* history: the lifetime clients were promised for a stored key

vars == <<now, map, deadline, saved, reply, until>>

Entry == [key : Key, val : Val, at : Int \cup {NoDeadline}]

None == [k \in Key |-> NoDeadline]

GetExpiry(k) == IF deadline[k] = NoDeadline THEN -1 ELSE deadline[k]

\* The lazy check of get and all_entries.
Lapsed(k) == GetExpiry(k) >= 0 /\ GetExpiry(k) <= now

Init == /\ now = StartNow
        /\ map = [k \in Key |-> NoVal]
        /\ deadline = None
        /\ saved = {}
        /\ reply = <<"none">>
        /\ until = None

Answer(cmd, k, value) == reply' = <<cmd, k, value>>

Forget(k) == /\ map' = [map EXCEPT ![k] = NoVal]
             /\ deadline' = [deadline EXCEPT ![k] = NoDeadline]
             /\ until' = [until EXCEPT ![k] = NoDeadline]

-----------------------------------------------------------------------------
\* Fault: a SET without a lifetime leaves the old deadline in place.
NewDeadlineKeepsOld(k, ttl) == IF ttl > 0 THEN now + ttl ELSE deadline[k]

\* set: only a positive ttl_ms sets a deadline, any other removes it.
NewDeadline(k, ttl) == IF ttl > 0 THEN now + ttl ELSE NoDeadline

Set(k, v, ttl) ==
  /\ map' = [map EXCEPT ![k] = v]
  /\ deadline' = [deadline EXCEPT ![k] = NewDeadline(k, ttl)]
  /\ Answer("SET", k, "OK")
  /\ until' = [until EXCEPT ![k] = IF ttl > 0 THEN now + ttl ELSE NoDeadline]
  /\ UNCHANGED <<now, saved>>

\* Fault: get trusts tick() to have removed what is over.
GetUnchecked(cmd, k) == /\ Answer(cmd, k, map[k])
                        /\ UNCHANGED <<now, map, deadline, saved, until>>

\* GET and EXISTS: get, whose lazy check removes the key it finds lapsed.
Get(cmd, k) ==
  /\ \/ /\ Lapsed(k)
        /\ Forget(k)
        /\ Answer(cmd, k, NoVal)
     \/ /\ ~Lapsed(k)
        /\ Answer(cmd, k, map[k])
        /\ UNCHANGED <<map, deadline, until>>
  /\ UNCHANGED <<now, saved>>

Del(k) == /\ Forget(k)
          /\ Answer("DEL", k, IF map[k] # NoVal THEN 1 ELSE 0)
          /\ UNCHANGED <<now, saved>>

\* Fault: expire does not look whether the key is there.
ExpireAnyKey(k, ttl) == /\ deadline' = [deadline EXCEPT ![k] = now + ttl]
                        /\ Answer("EXPIRE", k, 1)
                        /\ UNCHANGED <<now, map, saved, until>>

Expire(k, ttl) ==
  /\ \/ /\ map[k] = NoVal
        /\ Answer("EXPIRE", k, 0)
        /\ UNCHANGED <<deadline, until>>
     \/ /\ map[k] # NoVal
        /\ deadline' = [deadline EXCEPT ![k] = now + ttl]
        /\ until' = [until EXCEPT ![k] = now + ttl]
        /\ Answer("EXPIRE", k, 1)
  /\ UNCHANGED <<now, map, saved>>

Persist(k) ==
  /\ \/ /\ GetExpiry(k) < 0
        /\ Answer("PERSIST", k, 0)
        /\ UNCHANGED <<deadline, until>>
     \/ /\ GetExpiry(k) >= 0
        /\ deadline' = [deadline EXCEPT ![k] = NoDeadline]
        /\ until' = [until EXCEPT ![k] = NoDeadline]
        /\ Answer("PERSIST", k, 1)
  /\ UNCHANGED <<now, map, saved>>

\* ttl(), in ms.
TtlOf(k) == IF map[k] = NoVal THEN -2
            ELSE IF GetExpiry(k) < 0 THEN -1
            ELSE IF GetExpiry(k) < now THEN 0 ELSE GetExpiry(k) - now

\* TTL rounds up to whole seconds.
InSeconds(ms) == IF ms < 0 THEN ms ELSE (ms + Second - 1) \div Second

QueryTtl(k) == /\ \/ Answer("PTTL", k, TtlOf(k))
                  \/ Answer("TTL", k, InSeconds(TtlOf(k)))
               /\ UNCHANGED <<now, map, deadline, saved, until>>

DbSize == /\ reply' = <<"DBSIZE", Cardinality({k \in Key : map[k] # NoVal})>>
          /\ UNCHANGED <<now, map, deadline, saved, until>>

(***************************************************************************)
(* tick(): evict_expired, then the map entry of every key it returned.     *)
(***************************************************************************)
Due == {k \in Key : deadline[k] # NoDeadline /\ deadline[k] <= now}

\* Fault: the map entries of evicted keys are left behind.
TickDeadlinesOnly ==
  /\ deadline' = [k \in Key |-> IF k \in Due THEN NoDeadline ELSE deadline[k]]
  /\ reply' = <<"none">>
  /\ UNCHANGED <<now, map, saved, until>>

Tick == /\ map' = [k \in Key |-> IF k \in Due THEN NoVal ELSE map[k]]
        /\ deadline' = [k \in Key |-> IF k \in Due THEN NoDeadline ELSE deadline[k]]
        /\ until' = [k \in Key |-> IF k \in Due THEN NoDeadline ELSE until[k]]
        /\ reply' = <<"none">>
        /\ UNCHANGED <<now, saved>>

Pass == /\ now < MaxNow
        /\ now' = now + 1
        /\ reply' = <<"none">>
        /\ UNCHANGED <<map, deadline, saved, until>>

(***************************************************************************)
(* Snapshots.                                                              *)
(***************************************************************************)
\* all_entries: what has lapsed is left out.
AllEntries == {[key |-> k, val |-> map[k], at |-> deadline[k]] :
                 k \in {x \in Key : map[x] # NoVal /\ ~Lapsed(x)}}

Save == /\ saved' = AllEntries
        /\ reply' = <<"none">>
        /\ UNCHANGED <<now, map, deadline, until>>

\* Fault: load skips the "already expired" check, and set(key, val, ttl <= 0)
\* turns an entry that is over into one that lives for ever.
LoadableUnchecked(e) == TRUE

\* load: an entry whose deadline has passed meanwhile is skipped.
Loadable(e) == e.at = NoDeadline \/ e.at - now > 0

LoadedVal(k) == IF \E e \in saved : e.key = k /\ Loadable(e)
                THEN (CHOOSE e \in saved : e.key = k).val ELSE NoVal

LoadedDeadline(k) ==
  IF \E e \in saved : e.key = k /\ Loadable(e)
  THEN LET e == CHOOSE x \in saved : x.key = k
       IN  IF e.at = NoDeadline THEN NoDeadline
           ELSE IF e.at - now > 0 THEN now + (e.at - now) ELSE NoDeadline
  ELSE NoDeadline

\* The process is restarted and loads the snapshot.
Restart == /\ map' = [k \in Key |-> LoadedVal(k)]
           /\ deadline' = [k \in Key |-> LoadedDeadline(k)]
           /\ until' = deadline'
           /\ reply' = <<"none">>
           /\ UNCHANGED <<now, saved>>

Command == \/ \E k \in Key :
                \/ \E v \in Val, ttl \in Ttl \cup {-1} : Set(k, v, ttl)
                \/ \E cmd \in {"GET", "EXISTS"} : Get(cmd, k)
                \/ Del(k)
                \/ \E ttl \in Ttl : Expire(k, ttl)
                \/ Persist(k)
                \/ QueryTtl(k)
           \/ DbSize

Next == Command \/ Tick \/ Pass \/ Save \/ Restart

Spec == Init /\ [][Next]_vars

\* tick() is called by a timer that re-arms itself (server.cpp:151-156).
FairSpec == Spec /\ WF_vars(Tick)
-----------------------------------------------------------------------------
TypeOK == /\ now \in Nat
          /\ map \in [Key -> Val \cup {NoVal}]
          /\ deadline \in [Key -> Int \cup {NoDeadline}]
          /\ saved \in SUBSET Entry
          /\ until \in [Key -> Int \cup {NoDeadline}]

\* A deadline always belongs to a stored key: no path through set, get, del,
\* expire, tick or a restart leaves one behind that could later evict a new
\* value of that key (kv_engine.cpp:3-27,54-57).
NoOrphanDeadline == \A k \in Key : deadline[k] # NoDeadline => map[k] # NoVal

\* The lifetime a client gave the stored key is over.
Over(k) == until[k] # NoDeadline /\ until[k] <= now

\* GET and EXISTS never show a value whose lifetime is over, although the key
\* may still be in the map (kv_engine.cpp:12-23).
NeverServedLate ==
  [][\A k \in Key : Over(k) /\ map[k] # NoVal =>
       reply' \notin {<<"GET", k, map[k]>>, <<"EXISTS", k, map[k]>>}]_vars

\* A stored key disappears only by DEL, at the end of the lifetime its client
\* gave it last, or by a restart: tick() never removes a key that was SET again
\* or made persistent in the meantime (kv_engine.cpp:3-9,40-44,54-57).
NoEarlyDeath ==
  [][\A k \in Key : (map[k] # NoVal /\ map'[k] = NoVal)
                    => Over(k) \/ Del(k) \/ Restart]_vars

\* A restart never brings back what is over, and gives every other saved key
\* its value and exactly the deadline it had (rdb.cpp:104-120).
RestartFaithful ==
  [][Restart => \A k \in Key :
       IF \E e \in saved : e.key = k /\ (e.at # NoDeadline => e.at > now)
       THEN [key |-> k, val |-> map'[k], at |-> deadline'[k]] \in saved
       ELSE map'[k] = NoVal]_vars

\* A key whose lifetime is over leaves the map in the end even if no client
\* ever asks for it, unless it is given a new lifetime.
LapsedKeysGo == \A k \in Key : (Over(k) /\ map[k] # NoVal) ~>
                               ~(Over(k) /\ map[k] # NoVal)
=============================================================================
