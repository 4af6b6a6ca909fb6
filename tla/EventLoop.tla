----------------------------- MODULE EventLoop -----------------------------
(***************************************************************************)
(* The event loop (src/src/net/reactor.hpp) with its timers and posted     *)
(* callbacks, and the thread pool it hands work to, as Server wires them   *)
(* (src/src/net/server.cpp): the tick timer calls kv_.tick(), the snapshot *)
(* timer submits persistence_.save() to the pool, both re-arm themselves;  *)
(* an offloaded command runs in the pool and posts its reply back.  That   *)
(* last path is written (server.cpp:100-113) but `heavy` is false at this  *)
(* commit; it is modelled because it is what post() and its eventfd exist  *)
(* for, and Cmd = {} turns it off.                                         *)
(*                                                                         *)
(* Timers are countdowns to their deadlines.  Sockets are one source of    *)
(* events; Connection is about what their handlers do.  Saving is one step *)
(* here; Persistence is about its steps.                                   *)
(***************************************************************************)
EXTENDS ThreadPool

CONSTANTS Cmd,        \* commands that are offloaded
          Period,     \* delay of the "tick" and of the "snap" timer
          MaxSaves    \* bound on the snapshots submitted

Timer == {"tick", "snap"}

\* A period of zero or less would keep fire_timers in its loop.
ASSUME EventLoopAssumption == /\ Period \in [Timer -> Nat \ {0}]
                              /\ MaxSaves \in Nat

VARIABLES
  lpc,          \* the loop: "wait", "fire", "events", "swap", "run", "ended";
                \* then the destructor: "unsaved", "stopping", "joined"
  notify,       \* the loop's thread has submitted and not notified yet
  left,         \* per timer: time until it is due
  due,          \* the timers fire_timers has found due and not yet called
  socket, efd,  \* whether a socket, the eventfd, is ready
  batch,        \* events of this turn that are not handled yet
  posted,       \* posted_
  pending,      \* the callbacks swapped out of it
  poststep,     \* per worker: how far its call of post() is
  running,      \* running_
  submitted,    \* history: commands and numbers of the saves handed to the pool
  finished      \* history: commands answered and saves made

loop == <<lpc, notify, left, due, socket, efd, batch, posted, pending, running, submitted>>
vars == <<pool, loop, poststep, finished>>

Init == /\ PoolInit
        /\ lpc = "wait" /\ notify = FALSE
        /\ left = Period /\ due = {}
        /\ socket = FALSE /\ efd = FALSE /\ batch = {}
        /\ posted = <<>> /\ pending = <<>>
        /\ poststep = [w \in Worker |-> 0]
        /\ running = TRUE
        /\ submitted = {} /\ finished = {}

-----------------------------------------------------------------------------
Elapse == /\ \E t \in Timer : left[t] > 0
          /\ left' = [t \in Timer |-> IF left[t] > 0 THEN left[t] - 1 ELSE 0]
          /\ UNCHANGED <<pool, lpc, notify, due, socket, efd, batch, posted, pending,
                         poststep, running, submitted, finished>>

SocketReady == /\ ~socket /\ socket' = TRUE
               /\ UNCHANGED <<pool, lpc, notify, left, due, efd, batch, posted, pending,
                              poststep, running, submitted, finished>>

(***************************************************************************)
(* The thread of the loop.                                                 *)
(***************************************************************************)
\* epoll_wait: the timeout ends when the earliest timer is due.
Ready == (IF socket THEN {"socket"} ELSE {}) \cup (IF efd THEN {"efd"} ELSE {})

\* Fault: timers are looked at only when there was nothing else to do.
DueWhenQuiet == {t \in Timer : left[t] = 0 /\ Ready = {}}
Due == {t \in Timer : left[t] = 0}

EpollWait == /\ lpc = "wait"
             /\ Ready # {} \/ \E t \in Timer : left[t] = 0
             /\ batch' = Ready /\ due' = Due
             /\ lpc' = "fire"
             /\ UNCHANGED <<pool, notify, left, socket, efd, posted, pending, poststep,
                            running, submitted, finished>>

Saves == {n \in 1 .. MaxSaves : n \in submitted}

\* One callback of fire_timers, which re-arms its timer.
Fire(t) ==
  /\ lpc = "fire" /\ ~notify /\ t \in due
  /\ due' = due \ {t}
  /\ left' = [left EXCEPT ![t] = Period[t]]
  /\ IF t = "snap" /\ Cardinality(Saves) < MaxSaves
     THEN LET n == Cardinality(Saves) + 1 IN
          Submit(n) /\ notify' = TRUE /\ submitted' = submitted \cup {n}
     ELSE UNCHANGED <<pool, notify, submitted>>
  /\ UNCHANGED <<lpc, socket, efd, batch, posted, pending, poststep, running, finished>>

\* The end of submit().
Notify == /\ notify /\ notify' = FALSE
          /\ NotifyOne
          /\ UNCHANGED <<lpc, left, due, socket, efd, batch, posted, pending, poststep,
                         running, submitted, finished>>

Fired == /\ lpc = "fire" /\ ~notify /\ due = {}
         /\ lpc' = "events"
         /\ UNCHANGED <<pool, notify, left, due, socket, efd, batch, posted, pending,
                        poststep, running, submitted, finished>>

\* A socket's handler; it may find a command to offload.
Handle ==
  /\ lpc = "events" /\ ~notify /\ "socket" \in batch
  /\ batch' = batch \ {"socket"} /\ socket' = FALSE
  /\ \/ UNCHANGED <<pool, notify, submitted>>
     \/ \E c \in Cmd \ submitted :
          Submit(c) /\ notify' = TRUE /\ submitted' = submitted \cup {c}
  /\ UNCHANGED <<lpc, left, due, efd, posted, pending, poststep, running, finished>>

\* The eventfd: read it, then swap posted_ out, then call what was in it.
Drain == /\ lpc = "events" /\ ~notify /\ "efd" \in batch
         /\ batch' = batch \ {"efd"} /\ efd' = FALSE
         /\ lpc' = "swap"
         /\ UNCHANGED <<pool, notify, left, due, socket, posted, pending, poststep,
                        running, submitted, finished>>

Swap == /\ lpc = "swap"
        /\ pending' = posted /\ posted' = <<>>
        /\ lpc' = "run"
        /\ UNCHANGED <<pool, notify, left, due, socket, efd, batch, poststep, running,
                       submitted, finished>>

RunPosted == /\ lpc = "run"
             /\ IF pending = <<>> THEN lpc' = "events" /\ UNCHANGED <<pending, finished>>
                ELSE /\ finished' = finished \cup {Head(pending)}
                     /\ pending' = Tail(pending)
                     /\ UNCHANGED lpc
             /\ UNCHANGED <<pool, notify, left, due, socket, efd, batch, posted, poststep,
                            running, submitted>>

\* The end of poll(), and of run() once stop() was called by a callback.  At this
\* commit no callback calls it: what follows holds of the classes.
EndTurn == /\ lpc = "events" /\ ~notify /\ batch = {}
           /\ lpc' = IF running THEN "wait" ELSE "ended"
           /\ UNCHANGED <<pool, notify, left, due, socket, efd, batch, posted, pending,
                          poststep, running, submitted, finished>>

Stop == /\ lpc = "events" /\ running /\ running' = FALSE
        /\ UNCHANGED <<pool, lpc, notify, left, due, socket, efd, batch, posted, pending,
                       poststep, submitted, finished>>

\* The server goes away once run() has returned: members in the reverse order of
\* their declaration, so persistence_ before the pool that may have saves to run.
Destroy == /\ \/ lpc = "ended" /\ lpc' = "unsaved" /\ UNCHANGED pool
              \/ lpc = "unsaved" /\ StopPool /\ lpc' = "stopping"
              \/ lpc = "stopping" /\ NotifyAll /\ lpc' = "joined"
           /\ UNCHANGED <<notify, left, due, socket, efd, batch, posted, pending, poststep,
                          running, submitted, finished>>

LoopStep == \/ EpollWait \/ (\E t \in Timer : Fire(t)) \/ Fired \/ Notify
            \/ Handle \/ Drain \/ Swap \/ RunPosted \/ EndTurn \/ Destroy

(***************************************************************************)
(* The workers: a save, or a command whose reply is posted.                *)
(***************************************************************************)
\* Fault: the loop is woken before there is anything for it.
PostStepsReversed == <<"wake", "push">>
PostSteps == <<"push", "wake">>

PersistenceGone == lpc \in {"unsaved", "stopping", "joined"}

\* On a Persistence that is gone the save reads the path of a destroyed string:
\* it may still be made, or go nowhere.
RunSave(w) == /\ wpc[w] = "run" /\ task[w] \notin Cmd
              /\ \/ finished' = finished \cup {task[w]}
                 \/ PersistenceGone /\ UNCHANGED finished
              /\ EndTask(w)
              /\ UNCHANGED <<loop, poststep>>

Post(w) ==
  /\ wpc[w] = "run" /\ task[w] \in Cmd
  /\ LET k == poststep[w] + 1 IN
     /\ IF PostSteps[k] = "push" THEN posted' = Append(posted, task[w]) /\ UNCHANGED efd
                                 ELSE efd' = TRUE /\ UNCHANGED posted
     /\ IF k = 2 THEN poststep' = [poststep EXCEPT ![w] = 0] /\ EndTask(w)
                 ELSE poststep' = [poststep EXCEPT ![w] = 1] /\ UNCHANGED pool
  /\ UNCHANGED <<lpc, notify, left, due, socket, batch, pending, running, submitted, finished>>

Work(w) == Acquire(w) /\ UNCHANGED <<loop, poststep, finished>>

WorkerStep(w) == Work(w) \/ RunSave(w) \/ Post(w)

SpuriousWakeup(w) == Spurious(w) /\ UNCHANGED <<loop, poststep, finished>>

\* The process has come to its end.
Over == lpc = "joined" /\ PoolGone /\ UNCHANGED vars

Next == \/ Elapse \/ SocketReady \/ Stop
        \/ LoopStep
        \/ \E w \in Worker : WorkerStep(w) \/ SpuriousWakeup(w)
        \/ Over

\* Threads are scheduled and time passes; nobody promises events on sockets,
\* spurious wakeups or a call of stop().
Spec == /\ Init /\ [][Next]_vars
        /\ WF_vars(Elapse) /\ WF_vars(LoopStep)
        /\ \A w \in Worker : WF_vars(WorkerStep(w))
-----------------------------------------------------------------------------
Ended == lpc \in {"ended", "unsaved", "stopping", "joined"}

\* A snapshot the timer has handed to the pool is made as long as the server
\* lives: a worker about to wait, waiting or busy gets to it
\* (server.cpp:32, thread_pool.hpp:35-64).
SavesMade == \A n \in 1 .. MaxSaves : n \in submitted ~> (n \in finished \/ Ended)

\* "Post a callback to run on the event loop thread" (reactor.hpp:106): the
\* reply of an offloaded command gets back to the loop while it runs; no wakeup
\* is lost between push, write, read and swap.
RepliesPosted == \A c \in Cmd : c \in submitted ~> (c \in finished \/ Ended)

\* A due timer is served, however busy the sockets are, and armed again.
TimersGoOn == \A t \in Timer : left[t] = 0 ~> (left[t] > 0 \/ Ended)

\* The destructor gets to the end: every worker leaves, none with the queue
\* unfinished and none waiting for ever.
PoolEnds == stop ~> (PoolGone /\ queue = <<>>)
=============================================================================
