----------------------------- MODULE ThreadPool -----------------------------
(***************************************************************************)
(* The thread pool (src/src/thread/thread_pool.hpp): a queue of tasks      *)
(* under a mutex, and a condition variable on which idle workers wait.     *)
(* What happens under the mutex is one step; notifications are sent after  *)
(* it has been released and are steps of their own.  What a task does is   *)
(* up to the module that extends this one.                                 *)
(***************************************************************************)
EXTENDS Integers, Sequences, FiniteSets

CONSTANTS Worker, NoTask

ASSUME PoolAssumption == IsFiniteSet(Worker) /\ Worker # {}   \* "need at least 1 thread"

VARIABLES queue,      \* queue_
          stop,       \* stop_
          wpc,        \* per worker: "lock", "wait", "run" or "gone"
          task        \* per worker: the task it runs

pool == <<queue, stop, wpc, task>>

PoolInit == /\ queue = <<>> /\ stop = FALSE
            /\ wpc = [w \in Worker |-> "lock"]
            /\ task = [w \in Worker |-> NoTask]

\* submit(): the part under the mutex.
Submit(t) == /\ ~stop
             /\ queue' = Append(queue, t)
             /\ UNCHANGED <<stop, wpc, task>>

Waiting == {w \in Worker : wpc[w] = "wait"}

Wake(S) == /\ wpc' = [w \in Worker |-> IF w \in S THEN "lock" ELSE wpc[w]]
           /\ UNCHANGED <<queue, stop, task>>

\* Fault: nobody is told of the task.
NotifyNobody == UNCHANGED pool
NotifyOne == IF Waiting = {} THEN UNCHANGED pool ELSE \E w \in Waiting : Wake({w})

\* Fault: the workers are not told to stop.
MayProceedOnTask == queue # <<>>
MayProceed == stop \/ queue # <<>>
Leaves == stop /\ queue = <<>>

\* A worker that comes to the mutex, or is woken and has it back: it takes a
\* task, leaves, or waits.
Acquire(w) ==
  /\ wpc[w] = "lock" /\ UNCHANGED stop
  /\ IF ~MayProceed THEN wpc' = [wpc EXCEPT ![w] = "wait"] /\ UNCHANGED <<queue, task>>
     ELSE IF Leaves THEN wpc' = [wpc EXCEPT ![w] = "gone"] /\ UNCHANGED <<queue, task>>
     ELSE /\ wpc' = [wpc EXCEPT ![w] = "run"]
          /\ task' = [task EXCEPT ![w] = Head(queue)]
          /\ queue' = Tail(queue)

\* A wait may end without a notification.
Spurious(w) == w \in Waiting /\ Wake({w})

EndTask(w) == /\ wpc' = [wpc EXCEPT ![w] = "lock"]
              /\ task' = [task EXCEPT ![w] = NoTask]
              /\ UNCHANGED <<queue, stop>>

\* The destructor: first under the mutex, then to all waiting workers; joining
\* them is waiting until all are gone.
StopPool == ~stop /\ stop' = TRUE /\ UNCHANGED <<queue, wpc, task>>

NotifyAll == Wake(Waiting)

PoolGone == \A w \in Worker : wpc[w] = "gone"
=============================================================================
