---------------------------- MODULE MCEventLoop ----------------------------
(***************************************************************************)
(* Two workers, two offloaded commands and a snapshot: a worker may be     *)
(* about to wait, waiting or busy whenever a task, a post or the end of    *)
(* the loop comes.                                                         *)
(***************************************************************************)
EXTENDS EventLoop

MCPeriod == [tick |-> 1, snap |-> 2]
=============================================================================
