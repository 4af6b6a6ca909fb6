---------------------------- MODULE MCDispatcher ----------------------------
(***************************************************************************)
(* Two node ids and up to two edges: self-loops, parallel edges, edges     *)
(* both ways and ids that only edges or index entries name; two values of  *)
(* an indexed property, so that values move; every command with too few,   *)
(* with enough and with malformed arguments.                               *)
(***************************************************************************)
EXTENDS Dispatcher
=============================================================================
