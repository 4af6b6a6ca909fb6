--------------------------- MODULE MCPersistence ---------------------------
(***************************************************************************)
(* The automatic snapshot and the background saves, each on their own, on  *)
(* a disk that may fill up: two children, so that a second bgsave may come *)
(* at any point of the first.                                              *)
(***************************************************************************)
EXTENDS Persistence
=============================================================================
