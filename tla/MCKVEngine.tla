----------------------------- MODULE MCKVEngine -----------------------------
(***************************************************************************)
(* Two keys and a clock of four readings: long enough for a key to lapse,  *)
(* to be saved, and to lapse between the snapshot and the restart.         *)
(***************************************************************************)
EXTENDS KVEngine

\* A lifetime that is over at once, and two that end at different times.
MCTtl == {-1, 1, 2}
=============================================================================
