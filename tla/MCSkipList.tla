----------------------------- MODULE MCSkipList -----------------------------
(***************************************************************************)
(* Three members and two scores, so that scores tie and members change     *)
(* places, on three levels, so that levels appear, vanish and skip nodes.  *)
(***************************************************************************)
EXTENDS SkipList

MCBound == {-1, 0, 1, 3}
=============================================================================
