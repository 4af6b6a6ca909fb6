---------------------------- MODULE MCConnection ----------------------------
(* Commands that arrive in halves, replies larger than the send buffer.    *)
EXTENDS Connection
=============================================================================
