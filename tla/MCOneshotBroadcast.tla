------------------------- MODULE MCOneshotBroadcast -------------------------
(***************************************************************************)
(* The oneshot broadcast channel for TLC.                                  *)
(***************************************************************************)
EXTENDS OneshotBroadcast
=============================================================================
