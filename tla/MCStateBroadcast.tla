-------------------------- MODULE MCStateBroadcast --------------------------
(***************************************************************************)
(* The state broadcast channel for TLC.  With MaxId = 3 a receiver can be  *)
(* several states behind, and sends reach the limit of the ids.            *)
(***************************************************************************)
EXTENDS StateBroadcast
=============================================================================
