----------------------------- MODULE MCOneshot -----------------------------
(***************************************************************************)
(* The oneshot channel for TLC.  Three slots give two receivers that race  *)
(* for the value and one that is cancelled between them.                   *)
(***************************************************************************)
EXTENDS Oneshot
=============================================================================
