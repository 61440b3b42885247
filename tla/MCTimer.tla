------------------------------ MODULE MCTimer ------------------------------
(***************************************************************************)
(* The timer service for TLC, with delays of half a millisecond, of one    *)
(* and a half, and above the range of the clock.                           *)
(***************************************************************************)
EXTENDS Timer

MCDelays == {1, 3, NanosPerMilli * (MaxTime + 1) + 1}
=============================================================================
