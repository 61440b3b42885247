------------------------- MODULE MCManualResetEvent -------------------------
(***************************************************************************)
(* The event for TLC.  Three slots give a queue with a first, a middle and *)
(* a last node to drop.                                                    *)
(***************************************************************************)
EXTENDS ManualResetEvent
=============================================================================
