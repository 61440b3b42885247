------------------------------ MODULE MCMutex ------------------------------
(***************************************************************************)
(* The mutex for TLC.  Four slots give a holder, a notified waiter and     *)
(* two waiters behind it; two wakers let a future be polled again with a   *)
(* different one.                                                          *)
(***************************************************************************)
EXTENDS Mutex
=============================================================================
