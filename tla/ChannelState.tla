---------------------------- MODULE ChannelState ----------------------------
(***************************************************************************)
(* What the oneshot channel, the oneshot broadcast channel and the state   *)
(* broadcast channel have in common: a ChannelState with at most one       *)
(* value, whose receivers wait in one queue and are all woken by a send    *)
(* and by the close.                                                       *)
(*                                                                         *)
(* A definition marked "a slip" is the code with one plausible mistake.    *)
(***************************************************************************)
EXTENDS Waiters

CONSTANTS Values, NoValue

ASSUME ChannelStateAssumption == NoValue \notin Values

OptValue == Values \cup {NoValue}

VARIABLES
  is_shared,   \* the local or the shared flavour; fixed
  receivers,   \* how many receiver handles exist; 1 for a local channel
  value        \* ChannelState

(* wake_waiters, and the same loop in the send of the state broadcast. *)
WakeNobody == UNCHANGED waiterVars                          \* a slip
WakeWaiters == Drain("Unregistered")
=============================================================================
