-------------------------- MODULE OneshotBroadcast --------------------------
(***************************************************************************)
(* The oneshot broadcast channel (src/channel/oneshot_broadcast.rs): one   *)
(* value, which every receiver gets a clone of.  Its code repeats that of  *)
(* the oneshot channel, but for the receive, which leaves the value where  *)
(* it is, and the receiver of the shared flavour, which can be cloned.     *)
(*                                                                         *)
(* A definition marked "a slip" is the code with one plausible mistake.    *)
(***************************************************************************)
EXTENDS Oneshot

CONSTANT MaxReceivers    \* bound on the receiver handles that exist at once

ASSUME BroadcastAssumption == MaxReceivers \in Nat \ {0}

-----------------------------------------------------------------------------
(* ChannelState::send, when it succeeds. *)
BroadcastSendAgain(v) ==             \* a slip: a second value is accepted
  /\ has_sender
  /\ value' = v
  /\ sent' = v
  /\ is_fulfilled' = TRUE
  /\ WakeWaiters
  /\ UNCHANGED <<handleVars, returned>>

BroadcastSend(v) == Send(v)

(* ChannelState::close. *)
BroadcastCloseQuietly ==                                    \* a slip
  /\ is_fulfilled' = TRUE
  /\ UNCHANGED <<value, sent, returned, waiterVars>>

BroadcastCloseState == CloseState

(* GenericOneshotBroadcastChannel::close, and the shared handles. *)
BroadcastClose == ~is_shared /\ BroadcastCloseState /\ UNCHANGED handleVars

BroadcastDropSender ==
  /\ is_shared /\ has_sender
  /\ has_sender' = FALSE
  /\ BroadcastCloseState
  /\ UNCHANGED <<is_shared, receivers>>

BroadcastCloneReceiver ==
  /\ is_shared /\ receivers \in 1..(MaxReceivers - 1)
  /\ receivers' = receivers + 1
  /\ UNCHANGED <<is_shared, has_sender, is_fulfilled, value, sent, returned,
                 waiterVars>>

(* The drop of ANY receiver handle closes the channel. *)
BroadcastDropReceiver ==
  /\ is_shared /\ receivers > 0
  /\ receivers' = receivers - 1
  /\ BroadcastCloseState
  /\ UNCHANGED <<is_shared, has_sender>>

(* receive: a future that was not polled yet. *)
BroadcastReceive(f) == Receive(f)

(* ChannelState::try_receive on a node that is not registered. *)
CloneValue(f) ==
  /\ value # NoValue
  /\ Return(f, value)
  /\ UNCHANGED value

BroadcastPollUnregistered(f, w) ==
  /\ state[f] = "Unregistered"
  /\ CloneValue(f) \/ ReceiveNone(f) \/ ReceiveWaits(f, w)
  /\ UNCHANGED <<handleVars, is_fulfilled, sent>>

BroadcastPollRegistered(f, w) == PollRegistered(f, w)

BroadcastPoll(f, w) ==
  BroadcastPollUnregistered(f, w) \/ BroadcastPollRegistered(f, w)

(* Drop of a receive future. *)
BroadcastDropReceive(f) == DropReceive(f)

BroadcastNext ==
  \/ \E v \in Values : BroadcastSend(v)
  \/ BroadcastClose \/ BroadcastDropSender
  \/ BroadcastCloneReceiver \/ BroadcastDropReceiver
  \/ \E f \in Futures :
       \/ BroadcastReceive(f) \/ BroadcastDropReceive(f)
       \/ \E w \in Wakers : BroadcastPoll(f, w)

(* The executor polls a future whose waker was woken. *)
BroadcastPollWoken(f) == f \in woken /\ \E w \in Wakers : BroadcastPoll(f, w)

BroadcastSpec ==
  /\ Init /\ [][BroadcastNext]_vars
  /\ \A f \in Futures : WF_vars(BroadcastPollWoken(f))

-----------------------------------------------------------------------------
(***************************************************************************)
(* Everybody learns the same: all receives, early and late, return one     *)
(* value, or all of them return None.                                      *)
(***************************************************************************)
EverybodyAgrees ==
  \A r1, r2 \in OptValue : returned[r1] > 0 /\ returned[r2] > 0 => r1 = r2

(***************************************************************************)
(* "As soon es either the senders or all receivers is closed, the channel  *)
(* itself will be closed": a shared channel without a value is closed only *)
(* when one side is gone.  It does not hold: the drop of one receiver      *)
(* closes it for the others.                                               *)
(***************************************************************************)
ClosedWhenAbandoned ==
  is_shared /\ is_fulfilled /\ value = NoValue => ~has_sender \/ receivers = 0
=============================================================================
