------------------------------ MODULE Oneshot ------------------------------
(***************************************************************************)
(* The oneshot channel (src/channel/oneshot.rs): one value, taken by one   *)
(* receiver.  The local flavour has a close method; the shared one is      *)
(* closed by the drop of its sender or of its receiver, while receive      *)
(* futures, which share the state, may live on.                            *)
(*                                                                         *)
(* A definition marked "a slip" is the code with one plausible mistake.    *)
(***************************************************************************)
EXTENDS ChannelState

VARIABLES
  has_sender,     \* whether the sender, or the local channel, exists
  is_fulfilled,   \* ChannelState
  sent,           \* the value that send accepted
  returned        \* how many receives returned it, by result, where NoValue
                  \* is None; 2: more than one

handleVars == <<is_shared, has_sender, receivers>>
vars == <<handleVars, is_fulfilled, value, sent, returned, waiterVars>>

Init ==
  /\ is_shared \in BOOLEAN
  /\ has_sender = TRUE
  /\ receivers = 1
  /\ is_fulfilled = FALSE
  /\ value = NoValue
  /\ sent = NoValue
  /\ returned = [r \in OptValue |-> 0]
  /\ WaitersInit

-----------------------------------------------------------------------------
(* ChannelState::send, when it succeeds. *)
Send(v) ==
  /\ has_sender
  /\ ~is_fulfilled
  /\ value' = v
  /\ sent' = v
  /\ is_fulfilled' = TRUE
  /\ WakeWaiters
  /\ UNCHANGED <<handleVars, returned>>

(* ChannelState::close. *)
CloseState ==
  /\ is_fulfilled' = TRUE
  /\ IF is_fulfilled THEN UNCHANGED waiterVars ELSE WakeWaiters
  /\ UNCHANGED <<value, sent, returned>>

(* GenericOneshotChannel::close, and the drops of the shared handles. *)
Close == ~is_shared /\ CloseState /\ UNCHANGED handleVars

DropSender ==
  /\ is_shared /\ has_sender
  /\ has_sender' = FALSE
  /\ CloseState
  /\ UNCHANGED <<is_shared, receivers>>

DropReceiver ==
  /\ is_shared /\ receivers > 0
  /\ receivers' = receivers - 1
  /\ CloseState
  /\ UNCHANGED <<is_shared, has_sender>>

(* receive: a future that was not polled yet. *)
Receive(f) ==
  /\ receivers > 0
  /\ Create(f, "Unregistered")
  /\ UNCHANGED <<handleVars, is_fulfilled, value, sent, returned>>

(* The future on slot f resolves to r. *)
Return(f, r) ==
  /\ returned' = [returned EXCEPT ![r] = IF @ = 0 THEN 1 ELSE 2]
  /\ Resolve(f)

(* ChannelState::try_receive on a node that is not registered. *)
KeepValue(f) ==                      \* a slip: the value stays for others
  /\ value # NoValue
  /\ Return(f, value)
  /\ UNCHANGED value

TakeValue(f) ==
  /\ value # NoValue
  /\ Return(f, value)
  /\ value' = NoValue

ReceiveNone(f) ==
  /\ value = NoValue /\ is_fulfilled
  /\ Return(f, NoValue)
  /\ UNCHANGED value

ReceiveWaits(f, w) ==
  /\ value = NoValue /\ ~is_fulfilled
  /\ Register(f, w, "Registered")
  /\ UNCHANGED <<value, returned>>

PollUnregistered(f, w) ==
  /\ state[f] = "Unregistered"
  /\ TakeValue(f) \/ ReceiveNone(f) \/ ReceiveWaits(f, w)
  /\ UNCHANGED <<handleVars, is_fulfilled, sent>>

PollRegistered(f, w) ==
  /\ StayRegistered(f, w)
  /\ UNCHANGED <<handleVars, is_fulfilled, value, sent, returned>>

Poll(f, w) == PollUnregistered(f, w) \/ PollRegistered(f, w)

(* Drop of a receive future. *)
DropReceive(f) ==
  /\ RemoveWaiter(f)
  /\ UNCHANGED <<handleVars, is_fulfilled, value, sent, returned>>

Next ==
  \/ \E v \in Values : Send(v)
  \/ Close \/ DropSender \/ DropReceiver
  \/ \E f \in Futures :
       Receive(f) \/ DropReceive(f) \/ \E w \in Wakers : Poll(f, w)

(* The executor polls a future whose waker was woken. *)
PollWoken(f) == f \in woken /\ \E w \in Wakers : Poll(f, w)

Fairness == \A f \in Futures : WF_vars(PollWoken(f))

SafetySpec == Init /\ [][Next]_vars
Spec == SafetySpec /\ Fairness

-----------------------------------------------------------------------------
(***************************************************************************)
(* The value is neither lost nor doubled: once accepted it is in the       *)
(* channel, or exactly one receive has returned it, however receives race, *)
(* are cancelled, or outlive the handles.                                  *)
(***************************************************************************)
ValueConserved ==
  /\ value \in {NoValue, sent}
  /\ \A v \in Values :
       returned[v] = IF v = sent /\ value = NoValue THEN 1 ELSE 0

(***************************************************************************)
(* Once a value was sent, the channel was closed or a handle was dropped,  *)
(* every receive future that was polled before resolves or is dropped.     *)
(***************************************************************************)
FulfilledResolves ==
  \A f \in Futures : Polled(f) /\ is_fulfilled ~> state[f] = "Gone"
=============================================================================
