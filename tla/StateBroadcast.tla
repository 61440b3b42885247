--------------------------- MODULE StateBroadcast ---------------------------
(***************************************************************************)
(* The state broadcast channel (src/channel/state_broadcast.rs): it keeps  *)
(* the latest state and its id, and a receiver asks for a state newer than *)
(* the one it knows.  Slow receivers skip states.                          *)
(*                                                                         *)
(* The handles of the shared flavour are counted in atomics outside of the *)
(* raw lock: the drop that brings a count to zero closes the channel in a  *)
(* second step.                                                            *)
(*                                                                         *)
(* A definition marked "a slip" is the code with one plausible mistake.    *)
(***************************************************************************)
EXTENDS ChannelState

CONSTANTS
  MaxId,        \* u64::MAX
  MaxHandles    \* bound on the handles of a side that exist at once

ASSUME StateAssumption == MaxId \in Nat \ {0} /\ MaxHandles \in Nat \ {0}

VARIABLES
  senders,      \* SharedState: sender handles; 1 for the local channel
  closing,      \* the sides whose last drop has yet to call close
  is_closed,    \* ChannelState
  state_id,     \* ChannelState
  wanted,       \* state_id of the slot's wait node
  states,       \* the values that send accepted, in order
  learned,      \* the ids that a program can pass to receive
  received      \* the latest successful receive: id asked for, id, value

stateHandleVars == <<is_shared, senders, receivers, closing>>
historyVars == <<learned, received>>
stateVars == <<stateHandleVars, is_closed, state_id, value, wanted, states,
               historyVars, waiterVars>>

StateInit ==
  /\ is_shared \in BOOLEAN
  /\ senders = 1
  /\ receivers = 1
  /\ closing = {}
  /\ is_closed = FALSE
  /\ state_id = 0
  /\ value = NoValue
  /\ wanted = [f \in Futures |-> 0]
  /\ states = << >>
  /\ learned = {0}
  /\ received = [after |-> 0, id |-> 0, value |-> NoValue]
  /\ WaitersInit

-----------------------------------------------------------------------------
(* ChannelState::send, when it succeeds. *)
StateSendWraps(v) ==                 \* a slip: the last id is not refused
  /\ senders > 0
  /\ ~is_closed
  /\ value' = v
  /\ state_id' = (state_id + 1) % (MaxId + 1)
  /\ states' = Append(states, v)
  /\ WakeWaiters
  /\ UNCHANGED <<stateHandleVars, is_closed, wanted, historyVars>>

StateSendQuietly(v) ==               \* a slip: nobody is woken
  /\ senders > 0
  /\ ~is_closed /\ state_id # MaxId
  /\ value' = v
  /\ state_id' = (state_id + 1) % (MaxId + 1)
  /\ states' = Append(states, v)
  /\ UNCHANGED <<stateHandleVars, is_closed, wanted, historyVars, waiterVars>>

StateSend(v) ==
  /\ senders > 0
  /\ ~is_closed /\ state_id # MaxId
  /\ value' = v
  /\ state_id' = (state_id + 1) % (MaxId + 1)
  /\ states' = Append(states, v)
  /\ WakeWaiters
  /\ UNCHANGED <<stateHandleVars, is_closed, wanted, historyVars>>

(* ChannelState::close. *)
StateCloseState ==
  /\ is_closed' = TRUE
  /\ IF is_closed THEN UNCHANGED waiterVars ELSE WakeWaiters
  /\ UNCHANGED <<state_id, value, wanted, states, historyVars>>

(* GenericStateBroadcastChannel::close. *)
StateClose == ~is_shared /\ StateCloseState /\ UNCHANGED stateHandleVars

(* Clone and drop of the shared handles. *)
StateCloneSender ==
  /\ is_shared /\ senders \in 1..(MaxHandles - 1)
  /\ senders' = senders + 1
  /\ UNCHANGED <<is_shared, receivers, closing, is_closed, state_id, value,
                 wanted, states, historyVars, waiterVars>>

StateCloneReceiver ==
  /\ is_shared /\ receivers \in 1..(MaxHandles - 1)
  /\ receivers' = receivers + 1
  /\ UNCHANGED <<is_shared, senders, closing, is_closed, state_id, value,
                 wanted, states, historyVars, waiterVars>>

StateDropSenderOffByOne ==      \* a slip: the new count is compared to 1
  /\ is_shared /\ senders > 0
  /\ senders' = senders - 1
  /\ closing' = IF senders' = 1 THEN closing \cup {"senders"} ELSE closing
  /\ UNCHANGED <<is_shared, receivers, is_closed, state_id, value, wanted,
                 states, historyVars, waiterVars>>

StateDropSender ==
  /\ is_shared /\ senders > 0
  /\ senders' = senders - 1
  /\ closing' = IF senders = 1 THEN closing \cup {"senders"} ELSE closing
  /\ UNCHANGED <<is_shared, receivers, is_closed, state_id, value, wanted,
                 states, historyVars, waiterVars>>

StateDropReceiver ==
  /\ is_shared /\ receivers > 0
  /\ receivers' = receivers - 1
  /\ closing' = IF receivers = 1 THEN closing \cup {"receivers"} ELSE closing
  /\ UNCHANGED <<is_shared, senders, is_closed, state_id, value, wanted,
                 states, historyVars, waiterVars>>

StateFinishDrop(side) ==
  /\ side \in closing
  /\ closing' = closing \ {side}
  /\ StateCloseState
  /\ UNCHANGED <<is_shared, senders, receivers>>

(* Whether the channel has a state newer than id. *)
SameOrNewer(id) == value # NoValue /\ id <= state_id        \* a slip
HasNewer(id) == value # NoValue /\ id < state_id

Deliver(id) ==
  /\ received' = [after |-> id, id |-> state_id, value |-> value]
  /\ learned' = learned \cup {state_id}

(* ChannelState::try_receive, when it succeeds. *)
StateTryReceive(id) ==
  /\ receivers > 0
  /\ HasNewer(id)
  /\ Deliver(id)
  /\ UNCHANGED <<stateHandleVars, is_closed, state_id, value, wanted, states,
                 waiterVars>>

(* receive: a future that was not polled yet. *)
StateReceive(f, id) ==
  /\ receivers > 0
  /\ Create(f, "Unregistered")
  /\ wanted' = [wanted EXCEPT ![f] = id]
  /\ UNCHANGED <<stateHandleVars, is_closed, state_id, value, states,
                 historyVars>>

(* ChannelState::receive_or_register on a node that is not registered. *)
ReceiveState(f) ==
  /\ HasNewer(wanted[f])
  /\ Deliver(wanted[f])
  /\ Resolve(f)

StateReceiveNone(f) ==
  /\ ~HasNewer(wanted[f]) /\ is_closed
  /\ Resolve(f)
  /\ UNCHANGED historyVars

StateReceiveWaits(f, w) ==
  /\ ~HasNewer(wanted[f]) /\ ~is_closed
  /\ Register(f, w, "Registered")
  /\ UNCHANGED historyVars

StatePollUnregistered(f, w) ==
  /\ state[f] = "Unregistered"
  /\ ReceiveState(f) \/ StateReceiveNone(f) \/ StateReceiveWaits(f, w)
  /\ UNCHANGED <<stateHandleVars, is_closed, state_id, value, wanted, states>>

StatePollRegistered(f, w) ==
  /\ StayRegistered(f, w)
  /\ UNCHANGED <<stateHandleVars, is_closed, state_id, value, wanted, states,
                 historyVars>>

StatePoll(f, w) == StatePollUnregistered(f, w) \/ StatePollRegistered(f, w)

(* Drop of a receive future. *)
StateDropReceive(f) ==
  /\ RemoveWaiter(f)
  /\ UNCHANGED <<stateHandleVars, is_closed, state_id, value, wanted, states,
                 historyVars>>

StateNext ==
  \/ \E v \in Values : StateSend(v)
  \/ StateClose
  \/ StateCloneSender \/ StateCloneReceiver
  \/ StateDropSender \/ StateDropReceiver
  \/ \E side \in {"senders", "receivers"} : StateFinishDrop(side)
  \/ \E id \in learned : StateTryReceive(id)
  \/ \E f \in Futures :
       \/ \E id \in learned : StateReceive(f, id)
       \/ StateDropReceive(f)
       \/ \E w \in Wakers : StatePoll(f, w)

(***************************************************************************)
(* A drop that has begun finishes, and the executor polls a future whose   *)
(* waker was woken.                                                        *)
(***************************************************************************)
StatePollWoken(f) == f \in woken /\ \E w \in Wakers : StatePoll(f, w)

StateFairness ==
  /\ \A side \in {"senders", "receivers"} : WF_stateVars(StateFinishDrop(side))
  /\ \A f \in Futures : WF_stateVars(StatePollWoken(f))

StateSafetySpec == StateInit /\ [][StateNext]_stateVars
StateSpec == StateSafetySpec /\ StateFairness

-----------------------------------------------------------------------------
(***************************************************************************)
(* The id counts the states that were sent and never wraps, so ids order   *)
(* states by age; and the channel holds the latest one.                    *)
(***************************************************************************)
IdsOrderStates ==
  /\ state_id = Len(states)
  /\ value = IF states = << >> THEN NoValue ELSE states[Len(states)]

(***************************************************************************)
(* A receive returns a state newer than the one asked for, and the id it   *)
(* returns is that of the state it returns, however sends race with the    *)
(* wake-up and the next poll.                                              *)
(***************************************************************************)
ReceivedIsNewer ==
  received.value # NoValue =>
    /\ received.after < received.id
    /\ received.id \in 1..Len(states)
    /\ received.value = states[received.id]

(***************************************************************************)
(* What receive_or_register relies on when it does not look at the channel *)
(* for a registered node: nobody sleeps beside a state that would satisfy  *)
(* it or at a closed channel.                                              *)
(***************************************************************************)
WaitingMeansUpToDate ==
  /\ QueueHoldsWaiters
  /\ \A f \in Futures :
       state[f] = "Registered" => ~is_closed /\ ~HasNewer(wanted[f])

(***************************************************************************)
(* A receive future that was polled resolves or is dropped once the        *)
(* channel is closed or all senders, or all receivers, are gone.           *)
(***************************************************************************)
AbandonedResolves ==
  \A f \in Futures :
    Polled(f) /\ (is_closed \/ senders = 0 \/ receivers = 0)
      ~> state[f] = "Gone"
=============================================================================
