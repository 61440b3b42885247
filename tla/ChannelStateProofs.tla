------------------------- MODULE ChannelStateProofs -------------------------
(***************************************************************************)
(* The safety properties of the oneshot channel, the oneshot broadcast     *)
(* channel and the state broadcast channel, for any set of futures, wakers *)
(* and values, any number of handles and any largest id.                   *)
(***************************************************************************)
EXTENDS OneshotBroadcast, StateBroadcast, WaitersProofs

(* What a send or the close leaves of the futures that waited. *)
LEMMA WakeWaitersInv ==
  ASSUME WaitersInv, WakeWaiters
  PROVE  /\ WaitersInv' /\ IsEmpty(waiters')
         /\ \A f \in Futures : state'[f] \notin InQueue
<1>1. "Unregistered" \in PollState \ InQueue /\ "Unregistered" # "Gone"
  BY DEF PollState, InQueue
<1>2. WaitersInv' /\ IsEmpty(waiters')
  BY <1>1, DrainInv DEF WakeWaiters
<1>3. \A f \in Futures : state'[f] \notin InQueue
  <2>1. Nodes(waiters') = {}
    BY <1>2, EmptyNodes DEF WaitersInv, WaitersTypeOK
  <2> QED
    BY <1>2, <2>1 DEF WaitersInv, QueueHoldsWaiters
<1> QED
  BY <1>2, <1>3

(* A receive future is created. *)
LEMMA CreateReceiveInv ==
  ASSUME WaitersInv, NEW f \in Futures, Create(f, "Unregistered")
  PROVE  WaitersInv'
<1>1. "Unregistered" \in PollState \ InQueue /\ "Unregistered" # "Gone"
  BY DEF PollState, InQueue
<1> QED
  BY <1>1, CreateInv

-----------------------------------------------------------------------------
(***************************************************************************)
(* Both oneshot channels: nothing was accepted before the channel is       *)
(* fulfilled, and nobody is in the queue of a channel that is.             *)
(***************************************************************************)
FulfilledInv ==
  /\ WaitersInv
  /\ is_fulfilled \in BOOLEAN
  /\ value \in OptValue
  /\ sent \in OptValue
  /\ returned \in [OptValue -> 0..2]
  /\ is_fulfilled => IsEmpty(waiters)
  /\ ~is_fulfilled => value = NoValue /\ sent = NoValue

(* Once taken, the value was returned exactly once. *)
OneshotInv == FulfilledInv /\ ValueConserved

(* The value stays, and it is all that any receive has returned. *)
BroadcastInv ==
  /\ FulfilledInv
  /\ value = sent
  /\ \A r \in OptValue : returned[r] > 0 => is_fulfilled /\ r = value

(* A new channel. *)
LEMMA FulfilledInitInv == Init => OneshotInv /\ BroadcastInv
<1> SUFFICES ASSUME Init PROVE OneshotInv /\ BroadcastInv
  OBVIOUS
<1>1. FulfilledInv
  <2>1. WaitersInv
    BY WaitersInitInv DEF Init
  <2>2. returned \in [OptValue -> 0..2]
    BY DEF Init
  <2> QED
    BY <2>1, <2>2 DEF Init, FulfilledInv, OptValue
<1>2. ValueConserved
  BY ChannelStateAssumption DEF Init, ValueConserved, OptValue
<1>3. \A r \in OptValue : returned[r] = 0
  BY DEF Init
<1> QED
  BY <1>1, <1>2, <1>3 DEF OneshotInv, BroadcastInv, Init

(* One value is accepted, before anybody has received anything. *)
LEMMA SendInv ==
  ASSUME FulfilledInv, NEW v \in Values, Send(v)
  PROVE  /\ FulfilledInv'
         /\ OneshotInv => ValueConserved'
         /\ BroadcastInv => BroadcastInv'
<1> USE DEF Send
<1>1. WaitersInv' /\ IsEmpty(waiters')
  BY WakeWaitersInv DEF FulfilledInv
<1>2. FulfilledInv'
  BY <1>1 DEF FulfilledInv, OptValue
<1>3. ASSUME OneshotInv PROVE ValueConserved'
  <2>1. \A u \in Values : returned[u] = 0
    BY <1>3, ChannelStateAssumption DEF OneshotInv, ValueConserved, FulfilledInv
  <2> QED
    BY <2>1, ChannelStateAssumption DEF ValueConserved
<1>4. ASSUME BroadcastInv PROVE BroadcastInv'
  BY <1>2, <1>4 DEF BroadcastInv
<1> QED
  BY <1>2, <1>3, <1>4

(* The close touches no value. *)
LEMMA CloseStateInv ==
  ASSUME FulfilledInv, CloseState
  PROVE  /\ FulfilledInv'
         /\ OneshotInv => ValueConserved'
         /\ BroadcastInv => BroadcastInv'
<1> USE DEF CloseState
<1>1. WaitersInv' /\ IsEmpty(waiters')
  <2>1. CASE is_fulfilled
    BY <2>1, UnchangedWaitersInv DEF FulfilledInv, waiterVars
  <2>2. CASE ~is_fulfilled
    BY <2>2, WakeWaitersInv DEF FulfilledInv
  <2> QED
    BY <2>1, <2>2
<1>2. FulfilledInv'
  BY <1>1 DEF FulfilledInv
<1> QED
  BY <1>2 DEF OneshotInv, ValueConserved, BroadcastInv

(* Steps that touch neither a value nor what the receives returned. *)
LEMMA QuietInv ==
  ASSUME FulfilledInv, WaitersInv', is_fulfilled => IsEmpty(waiters'),
         UNCHANGED <<is_fulfilled, value, sent, returned>>
  PROVE  /\ FulfilledInv'
         /\ OneshotInv => ValueConserved'
         /\ BroadcastInv => BroadcastInv'
<1>1. FulfilledInv'
  BY DEF FulfilledInv
<1> QED
  BY <1>1 DEF OneshotInv, ValueConserved, BroadcastInv

LEMMA ReceiveInv ==
  ASSUME FulfilledInv, NEW f \in Futures, Receive(f)
  PROVE  /\ FulfilledInv'
         /\ OneshotInv => ValueConserved'
         /\ BroadcastInv => BroadcastInv'
<1>1. WaitersInv'
  BY CreateReceiveInv DEF Receive, FulfilledInv
<1> QED
  BY <1>1, QuietInv DEF Receive, Create, FulfilledInv

LEMMA PollRegisteredInv ==
  ASSUME FulfilledInv, NEW f \in Futures, NEW w \in Wakers, PollRegistered(f, w)
  PROVE  /\ FulfilledInv'
         /\ OneshotInv => ValueConserved'
         /\ BroadcastInv => BroadcastInv'
<1>1. WaitersInv'
  BY StayRegisteredInv DEF PollRegistered, FulfilledInv
<1> QED
  BY <1>1, QuietInv DEF PollRegistered, StayRegistered, FulfilledInv

LEMMA DropReceiveInv ==
  ASSUME FulfilledInv, NEW f \in Futures, DropReceive(f)
  PROVE  /\ FulfilledInv'
         /\ OneshotInv => ValueConserved'
         /\ BroadcastInv => BroadcastInv'
<1>1. WaitersInv' /\ (IsEmpty(waiters) => IsEmpty(waiters'))
  BY RemoveWaiterInv DEF DropReceive, FulfilledInv
<1> QED
  BY <1>1, QuietInv DEF DropReceive, FulfilledInv

(* A future waits only at a channel that is not fulfilled. *)
LEMMA ReceiveWaitsInv ==
  ASSUME FulfilledInv, NEW f \in Futures, NEW w \in Wakers,
         state[f] = "Unregistered", ReceiveWaits(f, w),
         UNCHANGED <<is_fulfilled, sent>>
  PROVE  /\ FulfilledInv'
         /\ OneshotInv => ValueConserved'
         /\ BroadcastInv => BroadcastInv'
<1>1. "Registered" \in InQueue /\ state[f] \notin InQueue
  BY DEF InQueue
<1>2. WaitersInv'
  BY <1>1, RegisterInv DEF ReceiveWaits, FulfilledInv
<1> QED
  BY <1>2, QuietInv DEF ReceiveWaits, FulfilledInv

(* A receive resolves to r, and only r's count changes. *)
LEMMA ReturnInv ==
  ASSUME FulfilledInv, NEW f \in Futures, NEW r \in OptValue, is_fulfilled,
         state[f] = "Unregistered", Return(f, r), value' \in OptValue,
         UNCHANGED <<is_fulfilled, sent>>
  PROVE  /\ FulfilledInv'
         /\ returned'[r] = IF returned[r] = 0 THEN 1 ELSE 2
         /\ \A s \in OptValue \ {r} : returned'[s] = returned[s]
<1>1. WaitersInv' /\ waiters' = waiters
  <2>1. state[f] \notin InQueue
    BY DEF InQueue
  <2> QED
    BY <2>1, ResolveInv DEF Return, Resolve, FulfilledInv
<1>2. /\ returned' \in [OptValue -> 0..2]
      /\ returned'[r] = IF returned[r] = 0 THEN 1 ELSE 2
      /\ \A s \in OptValue \ {r} : returned'[s] = returned[s]
  BY DEF Return, FulfilledInv
<1>3. FulfilledInv'
  BY <1>1, <1>2 DEF FulfilledInv
<1> QED
  BY <1>2, <1>3

(* None says nothing about the value, and comes after the close. *)
LEMMA ReceiveNoneInv ==
  ASSUME FulfilledInv, NEW f \in Futures, state[f] = "Unregistered",
         ReceiveNone(f), UNCHANGED <<is_fulfilled, sent>>
  PROVE  /\ FulfilledInv'
         /\ OneshotInv => ValueConserved'
         /\ BroadcastInv => BroadcastInv'
<1>1. /\ NoValue \in OptValue /\ is_fulfilled /\ Return(f, NoValue)
      /\ value' \in OptValue /\ value' = value
  BY DEF ReceiveNone, FulfilledInv, OptValue
<1>2. /\ FulfilledInv'
      /\ \A s \in OptValue \ {NoValue} : returned'[s] = returned[s]
  BY <1>1, ReturnInv
<1>3. \A v \in Values : returned'[v] = returned[v]
  BY <1>2, ChannelStateAssumption DEF OptValue
<1>4. ASSUME OneshotInv PROVE ValueConserved'
  BY <1>1, <1>3, <1>4 DEF OneshotInv, ValueConserved
<1>5. ASSUME BroadcastInv PROVE BroadcastInv'
  BY <1>1, <1>2, <1>5 DEF BroadcastInv, ReceiveNone
<1> QED
  BY <1>2, <1>4, <1>5

(* Whoever takes the value is the first to do so. *)
LEMMA TakeValueInv ==
  ASSUME OneshotInv, NEW f \in Futures, state[f] = "Unregistered",
         TakeValue(f), UNCHANGED <<is_fulfilled, sent>>
  PROVE  OneshotInv'
<1>1. /\ value \in Values /\ value \in OptValue /\ value = sent
      /\ is_fulfilled /\ Return(f, value) /\ value' = NoValue
      /\ value' \in OptValue
  BY DEF OneshotInv, FulfilledInv, ValueConserved, TakeValue, OptValue
<1>2. /\ FulfilledInv'
      /\ returned'[value] = IF returned[value] = 0 THEN 1 ELSE 2
      /\ \A s \in OptValue \ {value} : returned'[s] = returned[s]
  BY <1>1, ReturnInv DEF OneshotInv
<1>3. \A v \in Values : returned[v] = 0
  BY <1>1, ChannelStateAssumption DEF OneshotInv, ValueConserved
<1>4. ValueConserved'
  BY <1>1, <1>2, <1>3 DEF ValueConserved, OptValue
<1> QED
  BY <1>2, <1>4 DEF OneshotInv

(* A clone of the value is the value. *)
LEMMA CloneValueInv ==
  ASSUME BroadcastInv, NEW f \in Futures, state[f] = "Unregistered",
         CloneValue(f), UNCHANGED <<is_fulfilled, sent>>
  PROVE  BroadcastInv'
<1>1. /\ value \in OptValue /\ is_fulfilled /\ Return(f, value)
      /\ value' = value /\ value' \in OptValue
  BY DEF BroadcastInv, FulfilledInv, CloneValue
<1>2. /\ FulfilledInv'
      /\ \A s \in OptValue \ {value} : returned'[s] = returned[s]
  BY <1>1, ReturnInv DEF BroadcastInv
<1> QED
  BY <1>1, <1>2 DEF BroadcastInv

-----------------------------------------------------------------------------
(* The invariant of the oneshot channel is preserved by every step. *)
LEMMA OneshotStepInv == OneshotInv /\ [Next]_vars => OneshotInv'
<1> SUFFICES ASSUME OneshotInv, [Next]_vars PROVE OneshotInv'
  OBVIOUS
<1> USE DEF OneshotInv
<1>1. CASE \E v \in Values : Send(v)
  BY <1>1, SendInv
<1>2. CASE Close \/ DropSender \/ DropReceiver
  BY <1>2, CloseStateInv DEF Close, DropSender, DropReceiver
<1>3. CASE \E f \in Futures : Receive(f)
  BY <1>3, ReceiveInv
<1>4. CASE \E f \in Futures : DropReceive(f)
  BY <1>4, DropReceiveInv
<1>5. ASSUME NEW f \in Futures, NEW w \in Wakers, Poll(f, w)  PROVE OneshotInv'
  <2>1. CASE PollRegistered(f, w)
    BY <2>1, PollRegisteredInv
  <2>2. CASE PollUnregistered(f, w)
    <3>1. state[f] = "Unregistered" /\ UNCHANGED <<is_fulfilled, sent>>
      BY <2>2 DEF PollUnregistered
    <3>2. CASE TakeValue(f)
      BY <3>1, <3>2, TakeValueInv
    <3>3. CASE ReceiveNone(f)
      BY <3>1, <3>3, ReceiveNoneInv
    <3>4. CASE ReceiveWaits(f, w)
      BY <3>1, <3>4, ReceiveWaitsInv
    <3> QED
      BY <2>2, <3>2, <3>3, <3>4 DEF PollUnregistered
  <2> QED
    BY <1>5, <2>1, <2>2 DEF Poll
<1>6. CASE UNCHANGED vars
  <2>1. WaitersInv'
    BY <1>6, UnchangedWaitersInv DEF vars, FulfilledInv
  <2> QED
    BY <1>6, <2>1, QuietInv DEF vars, waiterVars, FulfilledInv
<1> QED
  BY <1>1, <1>2, <1>3, <1>4, <1>5, <1>6 DEF Next

(* ... and so it holds in every state of every program. *)
THEOREM OneshotInvariance == Spec => []OneshotInv
  BY FulfilledInitInv, OneshotStepInv, PTL DEF Spec, SafetySpec

(* The value that send accepted is in the channel until exactly one receive  *)
(* returns it: it is neither lost nor doubled.                               *)
THEOREM ExactlyOnce == Spec => []ValueConserved
<1>1. OneshotInv => ValueConserved
  BY DEF OneshotInv
<1> QED
  BY <1>1, OneshotInvariance, PTL

(***************************************************************************)
(* Nobody sleeps at a fulfilled channel: its queue is empty, and a future  *)
(* that was polled and is not in the queue has had its latest waker woken. *)
(***************************************************************************)
NobodySleepsFulfilled ==
  /\ QueueHoldsWaiters
  /\ DrainedIsWoken
  /\ is_fulfilled => IsEmpty(waiters)

(* The oneshot channel loses no wake-up. *)
THEOREM OneshotWakesWaiters == Spec => []NobodySleepsFulfilled
<1>1. OneshotInv => NobodySleepsFulfilled
  BY DEF OneshotInv, FulfilledInv, WaitersInv, NobodySleepsFulfilled
<1> QED
  BY <1>1, OneshotInvariance, PTL

-----------------------------------------------------------------------------
(* The invariant of the broadcast channel is preserved by every step. *)
LEMMA BroadcastStepInv == BroadcastInv /\ [BroadcastNext]_vars => BroadcastInv'
<1> SUFFICES ASSUME BroadcastInv, [BroadcastNext]_vars PROVE BroadcastInv'
  OBVIOUS
<1>0. FulfilledInv
  BY DEF BroadcastInv
<1>1. CASE \E v \in Values : BroadcastSend(v)
  BY <1>0, <1>1, SendInv DEF BroadcastSend
<1>2. CASE BroadcastClose \/ BroadcastDropSender \/ BroadcastDropReceiver
  BY <1>0, <1>2, CloseStateInv
     DEF BroadcastClose, BroadcastDropSender, BroadcastDropReceiver,
         BroadcastCloseState
<1>3. CASE \E f \in Futures : BroadcastReceive(f)
  BY <1>0, <1>3, ReceiveInv DEF BroadcastReceive
<1>4. CASE \E f \in Futures : BroadcastDropReceive(f)
  BY <1>0, <1>4, DropReceiveInv DEF BroadcastDropReceive
<1>5. ASSUME NEW f \in Futures, NEW w \in Wakers, BroadcastPoll(f, w)
      PROVE  BroadcastInv'
  <2>1. CASE BroadcastPollRegistered(f, w)
    BY <1>0, <2>1, PollRegisteredInv DEF BroadcastPollRegistered
  <2>2. CASE BroadcastPollUnregistered(f, w)
    <3>1. state[f] = "Unregistered" /\ UNCHANGED <<is_fulfilled, sent>>
      BY <2>2 DEF BroadcastPollUnregistered
    <3>2. CASE CloneValue(f)
      BY <3>1, <3>2, CloneValueInv
    <3>3. CASE ReceiveNone(f)
      BY <1>0, <3>1, <3>3, ReceiveNoneInv
    <3>4. CASE ReceiveWaits(f, w)
      BY <1>0, <3>1, <3>4, ReceiveWaitsInv
    <3> QED
      BY <2>2, <3>2, <3>3, <3>4 DEF BroadcastPollUnregistered
  <2> QED
    BY <1>5, <2>1, <2>2 DEF BroadcastPoll
<1>6. CASE BroadcastCloneReceiver \/ UNCHANGED vars
  <2>1. /\ UNCHANGED waiterVars
        /\ UNCHANGED <<is_fulfilled, value, sent, returned>>
    BY <1>6 DEF BroadcastCloneReceiver, vars
  <2>2. WaitersInv'
    BY <1>0, <2>1, UnchangedWaitersInv DEF FulfilledInv
  <2> QED
    BY <1>0, <2>1, <2>2, QuietInv DEF waiterVars, FulfilledInv
<1> QED
  BY <1>1, <1>2, <1>3, <1>4, <1>5, <1>6 DEF BroadcastNext

(* ... and so it holds in every state of every program. *)
THEOREM BroadcastInvariance == BroadcastSpec => []BroadcastInv
  BY FulfilledInitInv, BroadcastStepInv, PTL DEF BroadcastSpec

(* All receives of a broadcast return the same.                              *)
THEOREM Agreement == BroadcastSpec => []EverybodyAgrees
<1>1. BroadcastInv => EverybodyAgrees
  BY DEF BroadcastInv, EverybodyAgrees
<1> QED
  BY <1>1, BroadcastInvariance, PTL

(* The oneshot broadcast channel loses no wake-up.                           *)
THEOREM BroadcastWakesWaiters == BroadcastSpec => []NobodySleepsFulfilled
<1>1. BroadcastInv => NobodySleepsFulfilled
  BY DEF BroadcastInv, FulfilledInv, WaitersInv, NobodySleepsFulfilled
<1> QED
  BY <1>1, BroadcastInvariance, PTL

-----------------------------------------------------------------------------
(***************************************************************************)
(* The state broadcast channel.  Its id counts the states and stays within *)
(* MaxId, so it never wraps; the ids that receivers ask for are numbers,   *)
(* and whoever is in the queue has nothing to receive.                     *)
(***************************************************************************)
StatesInv ==
  /\ states \in Seq(Values)
  /\ state_id \in 0..MaxId
  /\ IdsOrderStates

QueueIsUpToDate ==
  \A f \in Futures : state[f] \in InQueue => ~is_closed /\ ~HasNewer(wanted[f])

StateInv ==
  /\ WaitersInv
  /\ is_closed \in BOOLEAN
  /\ StatesInv
  /\ learned \in SUBSET Nat
  /\ wanted \in [Futures -> Nat]
  /\ received \in [after : Nat, id : Nat, value : OptValue]
  /\ ReceivedIsNewer
  /\ QueueIsUpToDate

(* A new channel. *)
LEMMA StateInitInv == StateInit => StateInv
<1> SUFFICES ASSUME StateInit PROVE StateInv
  OBVIOUS
<1> USE DEF StateInit
<1>1. WaitersInv
  BY WaitersInitInv
<1>2. << >> \in Seq(Values) /\ Len(<< >>) = 0
  BY EmptySeq
<1>3. StatesInv
  BY <1>2, StateAssumption DEF StatesInv, IdsOrderStates
<1>4. received \in [after : Nat, id : Nat, value : OptValue] /\ ReceivedIsNewer
  BY DEF OptValue, ReceivedIsNewer
<1>5. QueueIsUpToDate
  BY DEF QueueIsUpToDate, WaitersInit, InQueue
<1> QED
  BY <1>1, <1>3, <1>4, <1>5 DEF StateInv

(* A send advances the id by one and leaves nobody in the queue. *)
LEMMA StateSendInv ==
  ASSUME StateInv, NEW v \in Values, StateSend(v)
  PROVE  StateInv'
<1>1. /\ states \in Seq(Values) /\ Len(states) \in Nat
      /\ state_id \in 0..MaxId /\ state_id = Len(states)
  BY LenProperties DEF StateInv, StatesInv, IdsOrderStates
<1>2. /\ Append(states, v) \in Seq(Values)
      /\ Len(Append(states, v)) = Len(states) + 1
      /\ \A i \in 1..Len(states) : Append(states, v)[i] = states[i]
      /\ Append(states, v)[Len(states) + 1] = v
  BY <1>1, AppendProperties
<1>3. state_id' = state_id + 1 /\ state_id' \in 0..MaxId
  <2>1. state_id + 1 \in 0..MaxId /\ MaxId \in Nat
    BY <1>1, StateAssumption DEF StateSend
  <2>2. (state_id + 1) % (MaxId + 1) = state_id + 1
    BY <2>1
  <2> QED
    BY <2>1, <2>2 DEF StateSend
<1>4. /\ states' = Append(states, v) /\ value' = v
      /\ UNCHANGED <<is_closed, wanted, learned, received>>
  BY DEF StateSend, historyVars
<1>5. states' # << >>
  BY <1>1, <1>2, <1>4, EmptySeq
<1>6. StatesInv'
  BY <1>1, <1>2, <1>3, <1>4, <1>5 DEF StatesInv, IdsOrderStates
<1>7. ReceivedIsNewer'
  BY <1>1, <1>2, <1>4 DEF StateInv, ReceivedIsNewer
<1>8. WaitersInv' /\ \A f \in Futures : state'[f] \notin InQueue
  BY WakeWaitersInv DEF StateSend, StateInv
<1>9. QueueIsUpToDate'
  BY <1>8 DEF QueueIsUpToDate
<1> QED
  BY <1>4, <1>6, <1>7, <1>8, <1>9 DEF StateInv

(* The close leaves nobody in the queue either. *)
LEMMA StateCloseStateInv ==
  ASSUME StateInv, StateCloseState
  PROVE  StateInv'
<1>1. is_closed' = TRUE
      /\ UNCHANGED <<state_id, value, wanted, states, learned, received>>
  BY DEF StateCloseState, historyVars
<1>2. WaitersInv' /\ \A f \in Futures : state'[f] \notin InQueue
  <2>1. CASE is_closed
    <3>1. WaitersInv' /\ state' = state
      BY <2>1, UnchangedWaitersInv DEF StateCloseState, StateInv, waiterVars
    <3> QED
      BY <2>1, <3>1 DEF StateInv, QueueIsUpToDate
  <2>2. CASE ~is_closed
    BY <2>2, WakeWaitersInv DEF StateCloseState, StateInv
  <2> QED
    BY <2>1, <2>2 DEF StateInv
<1>3. QueueIsUpToDate'
  BY <1>2 DEF QueueIsUpToDate
<1>4. StatesInv' /\ ReceivedIsNewer'
  BY <1>1 DEF StateInv, StatesInv, IdsOrderStates, ReceivedIsNewer
<1> QED
  BY <1>1, <1>2, <1>3, <1>4 DEF StateInv

(* Steps that touch neither the state nor what was received. *)
LEMMA StateQuietInv ==
  ASSUME StateInv, WaitersInv', QueueIsUpToDate', wanted' \in [Futures -> Nat],
         UNCHANGED <<is_closed, state_id, value, states, learned, received>>
  PROVE  StateInv'
<1>1. StatesInv' /\ ReceivedIsNewer'
  BY DEF StateInv, StatesInv, IdsOrderStates, ReceivedIsNewer
<1> QED
  BY <1>1 DEF StateInv

(* Steps of the handles. *)
LEMMA StateHandleInv ==
  ASSUME StateInv, UNCHANGED waiterVars,
         UNCHANGED <<is_closed, state_id, value, wanted, states, learned, received>>
  PROVE  StateInv'
<1>1. WaitersInv' /\ state' = state
  BY UnchangedWaitersInv DEF StateInv, waiterVars
<1>2. QueueIsUpToDate'
  BY <1>1 DEF StateInv, QueueIsUpToDate, HasNewer
<1> QED
  BY <1>1, <1>2, StateQuietInv DEF StateInv

(* What is delivered is the latest state, under its own id. *)
LEMMA DeliverInv ==
  ASSUME StateInv, NEW id \in Nat, HasNewer(id), Deliver(id),
         UNCHANGED <<state_id, value, states>>
  PROVE  /\ learned' \in SUBSET Nat
         /\ received' \in [after : Nat, id : Nat, value : OptValue]
         /\ ReceivedIsNewer'
<1>1. /\ states \in Seq(Values) /\ state_id = Len(states) /\ state_id \in Nat
      /\ value # NoValue /\ id < state_id
  BY DEF StateInv, StatesInv, IdsOrderStates, HasNewer
<1>2. state_id \in 1..Len(states) /\ value = states[state_id]
  BY <1>1 DEF StateInv, StatesInv, IdsOrderStates
<1>3. value \in OptValue
  BY <1>1, <1>2 DEF OptValue
<1>4. received' = [after |-> id, id |-> state_id, value |-> value]
      /\ learned' = learned \cup {state_id}
  BY DEF Deliver
<1> QED
  BY <1>1, <1>2, <1>3, <1>4 DEF StateInv, ReceivedIsNewer

LEMMA StateTryReceiveInv ==
  ASSUME StateInv, NEW id \in learned, StateTryReceive(id)
  PROVE  StateInv'
<1>1. id \in Nat /\ HasNewer(id) /\ Deliver(id)
      /\ UNCHANGED <<is_closed, state_id, value, wanted, states>>
  BY DEF StateTryReceive, StateInv
<1>2. /\ learned' \in SUBSET Nat
      /\ received' \in [after : Nat, id : Nat, value : OptValue]
      /\ ReceivedIsNewer'
  BY <1>1, DeliverInv
<1>3. WaitersInv' /\ state' = state
  BY UnchangedWaitersInv DEF StateTryReceive, StateInv, waiterVars
<1>4. QueueIsUpToDate' /\ StatesInv'
  BY <1>1, <1>3 DEF StateInv, QueueIsUpToDate, HasNewer, StatesInv, IdsOrderStates
<1> QED
  BY <1>1, <1>2, <1>3, <1>4 DEF StateInv

(* A new receive future is not in the queue yet. *)
LEMMA StateReceiveInv ==
  ASSUME StateInv, NEW f \in Futures, NEW id \in learned, StateReceive(f, id)
  PROVE  StateInv'
<1>1. /\ Create(f, "Unregistered")
      /\ UNCHANGED <<is_closed, state_id, value, states, learned, received>>
      /\ wanted' = [wanted EXCEPT ![f] = id]
  BY DEF StateReceive, historyVars
<1>2. WaitersInv'
  BY <1>1, CreateReceiveInv DEF StateInv
<1>3. wanted' \in [Futures -> Nat]
  BY <1>1 DEF StateInv
<1>4. \A g \in Futures :
        state'[g] \in InQueue => state[g] \in InQueue /\ wanted'[g] = wanted[g]
  BY <1>1 DEF Create, InQueue, StateInv, WaitersInv, WaitersTypeOK
<1>5. QueueIsUpToDate'
  BY <1>1, <1>4 DEF StateInv, QueueIsUpToDate, HasNewer
<1> QED
  BY <1>1, <1>2, <1>3, <1>5, StateQuietInv

(* A future that resolves was not in the queue. *)
LEMMA StateResolveInv ==
  ASSUME StateInv, NEW f \in Futures, state[f] = "Unregistered", Resolve(f),
         UNCHANGED <<is_closed, state_id, value, wanted, states>>
  PROVE  WaitersInv' /\ QueueIsUpToDate' /\ StatesInv'
<1>1. state[f] \notin InQueue
  BY DEF InQueue
<1>2. WaitersInv'
  BY <1>1, ResolveInv DEF StateInv
<1>3. \A g \in Futures : state'[g] \in InQueue => state[g] \in InQueue
  BY DEF Resolve, Vanish, InQueue, StateInv, WaitersInv, WaitersTypeOK
<1>4. QueueIsUpToDate' /\ StatesInv'
  BY <1>3 DEF StateInv, QueueIsUpToDate, HasNewer, StatesInv, IdsOrderStates
<1> QED
  BY <1>2, <1>4

LEMMA StatePollUnregisteredInv ==
  ASSUME StateInv, NEW f \in Futures, NEW w \in Wakers,
         StatePollUnregistered(f, w)
  PROVE  StateInv'
<1>1. /\ state[f] = "Unregistered" /\ wanted[f] \in Nat
      /\ UNCHANGED <<is_closed, state_id, value, wanted, states>>
  BY DEF StatePollUnregistered, StateInv
<1>2. CASE ReceiveState(f)
  <2>1. /\ learned' \in SUBSET Nat
        /\ received' \in [after : Nat, id : Nat, value : OptValue]
        /\ ReceivedIsNewer'
    BY <1>1, <1>2, DeliverInv DEF ReceiveState
  <2>2. WaitersInv' /\ QueueIsUpToDate' /\ StatesInv'
    BY <1>1, <1>2, StateResolveInv DEF ReceiveState
  <2> QED
    BY <1>1, <2>1, <2>2 DEF StateInv
<1>3. CASE StateReceiveNone(f)
  <2>1. WaitersInv' /\ QueueIsUpToDate' /\ StatesInv'
    BY <1>1, <1>3, StateResolveInv DEF StateReceiveNone
  <2>2. UNCHANGED <<learned, received>>
    BY <1>3 DEF StateReceiveNone, historyVars
  <2> QED
    BY <1>1, <2>1, <2>2, StateQuietInv DEF StateInv
<1>4. CASE StateReceiveWaits(f, w)
  <2>1. "Registered" \in InQueue /\ state[f] \notin InQueue
    BY <1>1 DEF InQueue
  <2>2. WaitersInv'
    BY <1>4, <2>1, RegisterInv DEF StateReceiveWaits, StateInv
  <2>3. \A g \in Futures \ {f} : state'[g] = state[g]
    BY <1>4 DEF StateReceiveWaits, Register, StateInv, WaitersInv, WaitersTypeOK
  <2>4. QueueIsUpToDate'
    BY <1>1, <1>4, <2>3 DEF StateReceiveWaits, StateInv, QueueIsUpToDate, HasNewer
  <2>5. UNCHANGED <<learned, received>>
    BY <1>4 DEF StateReceiveWaits, historyVars
  <2> QED
    BY <1>1, <2>2, <2>4, <2>5, StateQuietInv DEF StateInv
<1> QED
  BY <1>2, <1>3, <1>4 DEF StatePollUnregistered

LEMMA StatePollRegisteredInv ==
  ASSUME StateInv, NEW f \in Futures, NEW w \in Wakers, StatePollRegistered(f, w)
  PROVE  StateInv'
<1>1. WaitersInv' /\ state' = state
  BY StayRegisteredInv DEF StatePollRegistered, StayRegistered, StateInv
<1>2. UNCHANGED <<is_closed, state_id, value, wanted, states, learned, received>>
  BY DEF StatePollRegistered, historyVars
<1>3. QueueIsUpToDate'
  BY <1>1, <1>2 DEF StateInv, QueueIsUpToDate, HasNewer
<1> QED
  BY <1>1, <1>2, <1>3, StateQuietInv DEF StateInv

LEMMA StateDropReceiveInv ==
  ASSUME StateInv, NEW f \in Futures, StateDropReceive(f)
  PROVE  StateInv'
<1>1. WaitersInv'
  BY RemoveWaiterInv DEF StateDropReceive, StateInv
<1>2. UNCHANGED <<is_closed, state_id, value, wanted, states, learned, received>>
  BY DEF StateDropReceive, historyVars
<1>3. \A g \in Futures : state'[g] \in InQueue => state[g] \in InQueue
  BY DEF StateDropReceive, RemoveWaiter, Vanish, InQueue, StateInv, WaitersInv,
         WaitersTypeOK
<1>4. QueueIsUpToDate'
  BY <1>2, <1>3 DEF StateInv, QueueIsUpToDate, HasNewer
<1> QED
  BY <1>1, <1>2, <1>4, StateQuietInv DEF StateInv

(* The invariant is preserved by every step. *)
LEMMA StateStepInv == StateInv /\ [StateNext]_stateVars => StateInv'
<1> SUFFICES ASSUME StateInv, [StateNext]_stateVars PROVE StateInv'
  OBVIOUS
<1>1. CASE \E v \in Values : StateSend(v)
  BY <1>1, StateSendInv
<1>2. CASE StateClose \/ \E side \in {"senders", "receivers"} : StateFinishDrop(side)
  BY <1>2, StateCloseStateInv DEF StateClose, StateFinishDrop
<1>3. CASE \/ StateCloneSender \/ StateCloneReceiver
           \/ StateDropSender \/ StateDropReceiver
  BY <1>3, StateHandleInv
     DEF StateCloneSender, StateCloneReceiver, StateDropSender,
         StateDropReceiver, historyVars
<1>4. CASE \E id \in learned : StateTryReceive(id)
  BY <1>4, StateTryReceiveInv
<1>5. CASE \E f \in Futures : \E id \in learned : StateReceive(f, id)
  BY <1>5, StateReceiveInv
<1>6. CASE \E f \in Futures : StateDropReceive(f)
  BY <1>6, StateDropReceiveInv
<1>7. CASE \E f \in Futures : \E w \in Wakers : StatePoll(f, w)
  BY <1>7, StatePollUnregisteredInv, StatePollRegisteredInv DEF StatePoll
<1>8. CASE UNCHANGED stateVars
  BY <1>8, StateHandleInv DEF stateVars, historyVars
<1> QED
  BY <1>1, <1>2, <1>3, <1>4, <1>5, <1>6, <1>7, <1>8 DEF StateNext

(* ... and so it holds in every state of every program. *)
THEOREM StateInvariance == StateSpec => []StateInv
  BY StateInitInv, StateStepInv, PTL DEF StateSpec, StateSafetySpec

(* The id never wraps: it counts the states, and the channel holds the last. *)
THEOREM IdsNeverWrap == StateSpec => []IdsOrderStates
<1>1. StateInv => IdsOrderStates
  BY DEF StateInv, StatesInv
<1> QED
  BY <1>1, StateInvariance, PTL

(* Every receive returns a state newer than the one asked for, with its id.  *)
THEOREM OnlyNewerStates == StateSpec => []ReceivedIsNewer
<1>1. StateInv => ReceivedIsNewer
  BY DEF StateInv
<1> QED
  BY <1>1, StateInvariance, PTL

(* Nobody sleeps beside a state it has not seen or at a closed channel.      *)
THEOREM NobodySleepsBesideNews == StateSpec => []WaitingMeansUpToDate
<1>1. StateInv => WaitingMeansUpToDate
  BY DEF StateInv, WaitersInv, QueueIsUpToDate, WaitingMeansUpToDate, InQueue
<1> QED
  BY <1>1, StateInvariance, PTL

(* A receiver that a send or the close has released has been woken.          *)
THEOREM StateWakesWaiters == StateSpec => []DrainedIsWoken
<1>1. StateInv => DrainedIsWoken
  BY DEF StateInv, WaitersInv
<1> QED
  BY <1>1, StateInvariance, PTL
=============================================================================
