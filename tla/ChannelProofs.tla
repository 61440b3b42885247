--------------------------- MODULE ChannelProofs ---------------------------
(***************************************************************************)
(* The safety properties of the channel, for any finite sets of senders    *)
(* and receivers, any values and wakers and every capacity.                *)
(***************************************************************************)
EXTENDS SharedChannel, WaitQueueLemmas, FiniteSetTheorems

(***************************************************************************)
(* What the properties rest on: the waker stored in a registered node is   *)
(* that of its latest poll, and a slot without a future has none.          *)
(***************************************************************************)
StoredWakerIsLatest ==
  \A x \in Slots :
    /\ state[x] = "Registered" => latest[x] = task[x]
    /\ state[x] = "Done" => latest[x] = NoWaker

IInv ==
  /\ TypeOK
  /\ QueuesHoldWaiters
  /\ SendersWaitWhenFull
  /\ NeverPanics
  /\ StoredWakerIsLatest
  /\ DequeuedIsWoken

-----------------------------------------------------------------------------
(* The oldest waiting receiver, and the queue without it. *)
LEMMA OldestReceiver ==
  ASSUME IInv, ~IsEmpty(receive_waiters)
  PROVE  LET r == PeekLast(receive_waiters) IN
         /\ r \in Receivers
         /\ state[r] = "Registered"
         /\ task[r] \in Wakers /\ task[r] = latest[r]
         /\ RemoveLast(receive_waiters) \in Seq(Receivers)
         /\ Distinct(RemoveLast(receive_waiters))
         /\ Nodes(RemoveLast(receive_waiters)) = Nodes(receive_waiters) \ {r}
<1> DEFINE r == PeekLast(receive_waiters)
<1>1. receive_waiters \in Seq(Receivers) /\ Distinct(receive_waiters)
  BY DEF IInv, TypeOK, QueuesHoldWaiters
<1>2. r \in Receivers /\ r \in Nodes(receive_waiters)
  BY <1>1, RemoveLastProperties
<1>3. /\ RemoveLast(receive_waiters) \in Seq(Receivers)
      /\ Distinct(RemoveLast(receive_waiters))
  BY <1>1, RemoveLastProperties
<1>4. Nodes(RemoveLast(receive_waiters)) = Nodes(receive_waiters) \ {r}
  BY <1>1, RemoveLastProperties
<1>5. state[r] = "Registered"
  BY <1>2 DEF IInv, QueuesHoldWaiters
<1>6. task[r] \in Wakers /\ task[r] = latest[r]
  BY <1>2, <1>5 DEF IInv, TypeOK, StoredWakerIsLatest, Slots
<1> QED
  BY <1>2, <1>3, <1>4, <1>5, <1>6

(* The oldest waiting sender, its value, and the queue without it. *)
LEMMA OldestSender ==
  ASSUME IInv, ~IsEmpty(send_waiters)
  PROVE  LET s == PeekLast(send_waiters) IN
         /\ s \in Senders
         /\ state[s] = "Registered"
         /\ value[s] \in Values
         /\ task[s] \in Wakers /\ task[s] = latest[s]
         /\ RemoveLast(send_waiters) \in Seq(Senders)
         /\ Distinct(RemoveLast(send_waiters))
         /\ Nodes(RemoveLast(send_waiters)) = Nodes(send_waiters) \ {s}
<1> DEFINE s == PeekLast(send_waiters)
<1>1. send_waiters \in Seq(Senders) /\ Distinct(send_waiters)
  BY DEF IInv, TypeOK, QueuesHoldWaiters
<1>2. s \in Senders /\ s \in Nodes(send_waiters)
  BY <1>1, RemoveLastProperties
<1>3. /\ RemoveLast(send_waiters) \in Seq(Senders)
      /\ Distinct(RemoveLast(send_waiters))
  BY <1>1, RemoveLastProperties
<1>4. Nodes(RemoveLast(send_waiters)) = Nodes(send_waiters) \ {s}
  BY <1>1, RemoveLastProperties
<1>5. state[s] = "Registered"
  BY <1>2 DEF IInv, QueuesHoldWaiters
<1>6. value[s] \in Values
  BY <1>2, <1>5 DEF IInv, TypeOK
<1>7. task[s] \in Wakers /\ task[s] = latest[s]
  BY <1>2, <1>5 DEF IInv, TypeOK, StoredWakerIsLatest, Slots
<1> QED
  BY <1>2, <1>3, <1>4, <1>5, <1>6, <1>7

(* What the constants give: the slots are of one kind only. *)
LEMMA SlotKinds ==
  /\ \A s \in Senders : s \in Slots /\ s \notin Receivers
  /\ \A r \in Receivers : r \in Slots /\ r \notin Senders
  BY ChannelAssumption DEF Slots

-----------------------------------------------------------------------------
(* Creating a future touches nothing but its own slot. *)
LEMMA SendInv ==
  ASSUME IInv, NEW s \in Senders, NEW v \in Values, Send(s, v)
  PROVE  IInv'
<1> USE SlotKinds DEF IInv, Send, Unused, Idle
<1>1. TypeOK'
  BY ChannelAssumption DEF TypeOK, SendPollState
<1>2. QueuesHoldWaiters' /\ SendersWaitWhenFull' /\ NeverPanics'
  BY DEF TypeOK, QueuesHoldWaiters, SendersWaitWhenFull, NeverPanics
<1>3. StoredWakerIsLatest'
  BY DEF TypeOK, StoredWakerIsLatest
<1>4. DequeuedIsWoken'
  BY DEF TypeOK, StoredWakerIsLatest, DequeuedIsWoken, Polled
<1> QED
  BY <1>1, <1>2, <1>3, <1>4

LEMMA ReceiveInv ==
  ASSUME IInv, NEW r \in Receivers, Receive(r)
  PROVE  IInv'
<1> USE SlotKinds DEF IInv, Receive, Unused, Idle
<1>1. TypeOK'
  BY DEF TypeOK, RecvPollState
<1>2. QueuesHoldWaiters' /\ SendersWaitWhenFull' /\ NeverPanics'
  BY DEF TypeOK, QueuesHoldWaiters, SendersWaitWhenFull, NeverPanics
<1>3. StoredWakerIsLatest'
  BY DEF TypeOK, StoredWakerIsLatest
<1>4. DequeuedIsWoken'
  BY DEF TypeOK, StoredWakerIsLatest, DequeuedIsWoken, Polled
<1> QED
  BY <1>1, <1>2, <1>3, <1>4

(***************************************************************************)
(* The parts of TypeOK and of the step relation that are about the slots:  *)
(* the future on slot x is in no queue, and is over after the step.        *)
(***************************************************************************)
SlotsTyped ==
  /\ state \in [Slots -> SendPollState \cup RecvPollState]
  /\ \A s \in Senders : state[s] \in SendPollState
  /\ \A r \in Receivers : state[r] \in RecvPollState
  /\ value \in [Senders -> Values \cup {NoValue}]
  /\ \A s \in Senders :
       value[s] \in Values <=> state[s] \in {"Unregistered", "Registered"}
  /\ task \in [Slots -> OptWaker]
  /\ \A x \in Slots : task[x] \in Wakers <=> state[x] = "Registered"
  /\ in_hand \in [Slots -> OptWaker]
  /\ latest \in [Slots -> OptWaker]
  /\ woken \in SUBSET Slots

SlotOver(x) ==
  /\ Idle(x)
  /\ state[x] # "Registered"
  /\ latest' = [latest EXCEPT ![x] = NoWaker]
  /\ woken' \in {woken, woken \ {x}}

(***************************************************************************)
(* A future in no queue resolves or is dropped, and nothing else happens.  *)
(***************************************************************************)
LEMMA RetireInv ==
  ASSUME IInv, NEW x \in Slots, SlotOver(x),
         state' = Retired(x), task' = NoTask(x),
         value' = [s \in Senders |-> IF s = x THEN NoValue ELSE value[s]],
         UNCHANGED <<is_closed, receive_waiters, send_waiters, in_hand>>
  PROVE  SlotsTyped' /\ QueuesHoldWaiters' /\ StoredWakerIsLatest' /\ DequeuedIsWoken'
<1> USE SlotKinds DEF IInv, SlotOver, Idle, Retired, NoTask
<1>1. SlotsTyped'
  <2>1. /\ state' \in [Slots -> SendPollState \cup RecvPollState]
        /\ \A s \in Senders : state'[s] \in SendPollState
        /\ \A r \in Receivers : state'[r] \in RecvPollState
    BY DEF TypeOK, SendPollState, RecvPollState
  <2>2. value' \in [Senders -> Values \cup {NoValue}]
    BY DEF TypeOK
  <2>3. \A s \in Senders :
          value'[s] \in Values <=> state'[s] \in {"Unregistered", "Registered"}
    BY ChannelAssumption DEF TypeOK
  <2>4. /\ task' \in [Slots -> OptWaker]
        /\ \A y \in Slots : task'[y] \in Wakers <=> state'[y] = "Registered"
    BY WakersAssumption DEF TypeOK, OptWaker
  <2>5. /\ in_hand' \in [Slots -> OptWaker] /\ latest' \in [Slots -> OptWaker]
        /\ woken' \in SUBSET Slots
    BY DEF TypeOK, OptWaker
  <2> QED
    BY <2>1, <2>2, <2>3, <2>4, <2>5 DEF SlotsTyped
<1>2. QueuesHoldWaiters'
  BY DEF TypeOK, QueuesHoldWaiters
<1>3. StoredWakerIsLatest'
  BY DEF TypeOK, StoredWakerIsLatest
<1>4. DequeuedIsWoken'
  BY DEF TypeOK, DequeuedIsWoken, Polled
<1> QED
  BY <1>1, <1>2, <1>3, <1>4

(***************************************************************************)
(* A call on slot x whose future, if any, is over notifies the oldest      *)
(* waiting receiver: what is common to a send that stores its value, a     *)
(* try_send and the drop of a notified receive future.                     *)
(***************************************************************************)
LEMMA NotifyInv ==
  ASSUME IInv, NEW x \in Slots, SlotOver(x),
         ReturnOldestReceiveWaiter(x, Retired(x), NoTask(x)),
         value' = [s \in Senders |-> IF s = x THEN NoValue ELSE value[s]],
         UNCHANGED <<is_closed, send_waiters>>
  PROVE  /\ SlotsTyped'
         /\ receive_waiters' \in Seq(Receivers)
         /\ QueuesHoldWaiters' /\ StoredWakerIsLatest' /\ DequeuedIsWoken'
<1> USE SlotKinds DEF IInv, SlotOver, Idle, ReturnOldestReceiveWaiter, Retired,
                      NoTask
<1>1. CASE IsEmpty(receive_waiters)
  BY <1>1, RetireInv DEF TypeOK
<1>2. CASE ~IsEmpty(receive_waiters)
  <2> USE <1>2, OldestReceiver
  <2>1. SlotsTyped' /\ receive_waiters' \in Seq(Receivers)
    <3>1. /\ state' \in [Slots -> SendPollState \cup RecvPollState]
          /\ \A s \in Senders : state'[s] \in SendPollState
          /\ \A r \in Receivers : state'[r] \in RecvPollState
      BY DEF TypeOK, SendPollState, RecvPollState
    <3>2. value' \in [Senders -> Values \cup {NoValue}]
      BY DEF TypeOK
    <3>3. \A s \in Senders :
            value'[s] \in Values <=> state'[s] \in {"Unregistered", "Registered"}
      BY ChannelAssumption DEF TypeOK
    <3>4. /\ task' \in [Slots -> OptWaker]
          /\ \A y \in Slots : task'[y] \in Wakers <=> state'[y] = "Registered"
      BY WakersAssumption DEF TypeOK, OptWaker
    <3>5. /\ in_hand' \in [Slots -> OptWaker] /\ latest' \in [Slots -> OptWaker]
          /\ woken' \in SUBSET Slots /\ receive_waiters' \in Seq(Receivers)
      BY DEF TypeOK, OptWaker
    <3> QED
      BY <3>1, <3>2, <3>3, <3>4, <3>5 DEF SlotsTyped
  <2>2. QueuesHoldWaiters'
    <3>1. Distinct(receive_waiters)' /\ Distinct(send_waiters)'
      BY DEF QueuesHoldWaiters
    <3>2. Nodes(receive_waiters)' = {r \in Receivers : state[r] = "Registered"}'
      BY DEF TypeOK, QueuesHoldWaiters
    <3>3. Nodes(send_waiters)' = {s \in Senders : state[s] = "Registered"}'
      <4>1. \A s \in Senders : state'[s] = "Registered" <=> state[s] = "Registered"
        BY DEF TypeOK
      <4> QED
        BY <4>1 DEF QueuesHoldWaiters
    <3>4. ~is_closed'
      BY DEF QueuesHoldWaiters
    <3> QED
      BY <3>1, <3>2, <3>3, <3>4 DEF QueuesHoldWaiters
  <2>3. StoredWakerIsLatest'
    BY DEF TypeOK, StoredWakerIsLatest
  <2>4. DequeuedIsWoken'
    BY DEF TypeOK, DequeuedIsWoken, Polled
  <2> QED
    BY <2>1, <2>2, <2>3, <2>4
<1> QED
  BY <1>1, <1>2

(* A slot without a future is over in this sense. *)
LEMMA UnusedIsOver ==
  ASSUME IInv, NEW x \in Slots, Unused(x), UNCHANGED <<latest, woken>>
  PROVE  SlotOver(x) /\ Retired(x) = state /\ NoTask(x) = task
<1> USE DEF IInv, TypeOK
<1>1. latest[x] = NoWaker
  BY DEF Unused, StoredWakerIsLatest
<1>2. task[x] = NoWaker
  BY DEF Unused, OptWaker
<1>3. SlotOver(x)
  BY <1>1 DEF SlotOver, Unused
<1>4. Retired(x) = state
  BY DEF Retired, Unused
<1>5. NoTask(x) = task
  BY <1>2 DEF NoTask
<1> QED
  BY <1>3, <1>4, <1>5

(* Pushing a value where there is room keeps the buffer within its bounds. *)
LEMMA PushProperties ==
  ASSUME IInv, CanPush, NEW v \in Values
  PROVE  /\ Append(buffer, v) \in Seq(Values)
         /\ Len(Append(buffer, v)) <= capacity
         /\ IsEmpty(send_waiters)
<1>1. Append(buffer, v) \in Seq(Values) /\ Len(Append(buffer, v)) = Len(buffer) + 1
  BY AppendProperties DEF IInv, TypeOK
<1>2. Len(buffer) \in Nat /\ capacity \in Nat
  BY ChannelAssumption DEF IInv, TypeOK
<1>3. IsEmpty(send_waiters)
  BY DEF IInv, SendersWaitWhenFull, CanPush
<1> QED
  BY <1>1, <1>2, <1>3 DEF IInv, SendersWaitWhenFull, CanPush

LEMMA TrySendInv ==
  ASSUME IInv, NEW s \in Senders, NEW v \in Values, TrySend(s, v)
  PROVE  IInv'
<1>1. SlotOver(s) /\ Retired(s) = state /\ NoTask(s) = task
  BY SlotKinds, UnusedIsOver DEF TrySend
<1>2. value' = [t \in Senders |-> IF t = s THEN NoValue ELSE value[t]]
  BY DEF TrySend, Unused, IInv, TypeOK
<1>3. /\ SlotsTyped' /\ receive_waiters' \in Seq(Receivers)
      /\ QueuesHoldWaiters' /\ StoredWakerIsLatest' /\ DequeuedIsWoken'
  BY <1>1, <1>2, SlotKinds, NotifyInv DEF TrySend
<1>4. /\ buffer' \in Seq(Values) /\ Len(buffer') <= capacity
      /\ IsEmpty(send_waiters)
  BY PushProperties DEF TrySend
<1>5. TypeOK'
  BY <1>3, <1>4 DEF IInv, TypeOK, SlotsTyped, TrySend
<1>6. SendersWaitWhenFull' /\ NeverPanics'
  BY <1>4 DEF IInv, SendersWaitWhenFull, NeverPanics, TrySend
<1> QED
  BY <1>3, <1>5, <1>6 DEF IInv

-----------------------------------------------------------------------------
(***************************************************************************)
(* A receive call on slot r, whose future is over, takes the oldest value. *)
(***************************************************************************)
LEMMA ReceiveValueInv ==
  ASSUME IInv, NEW r \in Receivers, SlotOver(r),
         ReceiveValue(r, Retired(r), NoTask(r)),
         UNCHANGED <<capacity, is_closed, receive_waiters>>
  PROVE  IInv'
<1> USE SlotKinds DEF IInv, SlotOver, Idle, ReceiveValue, Retired, NoTask
<1>0. Len(buffer) \in Nat /\ capacity \in Nat
  BY ChannelAssumption DEF TypeOK
<1>1. CASE PopValue(r, Retired(r), NoTask(r)) /\ IsEmpty(send_waiters)
  <2> USE <1>1 DEF PopValue
  <2>1. /\ Head(buffer) \in Values /\ Tail(buffer) \in Seq(Values)
        /\ Len(Tail(buffer)) = Len(buffer) - 1
    BY HeadTailProperties DEF TypeOK, IsEmpty
  <2>2. value = [s \in Senders |-> IF s = r THEN NoValue ELSE value[s]]
    BY DEF TypeOK
  <2>3. /\ SlotsTyped' /\ QueuesHoldWaiters'
        /\ StoredWakerIsLatest' /\ DequeuedIsWoken'
    BY <2>2, RetireInv
  <2>4. TypeOK'
    BY <2>1, <2>3 DEF TypeOK, SlotsTyped
  <2>5. SendersWaitWhenFull' /\ NeverPanics'
    BY <1>0, <2>1 DEF SendersWaitWhenFull, NeverPanics
  <2> QED
    BY <2>3, <2>4, <2>5
<1>2. ASSUME ~IsEmpty(send_waiters),
             CompleteOldestSender(r, Retired(r), NoTask(r))
      PROVE  /\ SlotsTyped'
             /\ send_waiters' \in Seq(Senders)
             /\ QueuesHoldWaiters' /\ StoredWakerIsLatest' /\ DequeuedIsWoken'
  <2> USE <1>2, OldestSender DEF CompleteOldestSender
  <2>1. SlotsTyped' /\ send_waiters' \in Seq(Senders)
    BY WakersAssumption, ChannelAssumption
    DEF TypeOK, SlotsTyped, SendPollState, RecvPollState, OptWaker
  <2>2. QueuesHoldWaiters'
    <3>1. Distinct(receive_waiters)' /\ Distinct(send_waiters)'
      BY DEF QueuesHoldWaiters
    <3>2. Nodes(receive_waiters)' = {q \in Receivers : state[q] = "Registered"}'
      BY DEF TypeOK, QueuesHoldWaiters
    <3>3. Nodes(send_waiters)' = {s \in Senders : state[s] = "Registered"}'
      BY DEF TypeOK, QueuesHoldWaiters
    <3>4. ~is_closed'
      BY DEF QueuesHoldWaiters
    <3> QED
      BY <3>1, <3>2, <3>3, <3>4 DEF QueuesHoldWaiters
  <2>3. StoredWakerIsLatest'
    BY DEF TypeOK, StoredWakerIsLatest
  <2>4. DequeuedIsWoken'
    BY DEF TypeOK, DequeuedIsWoken, Polled
  <2> QED
    BY <2>1, <2>2, <2>3, <2>4
<1>3. CASE PopValue(r, Retired(r), NoTask(r)) /\ ~IsEmpty(send_waiters)
  <2> DEFINE v == value[PeekLast(send_waiters)]
             t == Tail(buffer)
  <2>1. v \in Values
    BY <1>3, OldestSender
  <2>2. Head(buffer) \in Values /\ t \in Seq(Values) /\ Len(t) = Len(buffer) - 1
    BY <1>3, HeadTailProperties DEF TypeOK, IsEmpty, PopValue
  <2>3. buffer' = Append(t, v) /\ received' = Head(buffer)
    BY <1>3 DEF PopValue
  <2> HIDE DEF v, t
  <2>4. buffer' \in Seq(Values) /\ Len(buffer') = Len(buffer)
    BY <1>0, <2>1, <2>2, <2>3, AppendProperties
  <2>5. /\ SlotsTyped' /\ send_waiters' \in Seq(Senders)
        /\ QueuesHoldWaiters' /\ StoredWakerIsLatest' /\ DequeuedIsWoken'
    BY <1>2, <1>3 DEF PopValue
  <2>6. panicked' = panicked
    <3>1. v # NoValue
      BY <2>1, ChannelAssumption
    <3>2. Len(t) # capacity
      BY <1>0, <2>2, <1>3 DEF SendersWaitWhenFull
    <3> QED
      BY <1>3, <3>1, <3>2 DEF PopValue, v, t, NeverPanics, TypeOK
  <2>7. TypeOK'
    BY <2>2, <2>3, <2>4, <2>5, <2>6 DEF TypeOK, SlotsTyped
  <2>8. SendersWaitWhenFull' /\ NeverPanics'
    BY <1>0, <1>3, <2>4, <2>6 DEF SendersWaitWhenFull, NeverPanics
  <2> QED
    BY <2>5, <2>7, <2>8
<1>4. CASE TakeFromSender(r, Retired(r), NoTask(r))
  <2>1. value[PeekLast(send_waiters)] \in Values
    BY <1>4, OldestSender DEF TakeFromSender
  <2>2. /\ SlotsTyped' /\ send_waiters' \in Seq(Senders)
        /\ QueuesHoldWaiters' /\ StoredWakerIsLatest' /\ DequeuedIsWoken'
    BY <1>2, <1>4 DEF TakeFromSender
  <2>3. capacity = 0 /\ Len(buffer) = 0
    BY <1>4 DEF TakeFromSender, SendersWaitWhenFull, IsEmpty
  <2>4. panicked' = panicked
    BY <1>4, <2>1, <2>3, ChannelAssumption DEF TakeFromSender, NeverPanics, TypeOK
  <2>5. TypeOK'
    BY <1>4, <2>1, <2>2, <2>4 DEF TypeOK, SlotsTyped, TakeFromSender
  <2>6. SendersWaitWhenFull' /\ NeverPanics'
    BY <1>4, <2>3, <2>4 DEF SendersWaitWhenFull, NeverPanics, TakeFromSender
  <2> QED
    BY <2>2, <2>5, <2>6
<1> QED
  BY <1>1, <1>3, <1>4

LEMMA TryReceiveInv ==
  ASSUME IInv, NEW r \in Receivers, TryReceive(r)
  PROVE  IInv'
<1>1. SlotOver(r) /\ Retired(r) = state /\ NoTask(r) = task
  BY SlotKinds, UnusedIsOver DEF TryReceive
<1> QED
  BY <1>1, ReceiveValueInv DEF TryReceive

-----------------------------------------------------------------------------
(* What happens to the values when the future on a slot is over. *)
LEMMA ValuesAfter ==
  ASSUME IInv
  PROVE  /\ \A r \in Receivers :
              value = [s \in Senders |-> IF s = r THEN NoValue ELSE value[s]]
         /\ \A t \in Senders :
              [value EXCEPT ![t] = NoValue]
                = [s \in Senders |-> IF s = t THEN NoValue ELSE value[s]]
  BY SlotKinds DEF IInv, TypeOK

(* A future that was in no queue is forgotten. *)
LEMMA ForgottenIsOver ==
  ASSUME NEW x \in Slots, Idle(x), state[x] # "Registered", Forget(x)
  PROVE  SlotOver(x)
  BY DEF SlotOver, Forget

(***************************************************************************)
(* The steps in which a future that is in no queue ends quietly.           *)
(***************************************************************************)
LEMMA QuietEndInv ==
  ASSUME IInv, NEW x \in Slots, Idle(x), state[x] # "Registered", Forget(x),
         state' = Retired(x), task' = NoTask(x),
         value' = [s \in Senders |-> IF s = x THEN NoValue ELSE value[s]],
         UNCHANGED <<capacity, is_closed, buffer, receive_waiters, send_waiters,
                     in_hand, received, panicked>>
  PROVE  IInv'
<1>1. /\ SlotsTyped' /\ QueuesHoldWaiters'
      /\ StoredWakerIsLatest' /\ DequeuedIsWoken'
  BY ForgottenIsOver, RetireInv
<1>2. TypeOK'
  BY <1>1 DEF IInv, TypeOK, SlotsTyped
<1>3. SendersWaitWhenFull' /\ NeverPanics'
  BY DEF IInv, SendersWaitWhenFull, NeverPanics
<1> QED
  BY <1>1, <1>2, <1>3 DEF IInv

LEMMA QuietEnds ==
  ASSUME IInv
  PROVE  /\ \A s \in Senders :
              /\ Idle(s) /\ state[s] = "Unregistered" /\ SendFailsClosed(s)
              /\ UNCHANGED <<capacity, is_closed, received>>
              => IInv'
         /\ \A s \in Senders : PollSendComplete(s) => IInv'
         /\ \A s \in Senders :
              CancelSend(s) /\ state[s] # "Registered" => IInv'
         /\ \A r \in Receivers :
              /\ Idle(r) /\ state[r] # "Registered" /\ ReceiveFailsClosed(r)
              /\ UNCHANGED <<capacity, is_closed>>
              => IInv'
         /\ \A r \in Receivers : DropReceiveUnregistered(r) => IInv'
<1> USE SlotKinds, ValuesAfter
<1>1. ASSUME NEW s \in Senders, Idle(s), state[s] = "Unregistered",
             SendFailsClosed(s), UNCHANGED <<capacity, is_closed, received>>
      PROVE  IInv'
  BY <1>1, QuietEndInv DEF SendFailsClosed
<1>2. ASSUME NEW s \in Senders, PollSendComplete(s)  PROVE IInv'
  <2>1. task[s] = NoWaker /\ value[s] = NoValue
    BY <1>2 DEF PollSendComplete, IInv, TypeOK, OptWaker
  <2>2. NoTask(s) = task
    BY <2>1 DEF NoTask, IInv, TypeOK
  <2>3. value = [t \in Senders |-> IF t = s THEN NoValue ELSE value[t]]
    BY <2>1 DEF IInv, TypeOK
  <2> QED
    BY <1>2, <2>2, <2>3, QuietEndInv DEF PollSendComplete
<1>3. ASSUME NEW s \in Senders, CancelSend(s), state[s] # "Registered"  PROVE IInv'
  BY <1>3, QuietEndInv DEF CancelSend
<1>4. ASSUME NEW r \in Receivers, Idle(r), state[r] # "Registered",
             ReceiveFailsClosed(r), UNCHANGED <<capacity, is_closed>>
      PROVE  IInv'
  BY <1>4, QuietEndInv DEF ReceiveFailsClosed
<1>5. ASSUME NEW r \in Receivers, DropReceiveUnregistered(r)  PROVE IInv'
  BY <1>5, QuietEndInv DEF DropReceiveUnregistered
<1> QED
  BY <1>1, <1>2, <1>3, <1>4, <1>5

(***************************************************************************)
(* The steps that also notify, or take a value.                            *)
(***************************************************************************)
LEMMA SendStoresInv ==
  ASSUME IInv, NEW s \in Senders, Idle(s), state[s] = "Unregistered",
         SendStores(s), UNCHANGED <<capacity, is_closed, received>>
  PROVE  IInv'
<1>1. value[s] \in Values /\ value[s] # NoValue
  BY ChannelAssumption DEF IInv, TypeOK
<1>2. SlotOver(s)
  BY SlotKinds, ForgottenIsOver DEF SendStores
<1>3. /\ SlotsTyped' /\ receive_waiters' \in Seq(Receivers)
      /\ QueuesHoldWaiters' /\ StoredWakerIsLatest' /\ DequeuedIsWoken'
  BY <1>2, SlotKinds, ValuesAfter, NotifyInv DEF SendStores
<1>4. /\ buffer' \in Seq(Values) /\ Len(buffer') <= capacity
      /\ IsEmpty(send_waiters)
  BY <1>1, PushProperties DEF SendStores
<1>5. panicked' = panicked
  BY <1>1 DEF SendStores, IInv, TypeOK
<1>6. TypeOK'
  BY <1>3, <1>4, <1>5 DEF IInv, TypeOK, SlotsTyped, SendStores
<1>7. SendersWaitWhenFull' /\ NeverPanics'
  BY <1>4, <1>5 DEF IInv, SendersWaitWhenFull, NeverPanics, SendStores
<1> QED
  BY <1>3, <1>6, <1>7 DEF IInv

LEMMA ReceiveObtainsInv ==
  ASSUME IInv, NEW r \in Receivers, Idle(r), state[r] # "Registered",
         ReceiveObtains(r), UNCHANGED <<capacity, is_closed>>
  PROVE  IInv'
<1>1. SlotOver(r)
  BY SlotKinds, ForgottenIsOver DEF ReceiveObtains
<1> QED
  BY <1>1, ReceiveValueInv DEF ReceiveObtains

LEMMA DropReceiveNotifiedInv ==
  ASSUME IInv, NEW r \in Receivers, DropReceiveNotified(r)
  PROVE  IInv'
<1>1. SlotOver(r)
  BY SlotKinds, ForgottenIsOver DEF DropReceiveNotified
<1>2. /\ SlotsTyped' /\ receive_waiters' \in Seq(Receivers)
      /\ QueuesHoldWaiters' /\ StoredWakerIsLatest' /\ DequeuedIsWoken'
  BY <1>1, SlotKinds, ValuesAfter, NotifyInv DEF DropReceiveNotified
<1>3. TypeOK'
  BY <1>2 DEF IInv, TypeOK, SlotsTyped, DropReceiveNotified
<1>4. SendersWaitWhenFull' /\ NeverPanics'
  BY DEF IInv, SendersWaitWhenFull, NeverPanics, DropReceiveNotified
<1> QED
  BY <1>2, <1>3, <1>4 DEF IInv

-----------------------------------------------------------------------------
(***************************************************************************)
(* The steps that enter a queue or stay in one.                            *)
(***************************************************************************)
LEMMA PollRegisteredInv ==
  ASSUME IInv, NEW x \in Slots, NEW w \in Wakers, PollRegistered(x, w)
  PROVE  IInv'
<1>1. UpdateWakerRef(task[x], w) = w
  BY DEF UpdateWakerRef
<1> USE <1>1, SlotKinds DEF IInv, PollRegistered, Remember, Idle
<1>2. TypeOK'
  <2>1. /\ task' \in [Slots -> OptWaker] /\ latest' \in [Slots -> OptWaker]
        /\ woken' \in SUBSET Slots
    BY DEF TypeOK, OptWaker
  <2>2. \A y \in Slots : task'[y] \in Wakers <=> state'[y] = "Registered"
    BY DEF TypeOK
  <2> QED
    BY <2>1, <2>2 DEF TypeOK
<1>3. QueuesHoldWaiters' /\ SendersWaitWhenFull' /\ NeverPanics'
  BY DEF QueuesHoldWaiters, SendersWaitWhenFull, NeverPanics
<1>4. StoredWakerIsLatest'
  BY DEF TypeOK, StoredWakerIsLatest
<1>5. DequeuedIsWoken'
  BY DEF TypeOK, DequeuedIsWoken, Polled
<1> QED
  BY <1>2, <1>3, <1>4, <1>5

LEMMA ReceiveWaitsInv ==
  ASSUME IInv, NEW r \in Receivers, NEW w \in Wakers, Idle(r),
         state[r] # "Registered",
         ReceiveWaits(r, w), UNCHANGED <<capacity, is_closed>>
  PROVE  IInv'
<1>1. r \notin Nodes(receive_waiters)
  BY DEF IInv, QueuesHoldWaiters
<1>2. /\ receive_waiters' \in Seq(Receivers) /\ Distinct(receive_waiters')
      /\ Nodes(receive_waiters') = Nodes(receive_waiters) \cup {r}
  <2>1. receive_waiters \in Seq(Receivers) /\ Distinct(receive_waiters)
    BY DEF IInv, TypeOK, QueuesHoldWaiters
  <2>2. receive_waiters' = AddFront(receive_waiters, r)
    BY DEF ReceiveWaits
  <2>3. /\ AddFront(receive_waiters, r) \in Seq(Receivers)
        /\ Nodes(AddFront(receive_waiters, r)) = Nodes(receive_waiters) \cup {r}
    BY <2>1, AddFrontProperties
  <2>4. Distinct(AddFront(receive_waiters, r))
    BY <1>1, <2>1, AddFrontProperties
  <2> QED
    BY <2>2, <2>3, <2>4
<1> USE SlotKinds DEF IInv, ReceiveWaits, Remember, Idle
<1>3. TypeOK'
  <2>1. /\ state' \in [Slots -> SendPollState \cup RecvPollState]
        /\ \A s \in Senders : state'[s] \in SendPollState
        /\ \A q \in Receivers : state'[q] \in RecvPollState
    BY DEF TypeOK, SendPollState, RecvPollState
  <2>2. \A s \in Senders : state'[s] = state[s]
    BY DEF TypeOK
  <2>3. /\ task' \in [Slots -> OptWaker]
        /\ \A y \in Slots : task'[y] \in Wakers <=> state'[y] = "Registered"
    BY DEF TypeOK, OptWaker
  <2>4. latest' \in [Slots -> OptWaker] /\ woken' \in SUBSET Slots
    BY DEF TypeOK, OptWaker
  <2> QED
    BY <1>2, <2>1, <2>2, <2>3, <2>4 DEF TypeOK
<1>4. QueuesHoldWaiters'
  <2>1. Nodes(receive_waiters)' = {q \in Receivers : state[q] = "Registered"}'
    BY <1>2 DEF TypeOK, QueuesHoldWaiters
  <2>2. Nodes(send_waiters)' = {s \in Senders : state[s] = "Registered"}'
    BY DEF TypeOK, QueuesHoldWaiters
  <2> QED
    BY <1>2, <2>1, <2>2 DEF QueuesHoldWaiters
<1>5. SendersWaitWhenFull' /\ NeverPanics'
  BY DEF SendersWaitWhenFull, NeverPanics
<1>6. StoredWakerIsLatest'
  BY DEF TypeOK, StoredWakerIsLatest
<1>7. DequeuedIsWoken'
  BY DEF TypeOK, DequeuedIsWoken, Polled
<1> QED
  BY <1>3, <1>4, <1>5, <1>6, <1>7

(***************************************************************************)
(* The send that waits: it enters its queue and notifies a receiver.       *)
(***************************************************************************)
LEMMA SendWaitsInv ==
  ASSUME IInv, NEW s \in Senders, NEW w \in Wakers, Idle(s),
         state[s] = "Unregistered",
         SendWaits(s, w), UNCHANGED <<capacity, is_closed, received>>
  PROVE  IInv'
<1> DEFINE r == PeekLast(receive_waiters)
           st == [state EXCEPT ![s] = "Registered"]
           tk == [task EXCEPT ![s] = w]
<1>1. /\ send_waiters' \in Seq(Senders) /\ Distinct(send_waiters')
      /\ Nodes(send_waiters') = Nodes(send_waiters) \cup {s}
  <2>1. /\ send_waiters \in Seq(Senders) /\ Distinct(send_waiters)
        /\ s \notin Nodes(send_waiters)
    BY DEF IInv, TypeOK, QueuesHoldWaiters
  <2>2. send_waiters' = AddFront(send_waiters, s)
    BY DEF SendWaits
  <2>3. /\ AddFront(send_waiters, s) \in Seq(Senders)
        /\ Nodes(AddFront(send_waiters, s)) = Nodes(send_waiters) \cup {s}
    BY <2>1, AddFrontProperties
  <2>4. Distinct(AddFront(send_waiters, s))
    BY <2>1, AddFrontProperties
  <2> QED
    BY <2>2, <2>3, <2>4
<1>2. ~IsEmpty(receive_waiters) => r \in Receivers /\ r # s /\ tk[r] = task[r]
                                   /\ task[r] \in Wakers
  BY OldestReceiver, SlotKinds DEF IInv, TypeOK
<1>3. /\ receive_waiters' \in Seq(Receivers) /\ Distinct(receive_waiters')
      /\ Nodes(receive_waiters') =
           IF IsEmpty(receive_waiters) THEN Nodes(receive_waiters)
                                       ELSE Nodes(receive_waiters) \ {r}
  BY OldestReceiver
  DEF SendWaits, ReturnOldestReceiveWaiter, IInv, TypeOK, QueuesHoldWaiters
<1>4. state' = IF IsEmpty(receive_waiters) THEN st
                                           ELSE [st EXCEPT ![r] = "Notified"]
  BY DEF SendWaits, ReturnOldestReceiveWaiter
<1>5. task' = IF IsEmpty(receive_waiters) THEN tk
                                          ELSE [tk EXCEPT ![r] = NoWaker]
  BY DEF SendWaits, ReturnOldestReceiveWaiter
<1>6. in_hand' = IF IsEmpty(receive_waiters) THEN in_hand
                 ELSE [in_hand EXCEPT ![s] = task[r]]
  BY <1>2 DEF SendWaits, ReturnOldestReceiveWaiter
<1>7. ~is_closed /\ Len(buffer) = capacity
  BY DEF SendWaits, CanPush
<1>8. /\ latest' = [latest EXCEPT ![s] = w] /\ woken' = woken \ {s}
      /\ UNCHANGED <<capacity, is_closed, received, buffer, value, panicked>>
  BY DEF SendWaits, Remember
<1> USE SlotKinds DEF IInv
<1>9. TypeOK'
  <2>1. /\ state' \in [Slots -> SendPollState \cup RecvPollState]
        /\ \A t \in Senders : state'[t] \in SendPollState
        /\ \A q \in Receivers : state'[q] \in RecvPollState
    BY <1>2, <1>4 DEF TypeOK, SendPollState, RecvPollState
  <2>2. \A t \in Senders : state'[t] = IF t = s THEN "Registered" ELSE state[t]
    BY <1>2, <1>4 DEF TypeOK
  <2>3. \A t \in Senders :
          value'[t] \in Values <=> state'[t] \in {"Unregistered", "Registered"}
    BY <1>8, <2>2 DEF TypeOK
  <2>4. task' \in [Slots -> OptWaker]
    BY <1>2, <1>5 DEF TypeOK, OptWaker
  <2>5. \A y \in Slots : task'[y] \in Wakers <=> state'[y] = "Registered"
    BY <1>2, <1>4, <1>5, WakersAssumption DEF TypeOK
  <2>6. in_hand' \in [Slots -> OptWaker]
    BY <1>2, <1>6 DEF TypeOK, OptWaker
  <2>7. latest' \in [Slots -> OptWaker] /\ woken' \in SUBSET Slots
    BY <1>8 DEF TypeOK, OptWaker
  <2> QED
    BY <1>1, <1>3, <1>8, <2>1, <2>3, <2>4, <2>5, <2>6, <2>7 DEF TypeOK
<1>10. QueuesHoldWaiters'
  <2>1. Nodes(receive_waiters)' = {q \in Receivers : state[q] = "Registered"}'
    BY <1>2, <1>3, <1>4 DEF TypeOK, QueuesHoldWaiters
  <2>2. Nodes(send_waiters)' = {t \in Senders : state[t] = "Registered"}'
    BY <1>1, <1>2, <1>4 DEF TypeOK, QueuesHoldWaiters
  <2> QED
    BY <1>1, <1>3, <1>7, <1>8, <2>1, <2>2 DEF QueuesHoldWaiters
<1>11. SendersWaitWhenFull' /\ NeverPanics'
  BY <1>7, <1>8 DEF SendersWaitWhenFull, NeverPanics
<1>12. StoredWakerIsLatest'
  BY <1>2, <1>4, <1>5, <1>8 DEF TypeOK, StoredWakerIsLatest
<1>13. DequeuedIsWoken'
  <2> SUFFICES ASSUME NEW x \in Slots, Polled(x)', state'[x] # "Registered"
               PROVE  x \in woken' \/ \E y \in Slots : in_hand'[y] = latest'[x]
    BY DEF DequeuedIsWoken
  <2>1. x # s
    BY <1>2, <1>4 DEF TypeOK
  <2>2. CASE ~IsEmpty(receive_waiters) /\ x = r
    <3>1. latest'[x] = task[r] /\ in_hand'[s] = task[r]
      BY <1>6, <1>8, <2>1, <2>2, OldestReceiver DEF TypeOK
    <3> QED
      BY <3>1
  <2>3. CASE IsEmpty(receive_waiters) \/ x # r
    <3>1. /\ state'[x] = state[x] /\ latest'[x] = latest[x]
          /\ x \in woken => x \in woken'
      BY <1>4, <1>8, <2>1, <2>3 DEF TypeOK
    <3>2. x \in woken \/ \E y \in Slots : in_hand[y] = latest[x]
      BY <3>1 DEF Polled, DequeuedIsWoken
    <3>3. ASSUME NEW y \in Slots, in_hand[y] = latest[x]
          PROVE  in_hand'[y] = latest'[x]
      BY <1>6, <3>1, <3>3 DEF Polled, Idle, TypeOK
    <3> QED
      BY <3>1, <3>2, <3>3
  <2> QED
    BY <2>2, <2>3
<1> QED
  BY <1>9, <1>10, <1>11, <1>12, <1>13

-----------------------------------------------------------------------------
(***************************************************************************)
(* The steps that leave a queue: a waiting future is cancelled or dropped. *)
(***************************************************************************)
LEMMA CancelWaitingSendInv ==
  ASSUME IInv, NEW s \in Senders, CancelSend(s), state[s] = "Registered"
  PROVE  IInv'
<1>1. /\ send_waiters \in Seq(Senders) /\ Distinct(send_waiters) /\ IsLinked(send_waiters, s)
      /\ state[s] = "Registered"
  BY IsLinkedNodes DEF CancelSend, IInv, TypeOK, QueuesHoldWaiters
<1>2. /\ Remove(send_waiters, s) \in Seq(Senders)
      /\ Distinct(Remove(send_waiters, s))
      /\ Nodes(Remove(send_waiters, s)) = Nodes(send_waiters) \ {s}
  BY <1>1, RemoveProperties
<1>3. send_waiters' = Remove(send_waiters, s) /\ panicked' = panicked
  BY <1>1 DEF CancelSend, RemovalPanics, IInv, TypeOK, NeverPanics
<1> USE SlotKinds DEF IInv, CancelSend, Retired, NoTask, Forget, Idle
<1>4. TypeOK'
  <2>1. /\ state' \in [Slots -> SendPollState \cup RecvPollState]
        /\ \A t \in Senders : state'[t] \in SendPollState
        /\ \A p \in Receivers : state'[p] \in RecvPollState
    BY DEF TypeOK, SendPollState, RecvPollState
  <2>2. value' \in [Senders -> Values \cup {NoValue}]
    BY DEF TypeOK
  <2>3. \A t \in Senders :
          value'[t] \in Values <=> state'[t] \in {"Unregistered", "Registered"}
    BY ChannelAssumption DEF TypeOK
  <2>4. /\ task' \in [Slots -> OptWaker]
        /\ \A y \in Slots : task'[y] \in Wakers <=> state'[y] = "Registered"
    BY WakersAssumption DEF TypeOK, OptWaker
  <2>5. latest' \in [Slots -> OptWaker] /\ woken' \in SUBSET Slots
    BY DEF TypeOK, OptWaker
  <2> QED
    BY <1>2, <1>3, <2>1, <2>2, <2>3, <2>4, <2>5 DEF TypeOK
<1>5. QueuesHoldWaiters'
  <2>1. Nodes(send_waiters)' = {y \in Senders : state[y] = "Registered"}'
    BY <1>2, <1>3 DEF TypeOK, QueuesHoldWaiters
  <2>2. Nodes(receive_waiters)' = {y \in Receivers : state[y] = "Registered"}'
    BY DEF TypeOK, QueuesHoldWaiters
  <2>3. ~is_closed
    BY <1>1 DEF QueuesHoldWaiters, IsEmpty, IsLinked
  <2> QED
    BY <1>2, <1>3, <2>1, <2>2, <2>3 DEF QueuesHoldWaiters
<1>6. SendersWaitWhenFull' /\ NeverPanics'
  BY <1>1, <1>3 DEF SendersWaitWhenFull, NeverPanics, IsEmpty, IsLinked
<1>7. StoredWakerIsLatest'
  BY DEF TypeOK, StoredWakerIsLatest
<1>8. DequeuedIsWoken'
  BY DEF TypeOK, DequeuedIsWoken, Polled
<1> QED
  BY <1>4, <1>5, <1>6, <1>7, <1>8

LEMMA DropReceiveLinkedInv ==
  ASSUME IInv, NEW r \in Receivers, DropReceiveLinked(r)
  PROVE  IInv'
<1>1. /\ receive_waiters \in Seq(Receivers) /\ Distinct(receive_waiters) /\ IsLinked(receive_waiters, r)
      /\ state[r] = "Registered"
  BY IsLinkedNodes DEF DropReceiveLinked, IInv, TypeOK, QueuesHoldWaiters
<1>2. /\ Remove(receive_waiters, r) \in Seq(Receivers)
      /\ Distinct(Remove(receive_waiters, r))
      /\ Nodes(Remove(receive_waiters, r)) = Nodes(receive_waiters) \ {r}
  BY <1>1, RemoveProperties
<1>3. receive_waiters' = Remove(receive_waiters, r) /\ panicked' = panicked
  BY <1>1 DEF DropReceiveLinked, RemovalPanics, IInv, TypeOK, NeverPanics
<1> USE SlotKinds DEF IInv, DropReceiveLinked, Retired, NoTask, Forget, Idle
<1>4. TypeOK'
  <2>1. /\ state' \in [Slots -> SendPollState \cup RecvPollState]
        /\ \A t \in Senders : state'[t] \in SendPollState
        /\ \A p \in Receivers : state'[p] \in RecvPollState
    BY DEF TypeOK, SendPollState, RecvPollState
  <2>2. value' \in [Senders -> Values \cup {NoValue}]
    BY DEF TypeOK
  <2>3. \A t \in Senders :
          value'[t] \in Values <=> state'[t] \in {"Unregistered", "Registered"}
    BY ChannelAssumption DEF TypeOK
  <2>4. /\ task' \in [Slots -> OptWaker]
        /\ \A y \in Slots : task'[y] \in Wakers <=> state'[y] = "Registered"
    BY WakersAssumption DEF TypeOK, OptWaker
  <2>5. latest' \in [Slots -> OptWaker] /\ woken' \in SUBSET Slots
    BY DEF TypeOK, OptWaker
  <2> QED
    BY <1>2, <1>3, <2>1, <2>2, <2>3, <2>4, <2>5 DEF TypeOK
<1>5. QueuesHoldWaiters'
  <2>1. Nodes(receive_waiters)' = {y \in Receivers : state[y] = "Registered"}'
    BY <1>2, <1>3 DEF TypeOK, QueuesHoldWaiters
  <2>2. Nodes(send_waiters)' = {y \in Senders : state[y] = "Registered"}'
    BY DEF TypeOK, QueuesHoldWaiters
  <2>3. ~is_closed
    BY <1>1 DEF QueuesHoldWaiters, IsEmpty, IsLinked
  <2> QED
    BY <1>2, <1>3, <2>1, <2>2, <2>3 DEF QueuesHoldWaiters
<1>6. SendersWaitWhenFull' /\ NeverPanics'
  BY <1>1, <1>3 DEF SendersWaitWhenFull, NeverPanics, IsEmpty, IsLinked
<1>7. StoredWakerIsLatest'
  BY DEF TypeOK, StoredWakerIsLatest
<1>8. DequeuedIsWoken'
  BY DEF TypeOK, DequeuedIsWoken, Polled
<1> QED
  BY <1>4, <1>5, <1>6, <1>7, <1>8

(***************************************************************************)
(* Closing: everybody in a queue leaves it, and is woken by the waker of   *)
(* its latest poll, which is the one its node holds.                       *)
(***************************************************************************)
LEMMA CloseInv ==
  ASSUME IInv, Close
  PROVE  IInv'
<1> DEFINE drained == Nodes(receive_waiters) \cup Nodes(send_waiters)
<1>1. drained = {x \in Slots : state[x] = "Registered"}
  BY DEF IInv, QueuesHoldWaiters, Slots
<1>2. drained \subseteq woken'
  <2> SUFFICES ASSUME NEW x \in drained  PROVE x \in woken'
    OBVIOUS
  <2>1. latest[x] = task[x] /\ x \in Slots /\ state[x] # "Done"
    BY <1>1 DEF IInv, StoredWakerIsLatest
  <2>2. x \in WokenBy(task[x], {y \in Slots : state[y] # "Done"}, latest)
    BY <2>1 DEF WokenBy
  <2> QED
    BY <2>2 DEF Close
<1>3. /\ woken \subseteq woken' /\ woken' \subseteq Slots
      /\ state' = [x \in Slots |-> IF x \in drained THEN "Unregistered"
                                                    ELSE state[x]]
      /\ task' = [x \in Slots |-> IF x \in drained THEN NoWaker ELSE task[x]]
  BY DEF Close, WokenBy, IInv, TypeOK
<1>4. /\ is_closed' = TRUE /\ receive_waiters' = << >> /\ send_waiters' = << >>
      /\ UNCHANGED <<capacity, buffer, value, in_hand, latest, received, panicked>>
  BY DEF Close
<1> HIDE DEF drained
<1> USE SlotKinds DEF IInv
<1>5. TypeOK'
  <2>1. /\ state' \in [Slots -> SendPollState \cup RecvPollState]
        /\ \A s \in Senders : state'[s] \in SendPollState
        /\ \A r \in Receivers : state'[r] \in RecvPollState
    BY <1>3 DEF TypeOK, SendPollState, RecvPollState
  <2>2. \A s \in Senders :
          value'[s] \in Values <=> state'[s] \in {"Unregistered", "Registered"}
    BY <1>1, <1>3, <1>4 DEF TypeOK
  <2>3. /\ task' \in [Slots -> OptWaker]
        /\ \A x \in Slots : task'[x] \in Wakers <=> state'[x] = "Registered"
    BY <1>1, <1>3, WakersAssumption DEF TypeOK, OptWaker
  <2>4. receive_waiters' \in Seq(Receivers) /\ send_waiters' \in Seq(Senders)
    BY <1>4
  <2> QED
    BY <1>3, <1>4, <2>1, <2>2, <2>3, <2>4 DEF TypeOK
<1>6. QueuesHoldWaiters'
  <2>1. Nodes(receive_waiters)' = {} /\ Nodes(send_waiters)' = {}
    BY <1>4 DEF Nodes
  <2>2. Distinct(receive_waiters)' /\ Distinct(send_waiters)'
    BY <1>4 DEF Distinct
  <2>3. \A x \in Slots : state'[x] # "Registered"
    BY <1>1, <1>3
  <2> QED
    BY <1>4, <2>1, <2>2, <2>3 DEF QueuesHoldWaiters, IsEmpty
<1>7. SendersWaitWhenFull' /\ NeverPanics'
  BY <1>4 DEF SendersWaitWhenFull, NeverPanics, IsEmpty
<1>8. StoredWakerIsLatest'
  BY <1>1, <1>3, <1>4 DEF TypeOK, StoredWakerIsLatest
<1>9. DequeuedIsWoken'
  BY <1>1, <1>2, <1>3, <1>4 DEF DequeuedIsWoken, Polled
<1> QED
  BY <1>5, <1>6, <1>7, <1>8, <1>9

(***************************************************************************)
(* Waking what a call returned: every future that waited for this waker is *)
(* woken at once, so letting go of it loses nothing.                       *)
(***************************************************************************)
LEMMA WakeInHandInv ==
  ASSUME IInv, NEW x \in Slots, WakeInHand(x)
  PROVE  IInv'
<1> USE DEF IInv, WakeInHand
<1>1. TypeOK'
  BY DEF TypeOK, OptWaker, WokenBy
<1>2. QueuesHoldWaiters' /\ SendersWaitWhenFull' /\ NeverPanics' /\ StoredWakerIsLatest'
  BY DEF QueuesHoldWaiters, SendersWaitWhenFull, NeverPanics, StoredWakerIsLatest
<1>3. DequeuedIsWoken'
  <2> SUFFICES ASSUME NEW y \in Slots, Polled(y), state[y] # "Registered"
               PROVE  y \in woken' \/ \E z \in Slots : in_hand'[z] = latest[y]
    BY DEF DequeuedIsWoken, Polled
  <2>1. CASE latest[y] = in_hand[x]
    BY <2>1 DEF Polled, WokenBy
  <2>2. CASE latest[y] # in_hand[x]
    BY <2>2 DEF TypeOK, DequeuedIsWoken
  <2> QED
    BY <2>1, <2>2
<1> QED
  BY <1>1, <1>2, <1>3

-----------------------------------------------------------------------------
LEMMA InitInv == Init => IInv
<1> SUFFICES ASSUME Init  PROVE IInv
  OBVIOUS
<1> USE DEF Init
<1>1. TypeOK
  <2>1. /\ buffer \in Seq(Values) /\ receive_waiters \in Seq(Receivers)
        /\ send_waiters \in Seq(Senders) /\ capacity \in Capacities
    OBVIOUS
  <2>2. /\ state \in [Slots -> SendPollState \cup RecvPollState]
        /\ \A s \in Senders : state[s] \in SendPollState
        /\ \A r \in Receivers : state[r] \in RecvPollState
    BY SlotKinds DEF SendPollState, RecvPollState
  <2>3. /\ value \in [Senders -> Values \cup {NoValue}]
        /\ \A s \in Senders :
             value[s] \in Values <=> state[s] \in {"Unregistered", "Registered"}
    BY SlotKinds, ChannelAssumption
  <2>4. /\ task \in [Slots -> OptWaker]
        /\ \A x \in Slots : task[x] \in Wakers <=> state[x] = "Registered"
    BY WakersAssumption DEF OptWaker
  <2>5. /\ in_hand \in [Slots -> OptWaker] /\ latest \in [Slots -> OptWaker]
        /\ woken \in SUBSET Slots
    BY DEF OptWaker
  <2>6. /\ is_closed \in BOOLEAN /\ panicked \in BOOLEAN
        /\ received \in Values \cup {NoValue}
    OBVIOUS
  <2> HIDE DEF Init
  <2> QED
    BY <2>1, <2>2, <2>3, <2>4, <2>5, <2>6 DEF TypeOK
<1>2. QueuesHoldWaiters
  BY SlotKinds DEF QueuesHoldWaiters, Nodes, Distinct, IsEmpty
<1>3. SendersWaitWhenFull /\ NeverPanics /\ StoredWakerIsLatest /\ DequeuedIsWoken
  BY ChannelAssumption
  DEF SendersWaitWhenFull, NeverPanics, StoredWakerIsLatest, DequeuedIsWoken,
      Polled, IsEmpty
<1> QED
  BY <1>1, <1>2, <1>3 DEF IInv

LEMMA StutterInv ==
  ASSUME IInv, UNCHANGED vars
  PROVE  IInv'
  BY DEF vars, IInv, TypeOK, QueuesHoldWaiters, SendersWaitWhenFull, NeverPanics,
         StoredWakerIsLatest, DequeuedIsWoken, Polled

LEMMA NextInv ==
  ASSUME IInv, Next
  PROVE  IInv'
<1>1. ASSUME NEW s \in Senders, NEW v \in Values, Send(s, v) \/ TrySend(s, v)
      PROVE  IInv'
  BY <1>1, SendInv, TrySendInv
<1>2. ASSUME NEW s \in Senders, NEW w \in Wakers, PollSend(s, w)  PROVE IInv'
  <2>1. CASE PollSendUnregistered(s, w)
    BY <2>1, QuietEnds, SendWaitsInv, SendStoresInv DEF PollSendUnregistered
  <2>2. CASE PollRegistered(s, w)
    BY <2>2, SlotKinds, PollRegisteredInv
  <2>3. CASE PollSendComplete(s)
    BY <2>3, QuietEnds
  <2> QED
    BY <1>2, <2>1, <2>2, <2>3 DEF PollSend
<1>3. ASSUME NEW s \in Senders, CancelSend(s)  PROVE IInv'
  BY <1>3, QuietEnds, CancelWaitingSendInv
<1>4. ASSUME NEW r \in Receivers, Receive(r) \/ TryReceive(r)  PROVE IInv'
  BY <1>4, ReceiveInv, TryReceiveInv
<1>5. ASSUME NEW r \in Receivers, NEW w \in Wakers, PollReceive(r, w)  PROVE IInv'
  <2>1. CASE PollReceiveUnlinked(r, w)
    BY <2>1, QuietEnds, ReceiveObtainsInv, ReceiveWaitsInv DEF PollReceiveUnlinked
  <2>2. CASE PollRegistered(r, w)
    BY <2>2, SlotKinds, PollRegisteredInv
  <2> QED
    BY <1>5, <2>1, <2>2 DEF PollReceive
<1>6. ASSUME NEW r \in Receivers, DropReceive(r)  PROVE IInv'
  BY <1>6, QuietEnds, DropReceiveLinkedInv, DropReceiveNotifiedInv DEF DropReceive
<1>7. ASSUME NEW x \in Slots, WakeInHand(x)  PROVE IInv'
  BY <1>7, WakeInHandInv
<1> QED
  BY <1>1, <1>2, <1>3, <1>4, <1>5, <1>6, <1>7, CloseInv DEF Next

(***************************************************************************)
(* The inductive invariant holds in every state of the channel.            *)
(***************************************************************************)
THEOREM Invariance == Spec => []IInv
<1>1. IInv /\ [Next]_vars => IInv'
  BY NextInv, StutterInv
<1> QED
  BY <1>1, InitInv, PTL DEF Spec, SafetySpec

(***************************************************************************)
(* The types are preserved: in particular a node holds a waker exactly     *)
(* while it is in a queue, and a send node its value until the send has    *)
(* completed or failed.                                                    *)
(***************************************************************************)
THEOREM TypeCorrect == Spec => []TypeOK
<1>1. IInv => TypeOK
  BY DEF IInv
<1> QED
  BY <1>1, Invariance, PTL

(***************************************************************************)
(* The two intrusive lists hold exactly the registered futures, so none    *)
(* that was dropped or has resolved, and close leaves nobody in them.      *)
(***************************************************************************)
THEOREM QueuesAreSound == Spec => []QueuesHoldWaiters
<1>1. IInv => QueuesHoldWaiters
  BY DEF IInv
<1> QED
  BY <1>1, Invariance, PTL

(***************************************************************************)
(* A sender waits only while the buffer is full: every receive that makes  *)
(* room refills it from the oldest waiting sender.                         *)
(***************************************************************************)
THEOREM WaitOnlyWhenFull == Spec => []SendersWaitWhenFull
<1>1. IInv => SendersWaitWhenFull
  BY DEF IInv
<1> QED
  BY <1>1, Invariance, PTL

(***************************************************************************)
(* No expect, assertion or forced removal of the channel fails, whatever   *)
(* the order of sends, receives, cancellations and close.                  *)
(***************************************************************************)
THEOREM PanicFree == Spec => []NeverPanics
<1>1. IInv => NeverPanics
  BY DEF IInv
<1> QED
  BY <1>1, Invariance, PTL

(***************************************************************************)
(* A future that another call took out of its queue is woken by the waker  *)
(* of its latest poll, even when it moved between tasks while it waited.   *)
(***************************************************************************)
THEOREM NoLostWakeup == Spec => []DequeuedIsWoken
<1>1. IInv => DequeuedIsWoken
  BY DEF IInv
<1> QED
  BY <1>1, Invariance, PTL

-----------------------------------------------------------------------------
(***************************************************************************)
(* A stream makes a receive future and polls it in the same call: a step   *)
(* of the channel that its own Next has in two.                            *)
(***************************************************************************)
ReceiveFresh(r, w) ==
  /\ Idle(r) /\ state[r] = "Done"
  /\ ReceiveObtains(r) \/ ReceiveFailsClosed(r) \/ ReceiveWaits(r, w)
  /\ UNCHANGED <<capacity, is_closed>>

ChannelStep == Next \/ \E r \in Receivers, w \in Wakers : ReceiveFresh(r, w)

LEMMA ChannelStepInv ==
  ASSUME IInv, ChannelStep
  PROVE  IInv'
<1>1. ASSUME NEW r \in Receivers, NEW w \in Wakers, ReceiveFresh(r, w)
      PROVE  IInv'
  BY <1>1, QuietEnds, ReceiveObtainsInv, ReceiveWaitsInv DEF ReceiveFresh
<1> QED
  BY <1>1, NextInv DEF ChannelStep

-----------------------------------------------------------------------------
(***************************************************************************)
(* Values and notified receivers.  A step keeps ValuesAnnounced when no    *)
(* receiver begins to wait in it and it makes at least as many receivers   *)
(* notified as it makes values available.                                  *)
(***************************************************************************)
LEMMA NotifiedFinite ==
  IsFiniteSet(NotifiedReceivers) /\ Cardinality(NotifiedReceivers) \in Nat
  BY ChannelAssumption, FS_Subset, FS_CardinalityType DEF NotifiedReceivers

LEMMA BalancedStep ==
  ASSUME IInv, IInv', ValuesAnnounced,
         IsEmpty(receive_waiters) => IsEmpty(receive_waiters'),
         ~IsEmpty(receive_waiters) =>
           \E n, m \in Nat :
             /\ Len(buffer') + Len(send_waiters') + m
                  = Len(buffer) + Len(send_waiters) + n
             /\ Cardinality(NotifiedReceivers') + m
                  >= Cardinality(NotifiedReceivers) + n
  PROVE  ValuesAnnounced'
<1> SUFFICES ASSUME ~IsEmpty(receive_waiters')
             PROVE  Cardinality(NotifiedReceivers')
                      >= Len(buffer') + Len(send_waiters')
  BY DEF ValuesAnnounced
<1>1. PICK n, m \in Nat :
        /\ Len(buffer') + Len(send_waiters') + m
             = Len(buffer) + Len(send_waiters) + n
        /\ Cardinality(NotifiedReceivers') + m
             >= Cardinality(NotifiedReceivers) + n
  OBVIOUS
<1>2. Cardinality(NotifiedReceivers) \in Nat
      /\ Cardinality(NotifiedReceivers') \in Nat
  BY NotifiedFinite, ChannelAssumption, FS_Subset, FS_CardinalityType
  DEF NotifiedReceivers
<1>3. Len(buffer) \in Nat /\ Len(send_waiters) \in Nat
      /\ Len(buffer') \in Nat /\ Len(send_waiters') \in Nat
  BY LenProperties DEF IInv, TypeOK
<1>4. Cardinality(NotifiedReceivers) >= Len(buffer) + Len(send_waiters)
  BY DEF ValuesAnnounced
<1>5. PICK c \in Nat : c = Cardinality(NotifiedReceivers')
  BY <1>2
<1>6. PICK l \in Nat : l = Len(buffer') + Len(send_waiters')
  BY <1>3
<1>7. PICK d \in Nat : d = Cardinality(NotifiedReceivers)
  BY <1>2
<1>8. PICK k \in Nat : k = Len(buffer) + Len(send_waiters)
  BY <1>3
<1>9. l + m = k + n /\ c + m >= d + n /\ d >= k
  BY <1>1, <1>4, <1>5, <1>6, <1>7, <1>8
<1>10. c >= l
  BY <1>9
<1> QED
  BY <1>5, <1>6, <1>10

(* The step changes neither the values nor the receivers. *)
LEMMA QuietStep ==
  ASSUME IInv, IInv', ValuesAnnounced,
         IsEmpty(receive_waiters) => IsEmpty(receive_waiters'),
         buffer' = buffer, send_waiters' = send_waiters,
         \A r \in Receivers : state'[r] = "Notified" <=> state[r] = "Notified"
  PROVE  ValuesAnnounced'
<1>1. NotifiedReceivers' = NotifiedReceivers
  BY DEF NotifiedReceivers
<1>2. Cardinality(NotifiedReceivers) \in Nat
  BY NotifiedFinite
<1>3. Len(buffer) \in Nat /\ Len(send_waiters) \in Nat
  BY LenProperties DEF IInv, TypeOK
<1>4. /\ Len(buffer') + Len(send_waiters') + 0
           = Len(buffer) + Len(send_waiters) + 0
      /\ Cardinality(NotifiedReceivers') + 0
           >= Cardinality(NotifiedReceivers) + 0
  BY <1>1, <1>2, <1>3
<1> QED
  BY <1>4, BalancedStep

(* A call on slot x notifies the oldest waiting receiver, not that of x. *)
LEMMA NotifyCounts ==
  ASSUME IInv, ~IsEmpty(receive_waiters), NEW x \in Slots,
         state[x] # "Registered" \/ x \in Senders,
         NEW st \in [Slots -> SendPollState \cup RecvPollState], NEW tk,
         st[x] # "Notified", \A r \in Receivers \ {x} : st[r] = state[r],
         ReturnOldestReceiveWaiter(x, st, tk)
  PROVE  Cardinality(NotifiedReceivers')
           = Cardinality(NotifiedReceivers \ {x}) + 1
<1> DEFINE o == PeekLast(receive_waiters)
<1>1. o \in Receivers /\ state[o] = "Registered"
  BY OldestReceiver
<1>2. state' = [st EXCEPT ![o] = "Notified"]
  BY DEF ReturnOldestReceiveWaiter
<1>3. o # x
  BY <1>1, SlotKinds
<1> HIDE DEF o
<1>4. NotifiedReceivers' = (NotifiedReceivers \ {x}) \cup {o}
  BY <1>1, <1>2, <1>3, SlotKinds DEF NotifiedReceivers
<1>5. o \notin NotifiedReceivers \ {x}
  BY <1>1 DEF NotifiedReceivers
<1>6. IsFiniteSet(NotifiedReceivers \ {x})
  BY NotifiedFinite, FS_Subset
<1> QED
  BY <1>4, <1>5, <1>6, FS_AddElement

(* A send on slot s makes a value available and notifies a receiver. *)
LEMMA OfferStep ==
  ASSUME IInv, IInv', ValuesAnnounced, NEW s \in Senders,
         NEW st \in [Slots -> SendPollState \cup RecvPollState], NEW tk,
         st[s] # "Notified", \A r \in Receivers : st[r] = state[r],
         ReturnOldestReceiveWaiter(s, st, tk),
         Len(buffer') + Len(send_waiters') = Len(buffer) + Len(send_waiters) + 1
  PROVE  ValuesAnnounced'
<1>1. IsEmpty(receive_waiters) => IsEmpty(receive_waiters')
  BY DEF ReturnOldestReceiveWaiter
<1>2. ASSUME ~IsEmpty(receive_waiters)
      PROVE  /\ Len(buffer') + Len(send_waiters') + 0
                  = Len(buffer) + Len(send_waiters) + 1
             /\ Cardinality(NotifiedReceivers') + 0
                  >= Cardinality(NotifiedReceivers) + 1
  <2>1. NotifiedReceivers \ {s} = NotifiedReceivers
    BY SlotKinds DEF NotifiedReceivers
  <2>2. Cardinality(NotifiedReceivers') = Cardinality(NotifiedReceivers) + 1
    BY <1>2, <2>1, SlotKinds, NotifyCounts
  <2>3. Len(buffer') \in Nat /\ Len(send_waiters') \in Nat
    BY LenProperties DEF IInv, TypeOK
  <2> QED
    BY <2>2, <2>3, NotifiedFinite
<1> QED
  BY <1>1, <1>2, BalancedStep

(* A receive on slot r takes a value away. *)
LEMMA TakeStep ==
  ASSUME IInv, IInv', ValuesAnnounced, NEW r \in Receivers,
         receive_waiters' = receive_waiters,
         \A p \in Receivers \ {r} : state'[p] = "Notified" <=> state[p] = "Notified",
         Len(buffer') + Len(send_waiters') + 1 = Len(buffer) + Len(send_waiters)
  PROVE  ValuesAnnounced'
<1>1. NotifiedReceivers \ {r} \subseteq NotifiedReceivers'
  BY DEF NotifiedReceivers
<1>2. IsFiniteSet(NotifiedReceivers') /\ Cardinality(NotifiedReceivers') \in Nat
  BY ChannelAssumption, FS_Subset, FS_CardinalityType DEF NotifiedReceivers
<1>3. Cardinality(NotifiedReceivers \ {r}) <= Cardinality(NotifiedReceivers')
  BY <1>1, <1>2, FS_Subset
<1>4. Cardinality(NotifiedReceivers) <= Cardinality(NotifiedReceivers \ {r}) + 1
      /\ Cardinality(NotifiedReceivers \ {r}) \in Nat
  BY NotifiedFinite, FS_RemoveElement, FS_Subset, FS_CardinalityType
<1>5. PICK c \in Nat : c = Cardinality(NotifiedReceivers')
  BY <1>2
<1>6. PICK d \in Nat : d = Cardinality(NotifiedReceivers)
  BY NotifiedFinite
<1>7. PICK e \in Nat : e = Cardinality(NotifiedReceivers \ {r})
  BY <1>4
<1>8. c + 1 >= d + 0
  <2>1. e <= c /\ d <= e + 1
    BY <1>3, <1>4, <1>5, <1>6, <1>7
  <2> QED
    BY <2>1
<1>9. Len(buffer) \in Nat /\ Len(send_waiters) \in Nat
  BY LenProperties DEF IInv, TypeOK
<1>10. Len(buffer') + Len(send_waiters') + 1 = Len(buffer) + Len(send_waiters) + 0
  BY <1>9
<1> QED
  BY <1>5, <1>6, <1>8, <1>10, BalancedStep

(* What try_receive takes: one value, and from no receiver its state. *)
LEMMA ReceiveValueCounts ==
  ASSUME IInv, NEW r \in Receivers, NEW tk,
         NEW st \in [Slots -> SendPollState \cup RecvPollState],
         ReceiveValue(r, st, tk)
  PROVE  /\ Len(buffer') + Len(send_waiters') + 1
              = Len(buffer) + Len(send_waiters)
         /\ \A p \in Receivers : state'[p] = st[p]
<1>0. Len(buffer) \in Nat /\ Len(send_waiters) \in Nat
      /\ buffer \in Seq(Values) /\ send_waiters \in Seq(Senders)
  BY LenProperties DEF IInv, TypeOK
<1>1. ~IsEmpty(send_waiters) => Len(RemoveLast(send_waiters)) = Len(send_waiters) - 1
  BY <1>0, RemoveLastProperties
<1>2. ~IsEmpty(buffer) => Len(Tail(buffer)) = Len(buffer) - 1
                          /\ Tail(buffer) \in Seq(Values)
  BY <1>0, HeadTailProperties DEF IsEmpty
<1>3. ~IsEmpty(send_waiters) =>
        /\ value[PeekLast(send_waiters)] \in Values
        /\ PeekLast(send_waiters) \in Senders
  BY OldestSender
<1>4. \A p \in Receivers : state'[p] = st[p]
  BY <1>3, SlotKinds DEF ReceiveValue, PopValue, TakeFromSender,
                         CompleteOldestSender
<1>5. CASE ~IsEmpty(buffer) /\ IsEmpty(send_waiters)
  <2>1. buffer' = Tail(buffer) /\ send_waiters' = send_waiters
    BY <1>5 DEF ReceiveValue, PopValue, TakeFromSender
  <2> QED
    BY <1>0, <1>2, <1>4, <1>5, <2>1
<1>6. CASE ~IsEmpty(buffer) /\ ~IsEmpty(send_waiters)
  <2> DEFINE v == value[PeekLast(send_waiters)]
             b == Tail(buffer)
  <2>1. buffer' = Append(b, v) /\ send_waiters' = RemoveLast(send_waiters)
    BY <1>6 DEF ReceiveValue, PopValue, TakeFromSender, CompleteOldestSender
  <2>2. v \in Values /\ b \in Seq(Values) /\ Len(b) = Len(buffer) - 1
    BY <1>2, <1>3, <1>6
  <2> HIDE DEF v, b
  <2>3. Len(buffer') = Len(buffer)
    BY <1>0, <2>1, <2>2, AppendProperties
  <2>4. Len(send_waiters') = Len(send_waiters) - 1
    BY <1>1, <1>6, <2>1
  <2>5. Len(buffer') + Len(send_waiters') + 1 = Len(buffer) + Len(send_waiters)
    BY <1>0, <2>3, <2>4
  <2> QED
    BY <1>4, <2>5
<1>7. CASE IsEmpty(buffer)
  <2>1. buffer' = buffer /\ send_waiters' = RemoveLast(send_waiters)
        /\ ~IsEmpty(send_waiters)
    BY <1>7 DEF ReceiveValue, PopValue, TakeFromSender, CompleteOldestSender
  <2> QED
    BY <1>0, <1>1, <1>4, <2>1
<1> QED
  BY <1>5, <1>6, <1>7

(* The steps of the futures. *)
LEMMA ReceivingAnnounced ==
  ASSUME IInv, IInv', ValuesAnnounced, NEW r \in Receivers,
         state[r] # "Registered",
         ReceiveObtains(r) \/ ReceiveFailsClosed(r)
           \/ \E w \in Wakers : ReceiveWaits(r, w)
  PROVE  ValuesAnnounced'
<1>0. /\ state \in [Slots -> SendPollState \cup RecvPollState]
      /\ r \in Slots
      /\ Retired(r) \in [Slots -> SendPollState \cup RecvPollState]
      /\ \A p \in Receivers \ {r} : Retired(r)[p] = state[p]
  BY SlotKinds DEF IInv, TypeOK, Retired, SendPollState
<1>1. CASE ReceiveObtains(r)
  <2>1. /\ Len(buffer') + Len(send_waiters') + 1
             = Len(buffer) + Len(send_waiters)
        /\ \A p \in Receivers : state'[p] = Retired(r)[p]
    BY <1>0, <1>1, ReceiveValueCounts DEF ReceiveObtains
  <2>2. receive_waiters' = receive_waiters
    BY <1>1 DEF ReceiveObtains
  <2> QED
    BY <1>0, <2>1, <2>2, TakeStep
<1>2. CASE ReceiveFailsClosed(r)
  <2>1. IsEmpty(receive_waiters')
    BY <1>2 DEF ReceiveFailsClosed, IInv, QueuesHoldWaiters
  <2> QED
    BY <2>1 DEF ValuesAnnounced
<1>3. ASSUME NEW w \in Wakers, ReceiveWaits(r, w) PROVE ValuesAnnounced'
  <2>1. Len(buffer') + Len(send_waiters') = 0
    BY <1>3 DEF ReceiveWaits, HasValue, IsEmpty
  <2>2. Cardinality(NotifiedReceivers') \in Nat
    BY ChannelAssumption, FS_Subset, FS_CardinalityType DEF NotifiedReceivers
  <2> QED
    BY <2>1, <2>2 DEF ValuesAnnounced
<1> QED
  BY <1>1, <1>2, <1>3

LEMMA SendingAnnounced ==
  ASSUME IInv, IInv', ValuesAnnounced, NEW s \in Senders,
         state[s] = "Unregistered",
         SendFailsClosed(s) \/ SendStores(s) \/ \E w \in Wakers : SendWaits(s, w)
  PROVE  ValuesAnnounced'
<1>0. /\ state \in [Slots -> SendPollState \cup RecvPollState]
      /\ s \in Slots /\ value[s] \in Values
      /\ Len(buffer) \in Nat /\ Len(send_waiters) \in Nat
      /\ buffer \in Seq(Values) /\ send_waiters \in Seq(Senders)
  BY SlotKinds, LenProperties DEF IInv, TypeOK
<1>1. CASE SendFailsClosed(s)
  <2>1. IsEmpty(receive_waiters')
    BY <1>1 DEF SendFailsClosed, IInv, QueuesHoldWaiters
  <2> QED
    BY <2>1 DEF ValuesAnnounced
<1>2. CASE SendStores(s)
  <2>1. /\ Retired(s) \in [Slots -> SendPollState \cup RecvPollState]
        /\ Retired(s)[s] # "Notified"
        /\ \A p \in Receivers : Retired(s)[p] = state[p]
    BY <1>0, SlotKinds DEF Retired, SendPollState
  <2>2. Len(Append(buffer, value[s])) = Len(buffer) + 1
    BY <1>0, AppendProperties
  <2>3. Len(buffer') + Len(send_waiters') = Len(buffer) + Len(send_waiters) + 1
    BY <1>0, <1>2, <2>2 DEF SendStores
  <2> QED
    BY <1>2, <2>1, <2>3, OfferStep DEF SendStores
<1>3. ASSUME NEW w \in Wakers, SendWaits(s, w) PROVE ValuesAnnounced'
  <2> DEFINE st == [state EXCEPT ![s] = "Registered"]
  <2>1. /\ st \in [Slots -> SendPollState \cup RecvPollState]
        /\ st[s] # "Notified" /\ \A p \in Receivers : st[p] = state[p]
    BY <1>0, SlotKinds DEF SendPollState
  <2>2. Len(AddFront(send_waiters, s)) = Len(send_waiters) + 1
    BY <1>0, AddFrontProperties
  <2>3. Len(buffer') + Len(send_waiters') = Len(buffer) + Len(send_waiters) + 1
    BY <1>0, <1>3, <2>2 DEF SendWaits
  <2>4. ReturnOldestReceiveWaiter(s, st, [task EXCEPT ![s] = w])
    BY <1>3 DEF SendWaits
  <2> HIDE DEF st
  <2> QED
    BY <2>1, <2>3, <2>4, OfferStep
<1> QED
  BY <1>1, <1>2, <1>3

(* The other steps: a drop, and what a future's slot or a call does alone. *)
LEMMA DroppingAnnounced ==
  ASSUME IInv, IInv', ValuesAnnounced, NEW r \in Receivers, DropReceive(r)
  PROVE  ValuesAnnounced'
<1>0. /\ state \in [Slots -> SendPollState \cup RecvPollState]
      /\ r \in Slots /\ receive_waiters \in Seq(Receivers)
      /\ Distinct(receive_waiters)
      /\ Retired(r) \in [Slots -> SendPollState \cup RecvPollState]
      /\ Retired(r)[r] = "Done"
      /\ \A p \in Receivers \ {r} : Retired(r)[p] = state[p]
  BY SlotKinds DEF IInv, TypeOK, QueuesHoldWaiters, Retired, SendPollState
<1>1. CASE DropReceiveLinked(r)
  <2>1. ~IsEmpty(receive_waiters)
    <3>1. r \in Nodes(receive_waiters)
      BY <1>1 DEF DropReceiveLinked, IInv, QueuesHoldWaiters
    <3> QED
      BY <1>0, <3>1, EmptyNodes
  <2>2. \A p \in Receivers : state'[p] = "Notified" <=> state[p] = "Notified"
    BY <1>0, <1>1 DEF DropReceiveLinked
  <2> QED
    BY <1>1, <2>1, <2>2, QuietStep DEF DropReceiveLinked
<1>2. CASE DropReceiveUnregistered(r)
  <2>1. \A p \in Receivers : state'[p] = "Notified" <=> state[p] = "Notified"
    BY <1>0, <1>2 DEF DropReceiveUnregistered
  <2> QED
    BY <1>2, <2>1, QuietStep DEF DropReceiveUnregistered
<1>3. CASE DropReceiveNotified(r)
  <2>1. /\ ReturnOldestReceiveWaiter(r, Retired(r), NoTask(r))
        /\ state[r] = "Notified"
        /\ buffer' = buffer /\ send_waiters' = send_waiters
    BY <1>3 DEF DropReceiveNotified
  <2>2. IsEmpty(receive_waiters) => IsEmpty(receive_waiters')
    BY <2>1 DEF ReturnOldestReceiveWaiter
  <2>3. ASSUME ~IsEmpty(receive_waiters)
        PROVE  /\ Len(buffer') + Len(send_waiters') + 0
                    = Len(buffer) + Len(send_waiters) + 0
               /\ Cardinality(NotifiedReceivers') + 0
                    >= Cardinality(NotifiedReceivers) + 0
    <3>1. Cardinality(NotifiedReceivers')
            = Cardinality(NotifiedReceivers \ {r}) + 1
      BY <1>0, <2>1, <2>3, NotifyCounts
    <3>2. r \in NotifiedReceivers
      BY <2>1 DEF NotifiedReceivers
    <3>3. Cardinality(NotifiedReceivers \ {r}) = Cardinality(NotifiedReceivers) - 1
      BY <3>2, NotifiedFinite, FS_RemoveElement
    <3>4. Cardinality(NotifiedReceivers') = Cardinality(NotifiedReceivers)
      BY <3>1, <3>3, NotifiedFinite
    <3> QED
      BY <2>1, <3>4, NotifiedFinite
  <2> QED
    BY <2>2, <2>3, BalancedStep
<1> QED
  BY <1>1, <1>2, <1>3 DEF DropReceive

LEMMA CancellingAnnounced ==
  ASSUME IInv, IInv', ValuesAnnounced, NEW s \in Senders, CancelSend(s)
  PROVE  ValuesAnnounced'
<1>0. /\ state \in [Slots -> SendPollState \cup RecvPollState]
      /\ send_waiters \in Seq(Senders) /\ Distinct(send_waiters)
      /\ buffer \in Seq(Values) /\ buffer' = buffer
      /\ receive_waiters' = receive_waiters
  BY DEF IInv, TypeOK, QueuesHoldWaiters, CancelSend
<1>1. \A p \in Receivers : state'[p] = state[p]
  BY <1>0, SlotKinds DEF CancelSend, Retired
<1>2. CASE state[s] # "Registered"
  <2>1. send_waiters' = send_waiters
    BY <1>2 DEF CancelSend
  <2> QED
    BY <1>0, <1>1, <2>1, QuietStep
<1>3. CASE state[s] = "Registered"
  <2>1. send_waiters' = Remove(send_waiters, s)
    BY <1>3 DEF CancelSend
  <2>2. IsLinked(send_waiters, s)
    BY <1>3, IsLinkedNodes DEF IInv, QueuesHoldWaiters
  <2>3. Len(Remove(send_waiters, s)) = Len(send_waiters) - 1
    BY <1>0, <2>2, RemoveProperties
  <2>4. NotifiedReceivers' = NotifiedReceivers
    BY <1>1 DEF NotifiedReceivers
  <2>5. Len(send_waiters) \in Nat /\ Len(buffer) \in Nat
    BY <1>0, LenProperties
  <2>6. Len(buffer') + Len(send_waiters') + 1 = Len(buffer) + Len(send_waiters) + 0
    BY <1>0, <2>1, <2>3, <2>5
  <2>7. Cardinality(NotifiedReceivers') + 1 >= Cardinality(NotifiedReceivers) + 0
    BY <2>4, NotifiedFinite
  <2> QED
    BY <1>0, <2>6, <2>7, BalancedStep
<1> QED
  BY <1>2, <1>3

LEMMA ChannelStepAnnounced ==
  ASSUME IInv, ValuesAnnounced, ChannelStep
  PROVE  ValuesAnnounced'
<1>0. IInv' /\ state \in [Slots -> SendPollState \cup RecvPollState]
      /\ buffer \in Seq(Values) /\ Len(buffer) \in Nat /\ Len(send_waiters) \in Nat
  BY ChannelStepInv, LenProperties DEF IInv, TypeOK
<1>1. ASSUME NEW s \in Senders, NEW v \in Values, Send(s, v)
      PROVE  ValuesAnnounced'
  <2>1. \A p \in Receivers : state'[p] = state[p]
    BY <1>0, <1>1, SlotKinds DEF Send
  <2> QED
    BY <1>0, <1>1, <2>1, QuietStep DEF Send
<1>2. ASSUME NEW s \in Senders, NEW v \in Values, TrySend(s, v)
      PROVE  ValuesAnnounced'
  <2>1. state[s] # "Notified"
    BY <1>2 DEF TrySend, Unused
  <2>2. Len(Append(buffer, v)) = Len(buffer) + 1
    BY <1>0, AppendProperties
  <2>3. Len(buffer') + Len(send_waiters') = Len(buffer) + Len(send_waiters) + 1
    BY <1>0, <1>2, <2>2 DEF TrySend
  <2> QED
    BY <1>0, <1>2, <2>1, <2>3, OfferStep DEF TrySend
<1>3. ASSUME NEW s \in Senders, NEW w \in Wakers, PollSendUnregistered(s, w)
      PROVE  ValuesAnnounced'
  BY <1>0, <1>3, SendingAnnounced DEF PollSendUnregistered
<1>4. ASSUME NEW x \in Slots, NEW w \in Wakers, PollRegistered(x, w)
      PROVE  ValuesAnnounced'
  BY <1>0, <1>4, QuietStep DEF PollRegistered
<1>5. ASSUME NEW s \in Senders, PollSendComplete(s)
      PROVE  ValuesAnnounced'
  <2>1. \A p \in Receivers : state'[p] = state[p]
    BY <1>0, <1>5, SlotKinds DEF PollSendComplete, Retired
  <2> QED
    BY <1>0, <1>5, <2>1, QuietStep DEF PollSendComplete
<1>6. ASSUME NEW r \in Receivers, Receive(r) PROVE ValuesAnnounced'
  <2>1. \A p \in Receivers : state'[p] = "Notified" <=> state[p] = "Notified"
    BY <1>0, <1>6 DEF Receive, Unused
  <2> QED
    BY <1>0, <1>6, <2>1, QuietStep DEF Receive
<1>7. ASSUME NEW r \in Receivers, TryReceive(r) PROVE ValuesAnnounced'
  <2>1. /\ Len(buffer') + Len(send_waiters') + 1
             = Len(buffer) + Len(send_waiters)
        /\ \A p \in Receivers : state'[p] = state[p]
    BY <1>0, <1>7, ReceiveValueCounts DEF TryReceive
  <2> QED
    BY <1>0, <1>7, <2>1, TakeStep DEF TryReceive
<1>8. ASSUME NEW r \in Receivers, NEW w \in Wakers,
             PollReceiveUnlinked(r, w) \/ ReceiveFresh(r, w)
      PROVE  ValuesAnnounced'
  BY <1>0, <1>8, ReceivingAnnounced DEF PollReceiveUnlinked, ReceiveFresh
<1>9. ASSUME Close PROVE ValuesAnnounced'
  BY <1>9 DEF Close, ValuesAnnounced, IsEmpty
<1>10. ASSUME NEW x \in Slots, WakeInHand(x) PROVE ValuesAnnounced'
  BY <1>0, <1>10, QuietStep DEF WakeInHand
<1> QED
  BY <1>0, <1>1, <1>2, <1>3, <1>4, <1>5, <1>6, <1>7, <1>8, <1>9, <1>10,
     DroppingAnnounced, CancellingAnnounced, SlotKinds
  DEF ChannelStep, Next, PollSend, PollReceive

(***************************************************************************)
(* No value is overlooked: while a receiver sleeps in the queue, at least  *)
(* as many receivers have been notified and are about to poll as there are *)
(* values in the buffer and with waiting senders, whichever of them are    *)
(* cancelled or overtaken by try_receive.                                  *)
(***************************************************************************)
THEOREM NoValueOverlooked == Spec => []ValuesAnnounced
<1>1. Init => IInv /\ ValuesAnnounced
  BY InitInv DEF Init, ValuesAnnounced, IsEmpty
<1>2. IInv /\ ValuesAnnounced /\ [Next]_vars => (IInv /\ ValuesAnnounced)'
  <2>1. ASSUME IInv, ValuesAnnounced, UNCHANGED vars PROVE (IInv /\ ValuesAnnounced)'
    BY <2>1, StutterInv DEF vars, ValuesAnnounced, NotifiedReceivers
  <2> QED
    BY <2>1, ChannelStepInv, ChannelStepAnnounced DEF ChannelStep
<1> QED
  BY <1>1, <1>2, PTL DEF Spec, SafetySpec

-----------------------------------------------------------------------------
(***************************************************************************)
(* The values that the senders in queue q hold in their nodes.             *)
(***************************************************************************)
Offers(q, val) == [i \in 1..Len(q) |-> val[q[i]]]

LEMMA OffersLen ==
  ASSUME NEW S, NEW q \in Seq(S), NEW val
  PROVE  Len(Offers(q, val)) = Len(q)
<1> DEFINE o == Offers(q, val)
           T == {val[q[i]] : i \in 1..Len(q)}
<1>1. Len(q) \in Nat
  BY LenProperties
<1>2. o \in [1..Len(q) -> T]
  BY DEF Offers
<1> HIDE DEF o, T
<1>3. o \in Seq(T)
  BY <1>1, <1>2, SeqDef
<1> QED
  BY <1>1, <1>2, <1>3, LenProperties DEF o

LEMMA OffersTyped ==
  ASSUME NEW S, NEW T, NEW q \in Seq(S), NEW val,
         \A i \in 1..Len(q) : val[q[i]] \in T
  PROVE  Offers(q, val) \in Seq(T)
<1> DEFINE o == Offers(q, val)
<1>1. Len(q) \in Nat
  BY LenProperties
<1>2. o \in [1..Len(q) -> T]
  BY DEF Offers
<1> HIDE DEF o
<1>3. o \in Seq(T)
  BY <1>1, <1>2, SeqDef
<1> QED
  BY <1>3 DEF o

(* Sequences put together, their first element and what is behind it. *)
LEMMA ConcatAppend ==
  ASSUME NEW S, NEW b \in Seq(S), NEW o \in Seq(S), NEW v \in S
  PROVE  b \o Append(o, v) = Append(b \o o, v)
<1>1. <<v>> \in Seq(S) /\ b \o o \in Seq(S)
  BY ConcatProperties
<1> QED
  BY <1>1, AppendIsConcat, ConcatAssociative

LEMMA ConcatHeadTail ==
  ASSUME NEW S, NEW b \in Seq(S), NEW o \in Seq(S), b # << >>
  PROVE  /\ b \o o # << >>
         /\ Head(b \o o) = Head(b)
         /\ Tail(b \o o) = Tail(b) \o o
<1> DEFINE s == b \o o
           t == Tail(b) \o o
<1>1. Len(b) \in Nat \ {0} /\ Len(o) \in Nat
  BY EmptySeq, LenProperties
<1>2. /\ s \in Seq(S) /\ Len(s) = Len(b) + Len(o)
      /\ \A i \in 1..(Len(b) + Len(o)) :
           s[i] = IF i <= Len(b) THEN b[i] ELSE o[i - Len(b)]
  BY ConcatProperties
<1>3. /\ Tail(b) \in Seq(S) /\ Len(Tail(b)) = Len(b) - 1
      /\ \A i \in 1..(Len(b) - 1) : Tail(b)[i] = b[i + 1]
  BY HeadTailProperties
<1>4. /\ t \in Seq(S) /\ Len(t) = Len(b) - 1 + Len(o)
      /\ \A i \in 1..(Len(b) - 1 + Len(o)) :
           t[i] = IF i <= Len(b) - 1 THEN Tail(b)[i] ELSE o[i - (Len(b) - 1)]
  BY <1>3, ConcatProperties
<1> HIDE DEF s, t
<1>5. s # << >>
  BY <1>1, <1>2, EmptySeq
<1>6. Head(s) = Head(b)
  <2>1. s[1] = b[1]
    BY <1>1, <1>2
  <2> QED
    BY <1>2, <1>5, <2>1
<1>7. /\ Tail(s) \in Seq(S) /\ Len(Tail(s)) = Len(b) - 1 + Len(o)
      /\ \A i \in 1..(Len(b) - 1 + Len(o)) : Tail(s)[i] = s[i + 1]
  BY <1>1, <1>2, <1>5, HeadTailProperties
<1>8. ASSUME NEW i \in 1..Len(t) PROVE Tail(s)[i] = t[i]
  <2>1. i + 1 \in 1..(Len(b) + Len(o)) /\ Tail(s)[i] = s[i + 1]
    BY <1>1, <1>4, <1>7
  <2>2. CASE i <= Len(b) - 1
    BY <1>1, <1>2, <1>3, <1>4, <2>1, <2>2
  <2>3. CASE ~(i <= Len(b) - 1)
    <3>1. i + 1 - Len(b) = i - (Len(b) - 1)
      BY <1>1, <1>4
    <3>2. s[i + 1] = o[i + 1 - Len(b)]
      BY <1>1, <1>2, <2>1, <2>3
    <3>3. t[i] = o[i - (Len(b) - 1)]
      BY <1>1, <1>4, <2>3
    <3> QED
      BY <2>1, <3>1, <3>2, <3>3
  <2> QED
    BY <2>2, <2>3
<1>9. Tail(s) = t
  BY <1>4, <1>7, <1>8, SeqEqual
<1> QED
  BY <1>5, <1>6, <1>9 DEF s, t

LEMMA HeadThenTail ==
  ASSUME NEW S, NEW o \in Seq(S), o # << >>
  PROVE  <<Head(o)>> \o Tail(o) = o
<1>1. Len(o) \in Nat \ {0}
  BY EmptySeq, LenProperties
<1>2. SubSeq(o, 1, Len(o)) = o
  BY SubSeqFull
<1>3. SubSeq(o, 1, Len(o)) = <<o[1]>> \o SubSeq(o, 1 + 1, Len(o))
  BY <1>1, SubSeqRecursiveFirst
<1>4. Tail(o) = SubSeq(o, 2, Len(o)) /\ Head(o) = o[1]
  BY TailIsSubSeq
<1> QED
  BY <1>2, <1>3, <1>4

(* The oldest of o takes the place that the oldest of b leaves. *)
LEMMA ConcatShift ==
  ASSUME NEW S, NEW b \in Seq(S), NEW o \in Seq(S), b # << >>, o # << >>
  PROVE  Append(Tail(b), Head(o)) \o Tail(o) = Tail(b \o o)
<1>1. Head(o) \in S /\ Tail(o) \in Seq(S) /\ Tail(b) \in Seq(S)
  BY HeadTailProperties
<1>2. <<Head(o)>> \in Seq(S)
  BY <1>1
<1>3. Append(Tail(b), Head(o)) = Tail(b) \o <<Head(o)>>
  BY <1>1, AppendIsConcat
<1>4. (Tail(b) \o <<Head(o)>>) \o Tail(o) = Tail(b) \o (<<Head(o)>> \o Tail(o))
  BY <1>1, <1>2, ConcatAssociative
<1>5. <<Head(o)>> \o Tail(o) = o
  BY HeadThenTail
<1>6. Tail(b \o o) = Tail(b) \o o
  BY ConcatHeadTail
<1> QED
  BY <1>3, <1>4, <1>5, <1>6

(* RemoveAt closes the gap. *)
LEMMA RemoveAtProperties ==
  ASSUME NEW S, NEW s \in Seq(S), NEW k \in 1..Len(s)
  PROVE  /\ Fifo!RemoveAt(s, k) \in Seq(S)
         /\ Len(Fifo!RemoveAt(s, k)) = Len(s) - 1
         /\ \A i \in 1..(Len(s) - 1) :
              Fifo!RemoveAt(s, k)[i] = IF i < k THEN s[i] ELSE s[i + 1]
<1> DEFINE a == SubSeq(s, 1, k - 1)
           c == SubSeq(s, k + 1, Len(s))
<1>1. Len(s) \in Nat /\ \A i \in 1..Len(s) : s[i] \in S
  BY LenProperties, ElementOfSeq
<1>2. /\ a \in Seq(S) /\ Len(a) = k - 1
      /\ \A i \in 1..(k - 1) : a[i] = s[i]
  <2>1. 1 \in Int /\ k - 1 \in Int /\ \A i \in 1..(k - 1) : s[i] \in S
    BY <1>1
  <2>2. /\ a \in Seq(S) /\ Len(a) = IF 1 <= k - 1 THEN k - 1 - 1 + 1 ELSE 0
        /\ \A i \in 1..(k - 1 - 1 + 1) : a[i] = s[1 + i - 1]
    BY <2>1, SubSeqProperties
  <2> HIDE DEF a
  <2> QED
    BY <1>1, <2>2
<1>3. /\ c \in Seq(S) /\ Len(c) = Len(s) - k
      /\ \A i \in 1..(Len(s) - k) : c[i] = s[k + i]
  <2>1. k + 1 \in Int /\ Len(s) \in Int /\ \A i \in (k + 1)..Len(s) : s[i] \in S
    BY <1>1
  <2>2. /\ c \in Seq(S)
        /\ Len(c) = IF k + 1 <= Len(s) THEN Len(s) - (k + 1) + 1 ELSE 0
        /\ \A i \in 1..(Len(s) - (k + 1) + 1) : c[i] = s[k + 1 + i - 1]
    BY <2>1, SubSeqProperties
  <2> HIDE DEF c
  <2> QED
    BY <1>1, <2>2
<1> HIDE DEF a, c
<1>4. /\ a \o c \in Seq(S) /\ Len(a \o c) = k - 1 + (Len(s) - k)
      /\ \A i \in 1..(k - 1 + (Len(s) - k)) :
           (a \o c)[i] = IF i <= k - 1 THEN a[i] ELSE c[i - (k - 1)]
  BY <1>2, <1>3, ConcatProperties
<1>5. ASSUME NEW i \in 1..(Len(s) - 1)
      PROVE  (a \o c)[i] = IF i < k THEN s[i] ELSE s[i + 1]
  <2>1. CASE i < k
    BY <1>1, <1>2, <1>4, <2>1
  <2>2. CASE ~(i < k)
    <3>1. (a \o c)[i] = c[i - (k - 1)]
      BY <1>1, <1>4, <2>2
    <3>2. i - (k - 1) \in 1..(Len(s) - k) /\ k + (i - (k - 1)) = i + 1
      BY <1>1, <2>2
    <3>3. c[i - (k - 1)] = s[k + (i - (k - 1))]
      BY <1>3, <3>2
    <3> QED
      BY <2>2, <3>1, <3>2, <3>3
  <2> QED
    BY <2>1, <2>2
<1>6. Len(a \o c) = Len(s) - 1
  BY <1>1, <1>4
<1>7. Fifo!RemoveAt(s, k) = a \o c
  BY DEF Fifo!RemoveAt, a, c
<1> QED
  BY <1>4, <1>5, <1>6, <1>7

(* Closing the gap behind b. *)
LEMMA ConcatRemoveAt ==
  ASSUME NEW S, NEW b \in Seq(S), NEW o \in Seq(S), NEW r \in Seq(S),
         NEW k \in 1..Len(o), Len(r) = Len(o) - 1,
         \A i \in 1..(Len(o) - 1) : r[i] = IF i < k THEN o[i] ELSE o[i + 1]
  PROVE  /\ Len(b) + k \in 1..Len(b \o o)
         /\ b \o r = Fifo!RemoveAt(b \o o, Len(b) + k)
<1> DEFINE s == b \o o
           t == b \o r
           u == Fifo!RemoveAt(s, Len(b) + k)
<1>1. Len(b) \in Nat /\ Len(o) \in Nat
  BY LenProperties
<1>2. /\ s \in Seq(S) /\ Len(s) = Len(b) + Len(o)
      /\ \A i \in 1..(Len(b) + Len(o)) :
           s[i] = IF i <= Len(b) THEN b[i] ELSE o[i - Len(b)]
  BY ConcatProperties
<1>3. /\ t \in Seq(S) /\ Len(t) = Len(b) + (Len(o) - 1)
      /\ \A i \in 1..(Len(b) + (Len(o) - 1)) :
           t[i] = IF i <= Len(b) THEN b[i] ELSE r[i - Len(b)]
  <2>1. /\ t \in Seq(S) /\ Len(t) = Len(b) + Len(r)
        /\ \A i \in 1..(Len(b) + Len(r)) :
             t[i] = IF i <= Len(b) THEN b[i] ELSE r[i - Len(b)]
    BY ConcatProperties
  <2> HIDE DEF t
  <2> QED
    BY <2>1
<1> HIDE DEF s, t
<1>4. Len(b) + k \in 1..Len(s)
  BY <1>1, <1>2
<1>5. /\ u \in Seq(S) /\ Len(u) = Len(s) - 1
      /\ \A i \in 1..(Len(s) - 1) :
           u[i] = IF i < Len(b) + k THEN s[i] ELSE s[i + 1]
  BY <1>2, <1>4, RemoveAtProperties
<1> HIDE DEF u
<1>6. ASSUME NEW i \in 1..Len(t) PROVE t[i] = u[i]
  <2>1. CASE i <= Len(b)
    <3>1. t[i] = b[i] /\ i \in 1..(Len(s) - 1) /\ i < Len(b) + k
      BY <1>1, <1>2, <1>3, <2>1
    <3>2. s[i] = b[i]
      BY <1>1, <1>2, <1>3, <2>1
    <3> QED
      BY <1>5, <3>1, <3>2
  <2>2. CASE ~(i <= Len(b))
    <3>1. PICK j \in 1..(Len(o) - 1) : i = Len(b) + j
      <4>1. i - Len(b) \in 1..(Len(o) - 1) /\ i = Len(b) + (i - Len(b))
        BY <1>1, <1>3, <2>2
      <4> QED
        BY <4>1
    <3>2. i - Len(b) = j /\ i + 1 - Len(b) = j + 1
      BY <1>1, <3>1
    <3>3. t[i] = r[j]
      BY <1>1, <1>3, <2>2, <3>2
    <3>4. s[i] = o[j]
      BY <1>1, <1>2, <2>2, <3>1, <3>2
    <3>5. s[i + 1] = o[j + 1]
      <4>1. i + 1 \in 1..(Len(b) + Len(o)) /\ ~(i + 1 <= Len(b))
        BY <1>1, <2>2, <3>1
      <4> QED
        BY <1>2, <3>2, <4>1
    <3>6. u[i] = IF j < k THEN o[j] ELSE o[j + 1]
      BY <1>1, <1>2, <1>3, <1>5, <3>1, <3>4, <3>5
    <3> QED
      BY <3>3, <3>6
  <2> QED
    BY <2>1, <2>2
<1>7. Len(t) = Len(u)
  BY <1>1, <1>2, <1>3, <1>5
<1>8. t = u
  BY <1>3, <1>5, <1>6, <1>7, SeqEqual
<1> QED
  BY <1>4, <1>8 DEF s, t, u

(* The offers of a queue depend on the values of its nodes only. *)
LEMMA OffersAgree ==
  ASSUME NEW q, NEW f, NEW g, \A s \in Nodes(q) : f[s] = g[s]
  PROVE  Offers(q, f) = Offers(q, g)
<1>1. \A i \in 1..Len(q) : f[q[i]] = g[q[i]]
  BY DEF Nodes
<1> QED
  BY <1>1 DEF Offers

LEMMA OffersEmpty ==
  ASSUME NEW f
  PROVE  Offers(<< >>, f) = << >>
  BY DEF Offers

(* A sender that queues up offers its value last. *)
LEMMA OffersAddFront ==
  ASSUME NEW S, NEW q \in Seq(S), NEW s \in S, NEW f
  PROVE  Offers(AddFront(q, s), f) = Append(Offers(q, f), f[s])
<1> DEFINE p == AddFront(q, s)
           a == Offers(p, f)
           b == Append(Offers(q, f), f[s])
           T == {f[q[i]] : i \in 1..Len(q)} \cup {f[s]}
<1>1. (\A i \in 1..Len(q) : f[q[i]] \in T) /\ f[s] \in T
  OBVIOUS
<1> HIDE DEF T
<1>2. Len(q) \in Nat
  BY LenProperties
<1>3. /\ p \in Seq(S) /\ Len(p) = Len(q) + 1
      /\ \A i \in 1..Len(q) : p[i] = q[i]
      /\ p[Len(q) + 1] = s
  BY AddFrontProperties
<1>4. /\ Offers(q, f) \in Seq(T) /\ Len(Offers(q, f)) = Len(q)
      /\ \A i \in 1..Len(q) : Offers(q, f)[i] = f[q[i]]
  <2>1. Offers(q, f) \in Seq(T)
    BY <1>1, OffersTyped
  <2>2. Len(Offers(q, f)) = Len(q)
    BY OffersLen
  <2> QED
    BY <2>1, <2>2 DEF Offers
<1>5. /\ b \in Seq(T) /\ Len(b) = Len(q) + 1
      /\ \A i \in 1..Len(q) : b[i] = f[q[i]]
      /\ b[Len(q) + 1] = f[s]
  BY <1>1, <1>4, AppendProperties
<1> HIDE DEF p, b
<1>6. \A i \in 1..Len(p) : f[p[i]] = b[i] /\ f[p[i]] \in T
  <2> TAKE i \in 1..Len(p)
  <2>1. CASE i \in 1..Len(q)
    BY <1>1, <1>3, <1>5, <2>1
  <2>2. CASE i = Len(q) + 1
    BY <1>1, <1>3, <1>5, <2>2
  <2> QED
    BY <1>2, <1>3, <2>1, <2>2
<1>7. /\ a \in Seq(T) /\ Len(a) = Len(p)
      /\ \A i \in 1..Len(p) : a[i] = f[p[i]]
  <2>1. a \in Seq(T)
    BY <1>3, <1>6, OffersTyped
  <2>2. Len(a) = Len(p)
    BY <1>3, OffersLen
  <2> QED
    BY <2>1, <2>2 DEF Offers
<1> HIDE DEF a
<1>8. a = b
  BY <1>3, <1>5, <1>6, <1>7, SeqEqual
<1> QED
  BY <1>8 DEF a, b, p

(* The oldest sender offers its value first. *)
LEMMA OffersRemoveLast ==
  ASSUME NEW S, NEW T, NEW q \in Seq(S), q # << >>, NEW f,
         \A i \in 1..Len(q) : f[q[i]] \in T
  PROVE  /\ Offers(q, f) # << >>
         /\ Head(Offers(q, f)) = f[PeekLast(q)]
         /\ Offers(RemoveLast(q), f) = Tail(Offers(q, f))
<1> DEFINE o == Offers(q, f)
           p == RemoveLast(q)
           a == Offers(p, f)
<1>1. Len(q) \in Nat \ {0}
  BY EmptySeq, LenProperties
<1>2. /\ o \in Seq(T) /\ Len(o) = Len(q)
      /\ \A i \in 1..Len(q) : o[i] = f[q[i]]
  <2>1. o \in Seq(T)
    BY OffersTyped
  <2>2. Len(o) = Len(q)
    BY OffersLen
  <2> QED
    BY <2>1, <2>2 DEF Offers
<1>3. /\ p \in Seq(S) /\ Len(p) = Len(q) - 1
      /\ \A i \in 1..(Len(q) - 1) : p[i] = q[i + 1]
  BY HeadTailProperties DEF RemoveLast
<1> HIDE DEF o, p
<1>4. o # << >>
  BY <1>1, <1>2, EmptySeq
<1>5. Head(o) = f[PeekLast(q)]
  <2>1. o[1] = f[q[1]]
    BY <1>1, <1>2
  <2>2. Head(o) = o[1] /\ Head(q) = q[1]
    BY <1>2, <1>4
  <2> QED
    BY <2>1, <2>2 DEF PeekLast
<1>6. /\ Tail(o) \in Seq(T) /\ Len(Tail(o)) = Len(q) - 1
      /\ \A i \in 1..(Len(q) - 1) : Tail(o)[i] = o[i + 1]
  BY <1>2, <1>4, HeadTailProperties
<1>7. \A i \in 1..Len(p) : f[p[i]] = Tail(o)[i] /\ f[p[i]] \in T
  <2> TAKE i \in 1..Len(p)
  <2>1. i \in 1..(Len(q) - 1) /\ i + 1 \in 1..Len(q)
    BY <1>1, <1>3
  <2> QED
    BY <1>2, <1>3, <1>6, <2>1
<1>8. /\ a \in Seq(T) /\ Len(a) = Len(p)
      /\ \A i \in 1..Len(p) : a[i] = f[p[i]]
  <2>1. a \in Seq(T)
    BY <1>3, <1>7, OffersTyped
  <2>2. Len(a) = Len(p)
    BY <1>3, OffersLen
  <2> QED
    BY <2>1, <2>2 DEF Offers
<1> HIDE DEF a
<1>9. a = Tail(o)
  BY <1>3, <1>6, <1>7, <1>8, SeqEqual
<1> QED
  BY <1>4, <1>5, <1>9 DEF a, o, p

(* A sender that leaves takes its offer along. *)
LEMMA OffersRemove ==
  ASSUME NEW S, NEW T, NEW q \in Seq(S), NEW s \in Nodes(q), Distinct(q), NEW f,
         \A i \in 1..Len(q) : f[q[i]] \in T
  PROVE  \E k \in 1..Len(q) :
           /\ Offers(Remove(q, s), f) \in Seq(T)
           /\ Len(Offers(Remove(q, s), f)) = Len(q) - 1
           /\ \A i \in 1..(Len(q) - 1) :
                Offers(Remove(q, s), f)[i] = IF i < k THEN Offers(q, f)[i]
                                             ELSE Offers(q, f)[i + 1]
<1> DEFINE p == Remove(q, s)
           a == Offers(p, f)
           o == Offers(q, f)
<1>1. Len(q) \in Nat
  BY LenProperties
<1>2. /\ o \in Seq(T) /\ Len(o) = Len(q)
      /\ \A i \in 1..Len(q) : o[i] = f[q[i]]
  <2>1. o \in Seq(T)
    BY OffersTyped
  <2>2. Len(o) = Len(q)
    BY OffersLen
  <2> QED
    BY <2>1, <2>2 DEF Offers
<1>3. /\ p \in Seq(S) /\ Len(p) = Len(q) - 1
      /\ \E k \in 1..Len(q) :
           /\ q[k] = s
           /\ \A i \in 1..(Len(q) - 1) :
                p[i] = IF i < k THEN q[i] ELSE q[i + 1]
  BY IsLinkedNodes, RemoveProperties
<1> HIDE DEF o, p
<1>4. PICK k \in 1..Len(q) :
        \A i \in 1..(Len(q) - 1) : p[i] = IF i < k THEN q[i] ELSE q[i + 1]
  BY <1>3
<1>5. ASSUME NEW i \in 1..(Len(q) - 1)
      PROVE  /\ f[p[i]] = IF i < k THEN o[i] ELSE o[i + 1]
             /\ f[p[i]] \in T
  <2>1. i \in 1..Len(q) /\ i + 1 \in 1..Len(q)
    BY <1>1
  <2> QED
    BY <1>2, <1>4, <2>1
<1>6. /\ a \in Seq(T) /\ Len(a) = Len(p)
      /\ \A i \in 1..Len(p) : a[i] = f[p[i]]
  <2>1. a \in Seq(T)
    BY <1>3, <1>5, OffersTyped
  <2>2. Len(a) = Len(p)
    BY <1>3, OffersLen
  <2> QED
    BY <2>1, <2>2 DEF Offers
<1> HIDE DEF a
<1>7. /\ a \in Seq(T)
      /\ Len(a) = Len(q) - 1
      /\ \A i \in 1..(Len(q) - 1) : a[i] = IF i < k THEN o[i] ELSE o[i + 1]
  BY <1>3, <1>5, <1>6
<1> QED
  BY <1>7 DEF a, o, p

(* Cutting the offers off again. *)
LEMMA ConcatCut ==
  ASSUME NEW S, NEW b \in Seq(S), NEW o \in Seq(S), NEW c \in Nat,
         Len(b) <= c, o # << >> => Len(b) = c
  PROVE  SubSeq(b \o o, 1, IF Len(b \o o) < c THEN Len(b \o o) ELSE c) = b
<1> DEFINE s == b \o o
           n == IF Len(s) < c THEN Len(s) ELSE c
           u == SubSeq(s, 1, Len(b))
<1>1. /\ Len(b) \in Nat /\ Len(o) \in Nat
      /\ o = << >> <=> Len(o) = 0
  BY EmptySeq, LenProperties
<1>2. /\ s \in Seq(S) /\ Len(s) = Len(b) + Len(o)
      /\ \A i \in 1..(Len(b) + Len(o)) :
           s[i] = IF i <= Len(b) THEN b[i] ELSE o[i - Len(b)]
  BY ConcatProperties
<1>3. \A i \in 1..Len(b) : s[i] = b[i] /\ b[i] \in S
  BY <1>1, <1>2, ElementOfSeq
<1> HIDE DEF s
<1>4. n = Len(b)
  BY <1>1, <1>2
<1>5. /\ u \in Seq(S) /\ Len(u) = IF 1 <= Len(b) THEN Len(b) - 1 + 1 ELSE 0
      /\ \A i \in 1..(Len(b) - 1 + 1) : u[i] = s[1 + i - 1]
  <2>1. 1 \in Int /\ Len(b) \in Int /\ \A i \in 1..Len(b) : s[i] \in S
    BY <1>1, <1>3
  <2> QED
    BY <2>1, SubSeqProperties
<1> HIDE DEF u
<1>6. Len(u) = Len(b) /\ \A i \in 1..Len(b) : u[i] = b[i]
  BY <1>1, <1>3, <1>5
<1>7. u = b
  BY <1>5, <1>6, SeqEqual
<1> QED
  BY <1>4, <1>7 DEF s, u

-----------------------------------------------------------------------------
(* The sequence the channel stands for, and the abstract steps over it. *)
Items == buffer \o Offers(send_waiters, value)

LEMMA ItemsTyped ==
  ASSUME IInv
  PROVE  /\ buffer \in Seq(Values)
         /\ send_waiters \in Seq(Senders) /\ Distinct(send_waiters)
         /\ \A i \in 1..Len(send_waiters) : value[send_waiters[i]] \in Values
         /\ Offers(send_waiters, value) \in Seq(Values)
         /\ Len(Offers(send_waiters, value)) = Len(send_waiters)
<1>1. /\ buffer \in Seq(Values)
      /\ send_waiters \in Seq(Senders) /\ Distinct(send_waiters)
  BY DEF IInv, TypeOK, QueuesHoldWaiters
<1>2. ASSUME NEW i \in 1..Len(send_waiters)
      PROVE  value[send_waiters[i]] \in Values
  <2>1. send_waiters[i] \in Nodes(send_waiters)
    BY DEF Nodes
  <2> QED
    BY <2>1 DEF IInv, TypeOK, QueuesHoldWaiters
<1>3. Offers(send_waiters, value) \in Seq(Values)
  BY <1>1, <1>2, OffersTyped
<1>4. Len(Offers(send_waiters, value)) = Len(send_waiters)
  BY <1>1, OffersLen
<1> QED
  BY <1>1, <1>2, <1>3, <1>4

(* Nothing but the values in the queue's own nodes matters. *)
LEMMA SameItems ==
  ASSUME buffer' = buffer, send_waiters' = send_waiters,
         capacity' = capacity, is_closed' = is_closed, received' = received,
         \A s \in Nodes(send_waiters) : value'[s] = value[s]
  PROVE  UNCHANGED Fifo!vars
<1>1. Offers(send_waiters, value') = Offers(send_waiters, value)
  BY OffersAgree
<1> QED
  BY <1>1 DEF Fifo!vars, Offers

(* A new value in the sequence. *)
LEMMA OfferItems ==
  ASSUME NEW v \in Values, ~is_closed, Items' = Append(Items, v),
         capacity' = capacity, is_closed' = is_closed, received' = received
  PROVE  Fifo!Next
<1>1. Fifo!Offer(v)
  BY DEF Fifo!Offer, Items, Offers
<1> QED
  BY <1>1 DEF Fifo!Next

LEMMA DeliverItems ==
  ASSUME Items # << >>, received' = Head(Items), Items' = Tail(Items),
         capacity' = capacity, is_closed' = is_closed
  PROVE  Fifo!Next
<1>1. Fifo!Deliver
  BY DEF Fifo!Deliver, Items, Offers
<1> QED
  BY <1>1 DEF Fifo!Next

LEMMA WithdrawItems ==
  ASSUME NEW n \in 1..Len(Items), ~is_closed, n > capacity,
         Items' = Fifo!RemoveAt(Items, n),
         capacity' = capacity, is_closed' = is_closed, received' = received
  PROVE  Fifo!Next
<1>1. Fifo!Withdraw(n)
  BY DEF Fifo!Withdraw, Items, Offers
<1> QED
  BY <1>1 DEF Fifo!Next, Items, Offers

LEMMA CloseItems ==
  ASSUME ~is_closed, is_closed' = TRUE,
         Items' = SubSeq(Items, 1, IF Len(Items) < capacity THEN Len(Items)
                                   ELSE capacity),
         capacity' = capacity, received' = received
  PROVE  Fifo!Next
<1>1. Fifo!Close
  BY DEF Fifo!Close, Items, Offers
<1> QED
  BY <1>1 DEF Fifo!Next

(* A value is pushed: nobody was waiting, and nobody is. *)
LEMMA PushRefines ==
  ASSUME IInv, NEW v \in Values, ~is_closed, CanPush,
         buffer' = Append(buffer, v), send_waiters' = send_waiters,
         capacity' = capacity, is_closed' = is_closed, received' = received
  PROVE  Fifo!Next
<1>1. send_waiters = << >>
  BY DEF IInv, SendersWaitWhenFull, CanPush, IsEmpty
<1>2. /\ Offers(send_waiters, value) = << >>
      /\ Offers(send_waiters', value') = << >>
  BY <1>1, OffersEmpty
<1>3. buffer \in Seq(Values) /\ Append(buffer, v) \in Seq(Values)
  BY AppendProperties DEF IInv, TypeOK
<1>4. Items = buffer /\ Items' = Append(buffer, v)
  BY <1>2, <1>3, ConcatEmptySeq DEF Items
<1> QED
  BY <1>4, OfferItems

LEMMA SendWaitsRefines ==
  ASSUME IInv, NEW s \in Senders, NEW w \in Wakers, SendWaits(s, w),
         state[s] = "Unregistered",
         capacity' = capacity, is_closed' = is_closed, received' = received
  PROVE  Fifo!Next
<1>1. value[s] \in Values
  BY DEF IInv, TypeOK
<1>2. /\ send_waiters' = AddFront(send_waiters, s)
      /\ buffer' = buffer /\ value' = value /\ ~is_closed
  BY DEF SendWaits
<1>3. Offers(AddFront(send_waiters, s), value)
        = Append(Offers(send_waiters, value), value[s])
  BY ItemsTyped, OffersAddFront
<1>4. buffer \o Append(Offers(send_waiters, value), value[s])
        = Append(Items, value[s])
  BY <1>1, ItemsTyped, ConcatAppend DEF Items
<1>5. Items' = Append(Items, value[s])
  BY <1>2, <1>3, <1>4 DEF Items
<1> QED
  BY <1>1, <1>2, <1>5, OfferItems

(* What is left in the queue when the oldest sender is complete. *)
LEMMA CompletedOffers ==
  ASSUME IInv, ~IsEmpty(send_waiters),
         send_waiters' = RemoveLast(send_waiters),
         value' = [value EXCEPT ![PeekLast(send_waiters)] = NoValue]
  PROVE  /\ Offers(send_waiters, value) # << >>
         /\ Head(Offers(send_waiters, value)) = value[PeekLast(send_waiters)]
         /\ Offers(send_waiters, value)' = Tail(Offers(send_waiters, value))
<1> DEFINE s == PeekLast(send_waiters)
<1>1. /\ Offers(send_waiters, value) # << >>
      /\ Head(Offers(send_waiters, value)) = value[s]
      /\ Offers(RemoveLast(send_waiters), value)
           = Tail(Offers(send_waiters, value))
  <2>1. /\ send_waiters \in Seq(Senders) /\ send_waiters # << >>
        /\ \A i \in 1..Len(send_waiters) : value[send_waiters[i]] \in Values
    BY ItemsTyped DEF IsEmpty
  <2> QED
    BY ONLY <2>1, OffersRemoveLast
<1>2. /\ s \in Senders
      /\ Nodes(RemoveLast(send_waiters)) = Nodes(send_waiters) \ {s}
  BY OldestSender
<1>3. \A x \in Nodes(RemoveLast(send_waiters)) : value'[x] = value[x]
  <2>1. Nodes(send_waiters) \subseteq Senders /\ DOMAIN value = Senders
    BY DEF IInv, TypeOK, QueuesHoldWaiters
  <2> QED
    BY <1>2, <2>1
<1>4. Offers(RemoveLast(send_waiters), value')
        = Offers(RemoveLast(send_waiters), value)
  BY <1>3, OffersAgree
<1> QED
  BY <1>1, <1>4

LEMMA ReceiveValueRefines ==
  ASSUME IInv, NEW r, NEW st, NEW tk, ReceiveValue(r, st, tk),
         capacity' = capacity, is_closed' = is_closed
  PROVE  Fifo!Next
<1> DEFINE b == buffer
           o == Offers(send_waiters, value)
<1>1. b \in Seq(Values) /\ o \in Seq(Values)
  BY ItemsTyped
<1>2. CASE b # << >> /\ send_waiters = << >>
  <2>1. received' = Head(b) /\ b' = Tail(b) /\ send_waiters' = << >>
    BY <1>2 DEF ReceiveValue, PopValue, TakeFromSender, IsEmpty
  <2>2. o = << >> /\ o' = << >>
    BY <1>2, <2>1, OffersEmpty
  <2>3. Tail(b) \in Seq(Values)
    BY <1>1, <1>2, HeadTailProperties
  <2>4. Items = b /\ Items' = Tail(b)
    BY <1>1, <2>1, <2>2, <2>3, ConcatEmptySeq DEF Items
  <2> QED
    BY <1>2, <2>1, <2>4, DeliverItems
<1>3. CASE b # << >> /\ send_waiters # << >>
  <2>1. /\ received' = Head(b)
        /\ b' = Append(Tail(b), value[PeekLast(send_waiters)])
        /\ send_waiters' = RemoveLast(send_waiters)
        /\ value' = [value EXCEPT ![PeekLast(send_waiters)] = NoValue]
    BY <1>3 DEF ReceiveValue, PopValue, TakeFromSender, IsEmpty,
                CompleteOldestSender
  <2>2. /\ o # << >> /\ o' = Tail(o)
        /\ Head(o) = value[PeekLast(send_waiters)]
    BY <1>3, <2>1, CompletedOffers DEF IsEmpty
  <2>3. Append(Tail(b), Head(o)) \o Tail(o) = Tail(b \o o)
    BY <1>1, <1>3, <2>2, ConcatShift
  <2>4. b \o o # << >> /\ Head(b \o o) = Head(b)
    BY <1>1, <1>3, ConcatHeadTail
  <2> QED
    BY <2>1, <2>2, <2>3, <2>4, DeliverItems DEF Items
<1>4. CASE b = << >>
  <2>1. /\ ~IsEmpty(send_waiters)
        /\ received' = value[PeekLast(send_waiters)]
        /\ b' = << >>
        /\ send_waiters' = RemoveLast(send_waiters)
        /\ value' = [value EXCEPT ![PeekLast(send_waiters)] = NoValue]
    BY <1>4 DEF ReceiveValue, PopValue, TakeFromSender, IsEmpty,
                CompleteOldestSender
  <2>2. /\ o # << >> /\ o' = Tail(o)
        /\ Head(o) = value[PeekLast(send_waiters)]
    BY <2>1, CompletedOffers
  <2>3. Tail(o) \in Seq(Values)
    BY <1>1, <2>2, HeadTailProperties
  <2>4. Items = o /\ Items' = Tail(o)
    BY <1>1, <1>4, <2>1, <2>2, <2>3, ConcatEmptySeq DEF Items
  <2> QED
    BY <2>1, <2>2, <2>4, DeliverItems
<1> QED
  BY <1>2, <1>3, <1>4

LEMMA CancelWaitingRefines ==
  ASSUME IInv, NEW s \in Senders, CancelSend(s), state[s] = "Registered"
  PROVE  Fifo!Next
<1> DEFINE q == send_waiters
           o == Offers(q, value)
           p == Remove(q, s)
<1>1. /\ send_waiters' = p /\ value' = [value EXCEPT ![s] = NoValue]
      /\ buffer' = buffer /\ capacity' = capacity
      /\ is_closed' = is_closed /\ received' = received
  BY DEF CancelSend
<1>2. s \in Nodes(q)
  BY DEF IInv, QueuesHoldWaiters
<1>3. q # << >>
  BY <1>2 DEF Nodes
<1>4. ~is_closed /\ Len(buffer) = capacity /\ capacity \in Nat
  BY <1>3, ChannelAssumption
     DEF IInv, TypeOK, QueuesHoldWaiters, SendersWaitWhenFull, IsEmpty
<1>5. PICK k \in 1..Len(q) :
        /\ Offers(p, value) \in Seq(Values)
        /\ Len(Offers(p, value)) = Len(q) - 1
        /\ \A i \in 1..(Len(q) - 1) :
             Offers(p, value)[i] = IF i < k THEN o[i] ELSE o[i + 1]
  BY <1>2, ItemsTyped, OffersRemove
<1>6. Offers(p, value') = Offers(p, value)
  <2>1. Nodes(p) = Nodes(q) \ {s}
    BY <1>2, ItemsTyped, IsLinkedNodes, RemoveProperties
  <2>2. Nodes(q) \subseteq Senders /\ DOMAIN value = Senders
    BY DEF IInv, TypeOK, QueuesHoldWaiters
  <2>3. \A x \in Nodes(p) : value'[x] = value[x]
    BY <1>1, <2>1, <2>2
  <2> QED
    BY <2>3, OffersAgree
<1>7. /\ buffer \in Seq(Values) /\ o \in Seq(Values) /\ Len(o) = Len(q)
  BY ItemsTyped
<1> HIDE DEF p, o
<1>8. /\ Len(buffer) + k \in 1..Len(buffer \o o)
      /\ buffer \o Offers(p, value)
           = Fifo!RemoveAt(buffer \o o, Len(buffer) + k)
  BY <1>5, <1>7, ConcatRemoveAt
<1>9. Len(buffer) + k > capacity
  BY <1>4
<1>10. Items = buffer \o o /\ Items' = buffer \o Offers(p, value)
  BY <1>1, <1>6 DEF Items, o
<1> QED
  BY <1>1, <1>4, <1>8, <1>9, <1>10, WithdrawItems

LEMMA CloseRefines ==
  ASSUME IInv, Close
  PROVE  Fifo!Next
<1>1. /\ ~is_closed /\ is_closed' = TRUE /\ send_waiters' = << >>
      /\ buffer' = buffer /\ capacity' = capacity /\ received' = received
  BY DEF Close
<1>2. /\ buffer \in Seq(Values) /\ Offers(send_waiters, value) \in Seq(Values)
  BY ItemsTyped
<1>3. Items' = buffer
  BY <1>1, <1>2, OffersEmpty, ConcatEmptySeq DEF Items
<1>4. /\ capacity \in Nat /\ Len(buffer) <= capacity
      /\ Offers(send_waiters, value) # << >> => Len(buffer) = capacity
  BY OffersEmpty, ChannelAssumption
     DEF IInv, TypeOK, SendersWaitWhenFull, IsEmpty
<1>5. SubSeq(Items, 1, IF Len(Items) < capacity THEN Len(Items) ELSE capacity)
        = buffer
  BY <1>2, <1>4, ConcatCut DEF Items
<1> QED
  BY <1>1, <1>3, <1>5, CloseItems

(* A slot whose future is not waiting changes no offer. *)
LEMMA OwnValueOnly ==
  ASSUME IInv, NEW s \in Senders, state[s] # "Registered",
         NEW v, value' = [value EXCEPT ![s] = v],
         buffer' = buffer, send_waiters' = send_waiters,
         capacity' = capacity, is_closed' = is_closed, received' = received
  PROVE  UNCHANGED Fifo!vars
<1>1. \A x \in Nodes(send_waiters) : value'[x] = value[x]
  BY DEF IInv, TypeOK, QueuesHoldWaiters
<1> QED
  BY <1>1, SameItems

(* Steps that leave the values where they are. *)
LEMMA ValuesStay ==
  ASSUME UNCHANGED <<capacity, is_closed, buffer, send_waiters, value, received>>
  PROVE  UNCHANGED Fifo!vars
  BY DEF Fifo!vars

LEMMA SendingRefines ==
  ASSUME IInv, NEW s \in Senders,
         \/ \E v \in Values : Send(s, v) \/ TrySend(s, v)
         \/ \E w \in Wakers : PollSend(s, w)
         \/ CancelSend(s)
  PROVE  [Fifo!Next]_(Fifo!vars)
<1>1. CASE \E v \in Values : Send(s, v)
  BY <1>1, OwnValueOnly DEF Send, Unused
<1>2. CASE \E v \in Values : TrySend(s, v)
  BY <1>2, PushRefines DEF TrySend
<1>3. ASSUME NEW w \in Wakers, PollSendUnregistered(s, w)
      PROVE  [Fifo!Next]_(Fifo!vars)
  <2>1. /\ state[s] = "Unregistered"
        /\ capacity' = capacity /\ is_closed' = is_closed
        /\ received' = received
    BY <1>3 DEF PollSendUnregistered
  <2>2. CASE SendFailsClosed(s)
    BY <2>1, <2>2, OwnValueOnly DEF SendFailsClosed
  <2>3. CASE SendWaits(s, w)
    BY <2>1, <2>3, SendWaitsRefines
  <2>4. CASE SendStores(s)
    <3>1. value[s] \in Values
      BY <2>1 DEF IInv, TypeOK
    <3> QED
      BY <2>1, <2>4, <3>1, PushRefines DEF SendStores
  <2> QED
    BY <1>3, <2>2, <2>3, <2>4 DEF PollSendUnregistered
<1>4. CASE \E w \in Wakers : PollRegistered(s, w)
  BY <1>4, ValuesStay DEF PollRegistered
<1>5. CASE PollSendComplete(s)
  BY <1>5, ValuesStay DEF PollSendComplete
<1>6. CASE CancelSend(s) /\ state[s] = "Registered"
  BY <1>6, CancelWaitingRefines
<1>7. CASE CancelSend(s) /\ state[s] # "Registered"
  BY <1>7, OwnValueOnly DEF CancelSend
<1> QED
  BY <1>1, <1>2, <1>3, <1>4, <1>5, <1>6, <1>7 DEF PollSend

LEMMA ReceivingRefines ==
  ASSUME IInv, NEW r \in Receivers,
         \/ Receive(r) \/ TryReceive(r)
         \/ \E w \in Wakers : PollReceive(r, w)
         \/ DropReceive(r)
  PROVE  [Fifo!Next]_(Fifo!vars)
<1>1. CASE Receive(r)
  BY <1>1, ValuesStay DEF Receive
<1>2. CASE TryReceive(r)
  BY <1>2, ReceiveValueRefines DEF TryReceive
<1>3. ASSUME NEW w \in Wakers, PollReceiveUnlinked(r, w)
      PROVE  [Fifo!Next]_(Fifo!vars)
  <2>1. capacity' = capacity /\ is_closed' = is_closed
    BY <1>3 DEF PollReceiveUnlinked
  <2>2. CASE ReceiveObtains(r)
    BY <2>1, <2>2, ReceiveValueRefines DEF ReceiveObtains
  <2>3. CASE ReceiveFailsClosed(r)
    BY <2>1, <2>3, ValuesStay DEF ReceiveFailsClosed
  <2>4. CASE ReceiveWaits(r, w)
    BY <2>1, <2>4, ValuesStay DEF ReceiveWaits
  <2> QED
    BY <1>3, <2>2, <2>3, <2>4 DEF PollReceiveUnlinked
<1>4. CASE \E w \in Wakers : PollRegistered(r, w)
  BY <1>4, ValuesStay DEF PollRegistered
<1>5. CASE DropReceiveLinked(r)
  BY <1>5, ValuesStay DEF DropReceiveLinked
<1>6. CASE DropReceiveNotified(r)
  BY <1>6, ValuesStay DEF DropReceiveNotified
<1>7. CASE DropReceiveUnregistered(r)
  BY <1>7, ValuesStay DEF DropReceiveUnregistered
<1> QED
  BY <1>1, <1>2, <1>3, <1>4, <1>5, <1>6, <1>7 DEF PollReceive, DropReceive

(***************************************************************************)
(* For any number of senders and receivers and every capacity, whoever     *)
(* polls, cancels or wakes when: the channel implements one                *)
(* first-in-first-out sequence of values.  A receive (try_receive) obtains *)
(* the oldest of all values that were sent and not withdrawn, a cancelled  *)
(* send takes back a value that was not stored yet, and close gives back   *)
(* the values that were only offered.                                      *)
(***************************************************************************)
THEOREM ImplementsFifo == Spec => IsFifo
<1>1. Init => Fifo!Init
  <2> SUFFICES ASSUME Init PROVE Fifo!Init
    OBVIOUS
  <2>1. buffer \o Offers(send_waiters, value) = << >>
    <3>1. buffer = << >> /\ Offers(send_waiters, value) = << >>
      BY OffersEmpty DEF Init
    <3> QED
      BY <3>1
  <2> QED
    BY <2>1 DEF Init, Fifo!Init, Offers
<1>2. IInv /\ [Next]_vars => [Fifo!Next]_(Fifo!vars)
  <2> SUFFICES ASSUME IInv, [Next]_vars PROVE [Fifo!Next]_(Fifo!vars)
    OBVIOUS
  <2>1. CASE Close
    BY <2>1, CloseRefines
  <2>2. CASE \E x \in Slots : WakeInHand(x)
    BY <2>2, ValuesStay DEF WakeInHand
  <2>3. CASE UNCHANGED vars
    BY <2>3, ValuesStay DEF vars
  <2> QED
    BY <2>1, <2>2, <2>3, SendingRefines, ReceivingRefines DEF Next
<1> QED
  BY <1>1, <1>2, Invariance, PTL DEF Spec, SafetySpec, IsFifo, Fifo!Spec

-----------------------------------------------------------------------------
(***************************************************************************)
(* Handles and streams.  What their properties rest on besides IInv: the   *)
(* last receiver clears a channel that is closed.                          *)
(***************************************************************************)
HandlesTyped ==
  /\ handle \in [Slots -> {"Absent", "Held", "Closing", "Clearing", "Gone"}]
  /\ stream \in [Receivers -> {"None", "Open", "Terminated"}]

ClearingIsClosed == \A r \in Receivers : handle[r] = "Clearing" => is_closed

SharedInv ==
  /\ IInv
  /\ ValuesAnnounced
  /\ HandlesTyped
  /\ ClearingIsClosed
  /\ LastDropIsAlone
  /\ AbandonedIsEmpty
  /\ EndedStreamMissesNothing

(* A closed channel stays closed, and an empty one stays empty then. *)
LEMMA ClosedStep ==
  ASSUME IInv, ChannelStep, is_closed
  PROVE  is_closed' /\ (buffer = << >> => buffer' = << >>)
<1>1. IsEmpty(send_waiters)
  BY DEF IInv, QueuesHoldWaiters
<1>2. \A r \in Receivers : \A st, tk :
        ReceiveValue(r, st, tk) => buffer # << >>
  BY <1>1 DEF ReceiveValue, PopValue, TakeFromSender, IsEmpty
<1>3. ASSUME NEW s \in Senders, NEW v \in Values, Send(s, v) \/ TrySend(s, v)
      PROVE  is_closed' /\ buffer' = buffer
  BY <1>3 DEF Send, TrySend
<1>4. ASSUME NEW s \in Senders, NEW w \in Wakers, PollSendUnregistered(s, w)
      PROVE  is_closed' /\ buffer' = buffer
  BY <1>4 DEF PollSendUnregistered, SendFailsClosed, SendWaits, SendStores
<1>5. ASSUME NEW x \in Slots, NEW w \in Wakers, PollRegistered(x, w)
      PROVE  is_closed' /\ buffer' = buffer
  BY <1>5 DEF PollRegistered
<1>6. ASSUME NEW s \in Senders, PollSendComplete(s) \/ CancelSend(s)
      PROVE  is_closed' /\ buffer' = buffer
  BY <1>6 DEF PollSendComplete, CancelSend
<1>7. ASSUME NEW r \in Receivers, Receive(r) \/ DropReceive(r)
      PROVE  is_closed' /\ buffer' = buffer
  BY <1>7 DEF Receive, DropReceive, DropReceiveLinked, DropReceiveNotified,
              DropReceiveUnregistered
<1>8. ASSUME NEW r \in Receivers, TryReceive(r)
      PROVE  is_closed' /\ buffer # << >>
  BY <1>2, <1>8 DEF TryReceive
<1>9. ASSUME NEW r \in Receivers, NEW w \in Wakers,
             PollReceiveUnlinked(r, w) \/ ReceiveFresh(r, w)
      PROVE  is_closed' /\ (buffer = << >> => buffer' = << >>)
  <2>1. is_closed'
    BY <1>9 DEF PollReceiveUnlinked, ReceiveFresh
  <2>2. ReceiveObtains(r) => buffer # << >>
    BY <1>2 DEF ReceiveObtains
  <2>3. ReceiveFailsClosed(r) \/ ReceiveWaits(r, w) => buffer' = buffer
    BY DEF ReceiveFailsClosed, ReceiveWaits
  <2> QED
    BY <1>9, <2>1, <2>2, <2>3 DEF PollReceiveUnlinked, ReceiveFresh
<1>10. ASSUME NEW x \in Slots, WakeInHand(x) PROVE is_closed' /\ buffer' = buffer
  BY <1>10 DEF WakeInHand
<1>11. ~Close
  BY DEF Close
<1> QED
  BY <1>3, <1>4, <1>5, <1>6, <1>7, <1>8, <1>9, <1>10, <1>11, SlotKinds
  DEF ChannelStep, Next, PollSend, PollReceive

(***************************************************************************)
(* The steps that use the channel and leave the handles alone.             *)
(***************************************************************************)
LEMMA UseInv ==
  ASSUME SharedInv, ChannelStep \/ UNCHANGED vars,
         UNCHANGED <<shared, handle, senders, receivers>>,
         stream' \in [Receivers -> {"None", "Open", "Terminated"}],
         \A r \in Receivers : stream'[r] = "Terminated" =>
           \/ stream[r] = "Terminated"
           \/ is_closed /\ ~HasValue /\ buffer' = buffer
  PROVE  SharedInv'
<1>1. IInv' /\ ValuesAnnounced'
  <2>1. CASE ChannelStep
    BY <2>1, ChannelStepInv, ChannelStepAnnounced DEF SharedInv
  <2>2. CASE UNCHANGED vars
    BY <2>2, StutterInv DEF SharedInv, vars, ValuesAnnounced, NotifiedReceivers
  <2> QED
    BY <2>1, <2>2
<1>2. is_closed => is_closed' /\ IsEmpty(send_waiters') /\ IsEmpty(send_waiters)
                   /\ (buffer = << >> => buffer' = << >>)
  <2>1. is_closed => is_closed' /\ (buffer = << >> => buffer' = << >>)
    BY ClosedStep DEF SharedInv, vars
  <2> QED
    BY <1>1, <2>1 DEF IInv, QueuesHoldWaiters, SharedInv
<1>3. HandlesTyped' /\ ClearingIsClosed'
  BY <1>2 DEF SharedInv, HandlesTyped, ClearingIsClosed
<1>4. LastDropIsAlone'
  BY DEF SharedInv, LastDropIsAlone, Holding, Dropping
<1>5. AbandonedIsEmpty'
  BY <1>2 DEF SharedInv, AbandonedIsEmpty, Abandoned, IsEmpty
<1>6. EndedStreamMissesNothing'
  BY <1>2 DEF SharedInv, EndedStreamMissesNothing, HasValue, IsEmpty
<1> QED
  BY <1>1, <1>3, <1>4, <1>5, <1>6 DEF SharedInv

LEMMA UseStepsInv ==
  ASSUME SharedInv,
         \/ \E s \in Senders : UseSender(s) \/ UseSendFuture(s)
         \/ \E r \in Receivers :
              \/ UseReceiver(r) \/ UseReceiveFuture(r)
              \/ OpenStream(r)
              \/ \E w \in WakersOf[r] : PollNext(r, w)
              \/ DropStream(r)
         \/ CloseHandle
         \/ \E x \in Slots : FinishWake(x)
  PROVE  SharedInv'
<1>0. /\ stream \in [Receivers -> {"None", "Open", "Terminated"}]
      /\ \A x \in Slots : WakersOf[x] \subseteq Wakers
  BY SharedChannelAssumption DEF SharedInv, HandlesTyped
<1>1. ASSUME ChannelStep, UNCHANGED handleVars PROVE SharedInv'
  BY <1>0, <1>1, UseInv DEF handleVars
<1>2. ASSUME NEW s \in Senders, UseSender(s) \/ UseSendFuture(s)
      PROVE  SharedInv'
  BY <1>0, <1>1, <1>2, SlotKinds DEF UseSender, UseSendFuture, ChannelStep, Next
<1>3. ASSUME NEW r \in Receivers, UseReceiver(r) \/ UseReceiveFuture(r)
      PROVE  SharedInv'
  BY <1>0, <1>1, <1>3, SlotKinds
  DEF UseReceiver, UseReceiveFuture, ChannelStep, Next
<1>4. ASSUME CloseHandle \/ \E x \in Slots : FinishWake(x) PROVE SharedInv'
  BY <1>1, <1>4 DEF CloseHandle, FinishWake, ChannelStep, Next
<1>5. ASSUME NEW r \in Receivers, OpenStream(r) PROVE SharedInv'
  <2>1. stream' = [stream EXCEPT ![r] = "Open"]
    BY <1>5 DEF OpenStream
  <2> QED
    BY <1>0, <1>5, <2>1, UseInv DEF OpenStream
<1>6. ASSUME NEW r \in Receivers, DropStream(r) PROVE SharedInv'
  <2>1. stream' = [stream EXCEPT ![r] = "None"]
    BY <1>6 DEF DropStream
  <2>2. ChannelStep \/ UNCHANGED vars
    BY <1>6 DEF DropStream, ChannelStep, Next
  <2> QED
    BY <1>0, <1>6, <2>1, <2>2, UseInv DEF DropStream
<1>7. ASSUME NEW r \in Receivers, NEW w \in WakersOf[r], PollNextContinues(r, w)
      PROVE  SharedInv'
  <2>1. w \in Wakers /\ UNCHANGED handleVars
    BY <1>0, <1>7, SlotKinds DEF PollNextContinues
  <2>2. ChannelStep
    BY <1>7, <2>1
    DEF PollNextContinues, CanPollNext, ChannelStep, Next, ReceiveFresh,
        PollReceive, PollReceiveUnlinked
  <2> QED
    BY <1>1, <2>1, <2>2
<1>8. ASSUME NEW r \in Receivers, NEW w \in WakersOf[r], PollNextEnds(r, w)
      PROVE  SharedInv'
  <2>1. w \in Wakers /\ stream' = [stream EXCEPT ![r] = "Terminated"]
        /\ UNCHANGED <<shared, handle, senders, receivers>>
    BY <1>0, <1>8, SlotKinds DEF PollNextEnds
  <2>2. ChannelStep
    BY <1>8, <2>1
    DEF PollNextEnds, CanPollNext, ChannelStep, Next, ReceiveFresh,
        PollReceive, PollReceiveUnlinked
  <2>3. is_closed /\ ~HasValue /\ buffer' = buffer
    BY <1>8 DEF PollNextEnds, ReceiveFailsClosed
  <2> QED
    BY <1>0, <2>1, <2>2, <2>3, UseInv
<1> QED
  BY <1>2, <1>3, <1>4, <1>5, <1>6, <1>7, <1>8 DEF PollNext

-----------------------------------------------------------------------------
(***************************************************************************)
(* The handles of one side S, when one of them is cloned or dropped.       *)
(***************************************************************************)
Side(S) == S = Senders \/ S = Receivers

LEMMA SideFinite ==
  ASSUME NEW S, Side(S)
  PROVE  /\ S \subseteq Slots /\ IsFiniteSet(S)
         /\ IsFiniteSet(Holding(S)) /\ Cardinality(Holding(S)) \in Nat
         /\ IsFiniteSet(Dropping(S)) /\ Cardinality(Dropping(S)) \in Nat
<1>1. S \subseteq Slots /\ IsFiniteSet(S)
  BY ChannelAssumption DEF Side, Slots
<1>2. Holding(S) \subseteq S /\ Dropping(S) \subseteq S
  BY DEF Holding, Dropping
<1> QED
  BY <1>1, <1>2, FS_Subset, FS_CardinalityType

LEMMA CloneSide ==
  ASSUME HandlesTyped, NEW S, Side(S), NEW x \in S, NEW y \in S,
         handle[x] = "Held", handle[y] = "Gone",
         Dropping(S) # {} => Holding(S) = {},
         handle' = [handle EXCEPT ![y] = "Held"]
  PROVE  /\ Cardinality(Holding(S)') = Cardinality(Holding(S)) + 1
         /\ Dropping(S)' = {}
<1>1. S \subseteq Slots /\ IsFiniteSet(Holding(S))
  BY SideFinite
<1>2. Holding(S)' = Holding(S) \cup {y} /\ y \notin Holding(S)
  BY <1>1 DEF Holding, HandlesTyped
<1>3. x \in Holding(S)
  BY DEF Holding
<1>4. Dropping(S)' = {}
  BY <1>1, <1>3 DEF Dropping, HandlesTyped
<1> QED
  BY <1>1, <1>2, <1>4, FS_AddElement

LEMMA DropSide ==
  ASSUME HandlesTyped, NEW S, Side(S), NEW x \in S, handle[x] = "Held",
         Dropping(S) # {} => Holding(S) = {},
         handle' = [handle EXCEPT ![x] =
                      IF Cardinality(Holding(S)) = 1 THEN "Closing" ELSE "Gone"]
  PROVE  /\ Cardinality(Holding(S)') = Cardinality(Holding(S)) - 1
         /\ Cardinality(Dropping(S)') <= 1
         /\ Dropping(S)' # {} => Holding(S)' = {}
         /\ \E y \in S : handle'[y] \in {"Held", "Closing"}
<1>1. /\ S \subseteq Slots /\ IsFiniteSet(Holding(S))
      /\ Cardinality(Holding(S)) \in Nat
  BY SideFinite
<1>2. x \in Holding(S) /\ Dropping(S) = {}
  BY DEF Holding
<1>3. Holding(S)' = Holding(S) \ {x}
  BY <1>1 DEF Holding, HandlesTyped
<1>4. /\ Cardinality(Holding(S) \ {x}) = Cardinality(Holding(S)) - 1
      /\ IsFiniteSet(Holding(S) \ {x})
  BY <1>1, <1>2, FS_RemoveElement
<1>5. CASE Cardinality(Holding(S)) = 1
  <2>1. Dropping(S)' = {x} /\ handle'[x] = "Closing"
    BY <1>1, <1>2, <1>5 DEF Dropping, HandlesTyped
  <2>2. Cardinality(Dropping(S)') = 1
    BY <2>1, FS_Singleton
  <2>3. Cardinality(Holding(S) \ {x}) = 0
    BY <1>4, <1>5
  <2>4. Holding(S) \ {x} = {}
    BY <1>4, <2>3, FS_EmptySet
  <2> QED
    BY <1>3, <1>4, <2>1, <2>2, <2>4
<1>6. CASE Cardinality(Holding(S)) # 1
  <2>1. Dropping(S)' = {}
    BY <1>1, <1>2, <1>6 DEF Dropping, HandlesTyped
  <2>2. Cardinality(Dropping(S)') = 0
    BY <2>1, FS_EmptySet
  <2>3. Cardinality(Holding(S) \ {x}) # 0
    BY <1>4, <1>6
  <2>4. Holding(S) \ {x} # {}
    BY <2>3, FS_EmptySet
  <2>5. PICK y \in Holding(S)' : TRUE
    BY <1>3, <2>4
  <2>6. y \in S /\ handle'[y] = "Held"
    BY <2>5 DEF Holding
  <2> QED
    BY <1>3, <1>4, <2>1, <2>2, <2>6
<1> QED
  BY <1>5, <1>6

LEMMA SameSide ==
  ASSUME NEW S, \A y \in S : handle'[y] = handle[y]
  PROVE  Holding(S)' = Holding(S) /\ Dropping(S)' = Dropping(S)
  BY DEF Holding, Dropping

(* What a step that leaves the channel alone has to show of the handles. *)
LEMMA HandleStep ==
  ASSUME SharedInv, UNCHANGED <<vars, shared, stream>>, HandlesTyped',
         ClearingIsClosed', LastDropIsAlone', AbandonedIsEmpty'
  PROVE  SharedInv'
<1>1. IInv'
  BY StutterInv DEF SharedInv
<1>2. ValuesAnnounced' /\ EndedStreamMissesNothing'
  BY DEF SharedInv, vars, ValuesAnnounced, NotifiedReceivers,
         EndedStreamMissesNothing, HasValue
<1> QED
  BY <1>1, <1>2 DEF SharedInv

LEMMA CloneSenderInv ==
  ASSUME SharedInv, NEW x \in Senders, NEW y \in Senders, CloneSender(x, y)
  PROVE  SharedInv'
<1> USE SlotKinds DEF SharedInv, CloneSender, Usable
<1>1. shared /\ HandlesTyped /\ Side(Senders)
      /\ senders = Cardinality(Holding(Senders))
      /\ (Dropping(Senders) # {} => Holding(Senders) = {})
  BY DEF LastDropIsAlone, Side
<1>2. /\ Cardinality(Holding(Senders)') = Cardinality(Holding(Senders)) + 1
      /\ Dropping(Senders)' = {}
  BY <1>1, CloneSide
<1>3. \A r \in Receivers : handle'[r] = handle[r]
  BY DEF HandlesTyped
<1>4. HandlesTyped' /\ ClearingIsClosed'
  BY <1>3 DEF HandlesTyped, ClearingIsClosed, vars
<1>5. LastDropIsAlone'
  <2>1. Cardinality(Dropping(Senders)') = 0
    BY <1>2, FS_EmptySet
  <2>2. Holding(Receivers)' = Holding(Receivers)
        /\ Dropping(Receivers)' = Dropping(Receivers)
    BY <1>3, SameSide
  <2> QED
    BY <1>1, <1>2, <2>1, <2>2 DEF LastDropIsAlone
<1>6. AbandonedIsEmpty'
  <2>1. handle'[y] = "Held"
    BY DEF HandlesTyped
  <2> QED
    BY <1>3, <2>1 DEF AbandonedIsEmpty, Abandoned, vars
<1> QED
  BY <1>4, <1>5, <1>6, HandleStep

LEMMA CloneReceiverInv ==
  ASSUME SharedInv, NEW x \in Receivers, NEW y \in Receivers, CloneReceiver(x, y)
  PROVE  SharedInv'
<1> USE SlotKinds DEF SharedInv, CloneReceiver, Usable
<1>1. shared /\ HandlesTyped /\ Side(Receivers)
      /\ receivers = Cardinality(Holding(Receivers))
      /\ (Dropping(Receivers) # {} => Holding(Receivers) = {})
  BY DEF LastDropIsAlone, Side
<1>2. /\ Cardinality(Holding(Receivers)') = Cardinality(Holding(Receivers)) + 1
      /\ Dropping(Receivers)' = {}
  BY <1>1, CloneSide
<1>3. \A s \in Senders : handle'[s] = handle[s]
  BY DEF HandlesTyped
<1>4. HandlesTyped' /\ ClearingIsClosed'
  BY DEF HandlesTyped, ClearingIsClosed, vars
<1>5. LastDropIsAlone'
  <2>1. Cardinality(Dropping(Receivers)') = 0
    BY <1>2, FS_EmptySet
  <2>2. Holding(Senders)' = Holding(Senders)
        /\ Dropping(Senders)' = Dropping(Senders)
    BY <1>3, SameSide
  <2> QED
    BY <1>1, <1>2, <2>1, <2>2 DEF LastDropIsAlone
<1>6. AbandonedIsEmpty'
  <2>1. handle'[y] = "Held"
    BY DEF HandlesTyped
  <2> QED
    BY <1>3, <2>1 DEF AbandonedIsEmpty, Abandoned, vars
<1> QED
  BY <1>4, <1>5, <1>6, HandleStep

LEMMA DropSenderInv ==
  ASSUME SharedInv, NEW s \in Senders, DropSender(s)
  PROVE  SharedInv'
<1> USE SlotKinds DEF SharedInv, DropSender
<1>1. shared /\ HandlesTyped /\ Side(Senders)
      /\ senders = Cardinality(Holding(Senders))
      /\ (Dropping(Senders) # {} => Holding(Senders) = {})
  BY DEF LastDropIsAlone, Side
<1>2. /\ Cardinality(Holding(Senders)') = Cardinality(Holding(Senders)) - 1
      /\ Cardinality(Dropping(Senders)') <= 1
      /\ Dropping(Senders)' # {} => Holding(Senders)' = {}
      /\ \E y \in Senders : handle'[y] \in {"Held", "Closing"}
  BY <1>1, DropSide
<1>3. \A r \in Receivers : handle'[r] = handle[r]
  BY DEF HandlesTyped
<1>4. HandlesTyped' /\ ClearingIsClosed'
  BY <1>3 DEF HandlesTyped, ClearingIsClosed, vars
<1>5. LastDropIsAlone'
  <2>1. Holding(Receivers)' = Holding(Receivers)
        /\ Dropping(Receivers)' = Dropping(Receivers)
    BY <1>3, SameSide
  <2> QED
    BY <1>1, <1>2, <2>1 DEF LastDropIsAlone
<1>6. AbandonedIsEmpty'
  BY <1>2, <1>3 DEF AbandonedIsEmpty, Abandoned, vars
<1> QED
  BY <1>4, <1>5, <1>6, HandleStep

LEMMA DropReceiverInv ==
  ASSUME SharedInv, NEW r \in Receivers, DropReceiver(r)
  PROVE  SharedInv'
<1> USE SlotKinds DEF SharedInv, DropReceiver
<1>1. shared /\ HandlesTyped /\ Side(Receivers)
      /\ receivers = Cardinality(Holding(Receivers))
      /\ (Dropping(Receivers) # {} => Holding(Receivers) = {})
  BY DEF LastDropIsAlone, Side
<1>2. /\ Cardinality(Holding(Receivers)') = Cardinality(Holding(Receivers)) - 1
      /\ Cardinality(Dropping(Receivers)') <= 1
      /\ Dropping(Receivers)' # {} => Holding(Receivers)' = {}
      /\ \E y \in Receivers : handle'[y] \in {"Held", "Closing"}
  BY <1>1, DropSide
<1>3. \A s \in Senders : handle'[s] = handle[s]
  BY DEF HandlesTyped
<1>4. HandlesTyped' /\ ClearingIsClosed'
  BY DEF HandlesTyped, ClearingIsClosed, vars
<1>5. LastDropIsAlone'
  <2>1. Holding(Senders)' = Holding(Senders)
        /\ Dropping(Senders)' = Dropping(Senders)
    BY <1>3, SameSide
  <2> QED
    BY <1>1, <1>2, <2>1 DEF LastDropIsAlone
<1>6. AbandonedIsEmpty'
  BY <1>2, <1>3 DEF AbandonedIsEmpty, Abandoned, vars
<1> QED
  BY <1>4, <1>5, <1>6, HandleStep

(***************************************************************************)
(* The rest of the last drop of a side: close, and then clear.             *)
(***************************************************************************)
LEMMA ShutInv ==
  ASSUME SharedInv, Shut, stream' = stream
  PROVE  /\ IInv' /\ ValuesAnnounced' /\ EndedStreamMissesNothing'
         /\ is_closed' /\ buffer' = buffer /\ send_waiters' = << >>
<1>1. IInv' /\ ValuesAnnounced'
  <2>1. CASE Close
    BY <2>1, ChannelStepInv, ChannelStepAnnounced DEF SharedInv, ChannelStep, Next
  <2>2. CASE UNCHANGED vars
    BY <2>2, StutterInv DEF SharedInv, vars, ValuesAnnounced, NotifiedReceivers
  <2> QED
    BY <2>1, <2>2 DEF Shut
<1>2. is_closed' /\ buffer' = buffer
  BY DEF Shut, Close, vars
<1>3. send_waiters' = << >>
  BY <1>1, <1>2 DEF IInv, QueuesHoldWaiters, IsEmpty
<1>4. EndedStreamMissesNothing'
  BY <1>2, <1>3 DEF SharedInv, EndedStreamMissesNothing, HasValue, IsEmpty
<1> QED
  BY <1>1, <1>2, <1>3, <1>4

LEMMA CloseLastSenderInv ==
  ASSUME SharedInv, NEW s \in Senders, CloseLastSender(s)
  PROVE  SharedInv'
<1>1. /\ IInv' /\ ValuesAnnounced' /\ EndedStreamMissesNothing'
      /\ is_closed' /\ buffer' = buffer /\ send_waiters' = << >>
  BY ShutInv DEF CloseLastSender
<1> USE SlotKinds DEF SharedInv, CloseLastSender
<1>2. HandlesTyped' /\ ClearingIsClosed'
  BY <1>1 DEF HandlesTyped, ClearingIsClosed
<1>3. \A r \in Receivers : handle'[r] = handle[r]
  BY DEF HandlesTyped
<1>4. LastDropIsAlone'
  <2>1. Holding(Receivers)' = Holding(Receivers)
        /\ Dropping(Receivers)' = Dropping(Receivers)
    BY <1>3, SameSide
  <2>2. Holding(Senders)' = Holding(Senders)
        /\ Dropping(Senders)' \subseteq Dropping(Senders)
    BY DEF HandlesTyped, Holding, Dropping
  <2>3. IsFiniteSet(Dropping(Senders)) /\ Cardinality(Dropping(Senders)) \in Nat
    BY SideFinite DEF Side
  <2>4. Cardinality(Dropping(Senders)') <= Cardinality(Dropping(Senders))
        /\ Cardinality(Dropping(Senders)') \in Nat
    BY <2>2, <2>3, FS_Subset, FS_CardinalityType
  <2>5. Cardinality(Dropping(Senders)) <= 1 => Cardinality(Dropping(Senders)') <= 1
    BY <2>3, <2>4
  <2> QED
    BY <2>1, <2>2, <2>5 DEF LastDropIsAlone
<1>5. AbandonedIsEmpty'
  BY <1>1, <1>3 DEF AbandonedIsEmpty, Abandoned
<1> QED
  BY <1>1, <1>2, <1>4, <1>5

LEMMA CloseLastReceiverInv ==
  ASSUME SharedInv, NEW r \in Receivers, CloseLastReceiver(r)
  PROVE  SharedInv'
<1>1. /\ IInv' /\ ValuesAnnounced' /\ EndedStreamMissesNothing'
      /\ is_closed' /\ buffer' = buffer /\ send_waiters' = << >>
  BY ShutInv DEF CloseLastReceiver
<1> USE SlotKinds DEF SharedInv, CloseLastReceiver
<1>2. HandlesTyped' /\ ClearingIsClosed'
  BY <1>1 DEF HandlesTyped, ClearingIsClosed
<1>3. handle'[r] = "Clearing" /\ \A s \in Senders : handle'[s] = handle[s]
  BY DEF HandlesTyped
<1>4. LastDropIsAlone'
  <2>1. Holding(Senders)' = Holding(Senders)
        /\ Dropping(Senders)' = Dropping(Senders)
    BY <1>3, SameSide
  <2>2. Holding(Receivers)' = Holding(Receivers)
        /\ Dropping(Receivers)' = Dropping(Receivers)
    BY DEF HandlesTyped, Holding, Dropping
  <2> QED
    BY <2>1, <2>2 DEF LastDropIsAlone
<1>5. AbandonedIsEmpty'
  BY <1>1, <1>3 DEF AbandonedIsEmpty, Abandoned
<1> QED
  BY <1>1, <1>2, <1>4, <1>5

LEMMA ClearLastReceiverInv ==
  ASSUME SharedInv, NEW r \in Receivers, ClearLastReceiver(r)
  PROVE  SharedInv'
<1> USE SlotKinds DEF SharedInv, ClearLastReceiver
<1>1. is_closed /\ send_waiters = << >> /\ receive_waiters = << >>
  BY DEF ClearingIsClosed, IInv, QueuesHoldWaiters, IsEmpty
<1>2. IInv'
  <2>1. buffer' \in Seq(Values) /\ Len(buffer') = 0 /\ capacity \in Nat
    BY ChannelAssumption DEF IInv, TypeOK
  <2>2. TypeOK'
    BY <2>1 DEF IInv, TypeOK
  <2>3. QueuesHoldWaiters' /\ NeverPanics'
    BY DEF IInv, QueuesHoldWaiters, NeverPanics
  <2>4. SendersWaitWhenFull'
    BY <1>1, <2>1 DEF SendersWaitWhenFull, IsEmpty
  <2>5. StoredWakerIsLatest' /\ DequeuedIsWoken'
    BY DEF IInv, StoredWakerIsLatest, DequeuedIsWoken, Polled
  <2> QED
    BY <2>2, <2>3, <2>4, <2>5 DEF IInv
<1>3. ValuesAnnounced' /\ EndedStreamMissesNothing'
  BY <1>1 DEF ValuesAnnounced, EndedStreamMissesNothing, HasValue, IsEmpty
<1>4. HandlesTyped' /\ ClearingIsClosed'
  BY <1>1 DEF HandlesTyped, ClearingIsClosed
<1>5. \A s \in Senders : handle'[s] = handle[s]
  BY DEF HandlesTyped
<1>6. LastDropIsAlone'
  <2>1. Holding(Senders)' = Holding(Senders)
        /\ Dropping(Senders)' = Dropping(Senders)
    BY <1>5, SameSide
  <2>2. Holding(Receivers)' = Holding(Receivers)
        /\ Dropping(Receivers)' \subseteq Dropping(Receivers)
    BY DEF HandlesTyped, Holding, Dropping
  <2>3. IsFiniteSet(Dropping(Receivers)) /\ Cardinality(Dropping(Receivers)) \in Nat
    BY SideFinite DEF Side
  <2>4. Cardinality(Dropping(Receivers)') <= Cardinality(Dropping(Receivers))
        /\ Cardinality(Dropping(Receivers)') \in Nat
    BY <2>2, <2>3, FS_Subset, FS_CardinalityType
  <2>5. Cardinality(Dropping(Receivers)) <= 1 => Cardinality(Dropping(Receivers)') <= 1
    BY <2>3, <2>4
  <2> QED
    BY <2>1, <2>2, <2>5 DEF LastDropIsAlone
<1>7. AbandonedIsEmpty'
  BY <1>1, <1>5 DEF AbandonedIsEmpty, Abandoned
<1> QED
  BY <1>2, <1>3, <1>4, <1>6, <1>7

-----------------------------------------------------------------------------
LEMMA SharedInitInv == SharedInit => SharedInv
<1> SUFFICES ASSUME SharedInit PROVE SharedInv
  OBVIOUS
<1>1. IInv /\ ValuesAnnounced
  BY InitInv DEF SharedInit, Init, ValuesAnnounced, IsEmpty
<1>2. PICK program \in Programs :
        \E s \in program \cap Senders, r \in program \cap Receivers :
          handle = [x \in Slots |-> CASE x \notin program -> "Absent"
                                       [] ~shared \/ x \in {s, r} -> "Held"
                                       [] OTHER -> "Gone"]
  BY DEF SharedInit
<1>3. PICK s \in program \cap Senders, r \in program \cap Receivers :
        handle = [x \in Slots |-> CASE x \notin program -> "Absent"
                                     [] ~shared \/ x \in {s, r} -> "Held"
                                     [] OTHER -> "Gone"]
  BY <1>2
<1>4. HandlesTyped /\ \A x \in Slots : handle[x] \in {"Absent", "Held", "Gone"}
  <2>1. \A x \in Slots : handle[x] \in {"Absent", "Held", "Gone"}
    BY <1>3
  <2>2. stream \in [Receivers -> {"None", "Open", "Terminated"}]
    BY DEF SharedInit
  <2> QED
    BY <1>3, <2>1, <2>2 DEF HandlesTyped
<1>5. ClearingIsClosed /\ EndedStreamMissesNothing
  BY <1>4, SlotKinds
  DEF SharedInit, ClearingIsClosed, EndedStreamMissesNothing
<1>6. handle[s] = "Held" /\ handle[r] = "Held"
  BY <1>3, SlotKinds
<1>7. AbandonedIsEmpty
  BY <1>6 DEF AbandonedIsEmpty, Abandoned
<1>8. LastDropIsAlone
  <2> SUFFICES ASSUME shared PROVE LastDropIsAlone
    BY DEF LastDropIsAlone
  <2>1. \A x \in Slots : handle[x] = "Held" <=> x \in {s, r}
    BY <1>3, SlotKinds
  <2>2. Holding(Senders) = {s} /\ Holding(Receivers) = {r}
    BY <2>1, SlotKinds DEF Holding
  <2>3. Dropping(Senders) = {} /\ Dropping(Receivers) = {}
    BY <1>4, SlotKinds DEF Dropping
  <2>4. Cardinality({s}) = 1 /\ Cardinality({r}) = 1
    BY FS_Singleton
  <2>5. Cardinality({}) = 0
    BY FS_EmptySet
  <2> QED
    BY <2>2, <2>3, <2>4, <2>5 DEF LastDropIsAlone, SharedInit
<1> QED
  BY <1>1, <1>4, <1>5, <1>7, <1>8 DEF SharedInv

LEMMA SharedNextInv == SharedInv /\ [SharedNext]_allVars => SharedInv'
<1> SUFFICES ASSUME SharedInv, [SharedNext]_allVars PROVE SharedInv'
  OBVIOUS
<1>1. CASE UNCHANGED allVars
  <2>1. stream \in [Receivers -> {"None", "Open", "Terminated"}]
    BY DEF SharedInv, HandlesTyped
  <2> QED
    BY <1>1, <2>1, UseInv DEF allVars, handleVars
<1>2. CASE SharedNext
  BY <1>2, UseStepsInv, CloneSenderInv, CloneReceiverInv, DropSenderInv,
     DropReceiverInv, CloseLastSenderInv, CloseLastReceiverInv,
     ClearLastReceiverInv
  DEF SharedNext
<1> QED
  BY <1>1, <1>2

(***************************************************************************)
(* The inductive invariant of the channel and the counts of its handles    *)
(* hold in every state of a shared channel and of a plain one, with or     *)
(* without streams.                                                        *)
(***************************************************************************)
THEOREM SharedInvariance == SharedSpec => []SharedInv
  BY SharedInitInv, SharedNextInv, PTL DEF SharedSpec

(***************************************************************************)
(* Only the drop that brings a count to zero closes, it is the only one of *)
(* its side, and nobody holds a handle of that side while it runs.         *)
(***************************************************************************)
THEOREM LastDropAlone == SharedSpec => []LastDropIsAlone
<1>1. SharedInv => LastDropIsAlone
  BY DEF SharedInv
<1> QED
  BY <1>1, SharedInvariance, PTL

(***************************************************************************)
(* Once all senders or all receivers are gone the channel is closed, and   *)
(* without receivers it keeps no value, although the count, the close and  *)
(* the clear are separate steps and send futures live on.                  *)
(***************************************************************************)
THEOREM NothingLeftBehind == SharedSpec => []AbandonedIsEmpty
<1>1. SharedInv => AbandonedIsEmpty
  BY DEF SharedInv
<1> QED
  BY <1>1, SharedInvariance, PTL

(***************************************************************************)
(* A stream ends only at a closed channel without values, and no value     *)
(* comes after that.                                                       *)
(***************************************************************************)
THEOREM StreamsEndLast == SharedSpec => []EndedStreamMissesNothing
<1>1. SharedInv => EndedStreamMissesNothing
  BY DEF SharedInv
<1> QED
  BY <1>1, SharedInvariance, PTL
=============================================================================
