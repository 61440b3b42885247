------------------------------ MODULE Channel ------------------------------
(***************************************************************************)
(* The multi-producer multi-consumer channel (src/channel/mpmc.rs) with    *)
(* its send and receive futures (src/channel/channel_future.rs), buffered  *)
(* or, with capacity 0, a rendezvous.                                      *)
(*                                                                         *)
(* ChannelState is only touched under the raw lock.  send, receive and     *)
(* cancellation return at most one waker, which the caller wakes after the *)
(* raw lock is released: in_hand[x] is the waker the call on slot x still  *)
(* has to wake.  close wakes everybody inside the raw lock.                *)
(*                                                                         *)
(* A member of Senders or Receivers is a slot of the program: it holds one *)
(* send or receive future after the other, or calls try_send/try_receive.  *)
(*                                                                         *)
(* A definition marked "a slip" is the code with one plausible mistake.    *)
(***************************************************************************)
EXTENDS WaitQueue, Waking, FiniteSets

CONSTANTS
  Senders, Receivers,   \* the slots
  Values, NoValue,      \* what is sent; the value None of an Option<T>
  Capacities            \* the buffer sizes a channel may be created with

Slots == Senders \cup Receivers

ASSUME ChannelAssumption ==
  /\ IsFiniteSet(Senders) /\ IsFiniteSet(Receivers)
  /\ Senders \cap Receivers = {}
  /\ NoValue \notin Values
  /\ Capacities \subseteq Nat

VARIABLES
  capacity,         \* ChannelState: buffer.capacity(), fixed
  is_closed,        \* ChannelState
  buffer,           \* ChannelState: the ring buffer, oldest value first
  receive_waiters,  \* ChannelState: waiting receive futures, oldest first
  send_waiters,     \* ChannelState: waiting send futures, oldest first
  state,            \* poll state of the slot's wait node; Done: no future
  value,            \* the value in a send slot's wait node
  task,             \* the waker stored in the slot's wait node
  in_hand,          \* the waker a call on the slot has taken and not yet woken
  latest,           \* the waker of the latest poll of the slot's future
  woken,            \* the pending futures whose latest waker has been woken
  received,         \* the value the latest successful receive returned
  panicked          \* an expect, an assertion or a forced removal failed

vars == <<capacity, is_closed, buffer, receive_waiters, send_waiters, state,
          value, task, in_hand, latest, woken, received, panicked>>

Idle(x) == in_hand[x] = NoWaker
Unused(x) == Idle(x) /\ state[x] = "Done"

Init ==
  /\ capacity \in Capacities
  /\ is_closed = FALSE
  /\ buffer = << >>
  /\ receive_waiters = << >>
  /\ send_waiters = << >>
  /\ state = [x \in Slots |-> "Done"]
  /\ value = [s \in Senders |-> NoValue]
  /\ task = [x \in Slots |-> NoWaker]
  /\ in_hand = [x \in Slots |-> NoWaker]
  /\ latest = [x \in Slots |-> NoWaker]
  /\ woken = {}
  /\ received = NoValue
  /\ panicked = FALSE

-----------------------------------------------------------------------------
(* RingBuf::can_push. *)
CanPush == Len(buffer) # capacity

(***************************************************************************)
(* return_oldest_receive_waiter, called on slot x with the poll states st  *)
(* and the stored wakers tk the caller has produced so far: the oldest     *)
(* waiting receiver leaves the queue, is Notified, and its waker is handed *)
(* to the caller.                                                          *)
(***************************************************************************)
ReturnOldestReceiveWaiter(x, st, tk) ==
  IF IsEmpty(receive_waiters)
  THEN state' = st /\ task' = tk /\ UNCHANGED <<receive_waiters, in_hand>>
  ELSE LET r == PeekLast(receive_waiters) IN
       /\ receive_waiters' = RemoveLast(receive_waiters)
       /\ state' = [st EXCEPT ![r] = "Notified"]
       /\ task' = [tk EXCEPT ![r] = NoWaker]
       /\ in_hand' = [in_hand EXCEPT ![x] = tk[r]]

(***************************************************************************)
(* The oldest waiting sender gives its value away and is complete; its     *)
(* waker is handed to the receive call on slot x.                          *)
(***************************************************************************)
CompleteOldestSender(x, st, tk) ==
  LET s == PeekLast(send_waiters) IN
  /\ send_waiters' = RemoveLast(send_waiters)
  /\ value' = [value EXCEPT ![s] = NoValue]
  /\ state' = [st EXCEPT ![s] = "SendComplete"]
  /\ task' = [tk EXCEPT ![s] = NoWaker]
  /\ in_hand' = [in_hand EXCEPT ![x] = tk[s]]

(***************************************************************************)
(* ChannelState::try_receive when it succeeds.  A value is popped and the  *)
(* oldest waiting sender's value is pushed behind the others               *)
(* (try_copy_value_from_oldest_waiter); or, in a channel without a buffer, *)
(* it is taken from that sender directly (try_take_value_from_sender).     *)
(***************************************************************************)
HasValue == ~IsEmpty(buffer) \/ ~IsEmpty(send_waiters)

PopValue(x, st, tk) ==
  /\ ~IsEmpty(buffer)
  /\ received' = Head(buffer)
  /\ IF IsEmpty(send_waiters)
     THEN /\ buffer' = Tail(buffer)
          /\ state' = st
          /\ task' = tk
          /\ UNCHANGED <<send_waiters, value, in_hand, panicked>>
     ELSE /\ buffer' = Append(Tail(buffer), value[PeekLast(send_waiters)])
          /\ CompleteOldestSender(x, st, tk)
          /\ panicked' = (panicked \/ value[PeekLast(send_waiters)] = NoValue
                                   \/ Len(Tail(buffer)) = capacity)

TakeFromSenderFirst(x, st, tk) ==    \* a slip: before the buffered values
  /\ ~IsEmpty(send_waiters)
  /\ received' = value[PeekLast(send_waiters)]
  /\ CompleteOldestSender(x, st, tk)
  /\ UNCHANGED <<buffer, panicked>>

TakeFromSender(x, st, tk) ==
  /\ IsEmpty(buffer)
  /\ ~IsEmpty(send_waiters)
  /\ received' = value[PeekLast(send_waiters)]
  /\ CompleteOldestSender(x, st, tk)
  /\ panicked' = (panicked \/ capacity # 0
                           \/ value[PeekLast(send_waiters)] = NoValue)
  /\ UNCHANGED buffer

ReceiveValue(x, st, tk) == PopValue(x, st, tk) \/ TakeFromSender(x, st, tk)

(***************************************************************************)
(* The future on slot x has resolved or is dropped, and its node with it.  *)
(***************************************************************************)
Retired(x) == [state EXCEPT ![x] = "Done"]
NoTask(x) == [task EXCEPT ![x] = NoWaker]

Forget(x) ==
  /\ latest' = [latest EXCEPT ![x] = NoWaker]
  /\ woken' = woken \ {x}

(* The future on slot x is pending after a poll with waker w. *)
Remember(x, w) ==
  /\ latest' = [latest EXCEPT ![x] = w]
  /\ woken' = woken \ {x}

(* remove_send_waiter and remove_receive_waiter panic on an unlinked node. *)
RemovalPanics(q, x) == panicked' = (panicked \/ ~IsLinked(q, x))

-----------------------------------------------------------------------------
(* GenericChannel::send and ::receive: futures not polled yet. *)
Send(s, v) ==
  /\ Unused(s)
  /\ state' = [state EXCEPT ![s] = "Unregistered"]
  /\ value' = [value EXCEPT ![s] = v]
  /\ UNCHANGED <<capacity, is_closed, buffer, receive_waiters, send_waiters,
                 task, in_hand, latest, woken, received, panicked>>

Receive(r) ==
  /\ Unused(r)
  /\ state' = [state EXCEPT ![r] = "Unregistered"]
  /\ UNCHANGED <<capacity, is_closed, buffer, receive_waiters, send_waiters,
                 value, task, in_hand, latest, woken, received, panicked>>

(***************************************************************************)
(* GenericChannel::try_send, when it succeeds; a failed call gives the     *)
(* value back and changes nothing.  On a channel of capacity 0 it always   *)
(* fails (a debug build panics: the call is a mistake of the program).     *)
(***************************************************************************)
TrySend(s, v) ==
  /\ Unused(s)
  /\ ~is_closed
  /\ CanPush
  /\ buffer' = Append(buffer, v)
  /\ ReturnOldestReceiveWaiter(s, state, task)
  /\ UNCHANGED <<capacity, is_closed, send_waiters, value, latest, woken,
                 received, panicked>>

(* GenericChannel::try_receive, when it succeeds. *)
TryReceive(r) ==
  /\ Unused(r)
  /\ ReceiveValue(r, state, task)
  /\ UNCHANGED <<capacity, is_closed, receive_waiters, latest, woken>>

(***************************************************************************)
(* ChannelSendFuture::poll with waker w: send_or_register.  A send that    *)
(* finds no room waits, and still notifies a receiver: in a channel        *)
(* without a buffer the value is taken out of the waiting sender.          *)
(***************************************************************************)
SendFailsClosed(s) ==
  /\ is_closed
  /\ state' = Retired(s)
  /\ task' = NoTask(s)
  /\ value' = [value EXCEPT ![s] = NoValue]
  /\ Forget(s)
  /\ UNCHANGED <<buffer, receive_waiters, send_waiters, in_hand, panicked>>

SendWaitsQuietly(s, w) ==            \* a slip: no receiver is notified
  /\ ~is_closed /\ ~CanPush
  /\ send_waiters' = AddFront(send_waiters, s)
  /\ state' = [state EXCEPT ![s] = "Registered"]
  /\ task' = [task EXCEPT ![s] = w]
  /\ Remember(s, w)
  /\ UNCHANGED <<buffer, receive_waiters, value, in_hand, panicked>>

SendWaits(s, w) ==
  /\ ~is_closed /\ ~CanPush
  /\ send_waiters' = AddFront(send_waiters, s)
  /\ ReturnOldestReceiveWaiter(s, [state EXCEPT ![s] = "Registered"],
                               [task EXCEPT ![s] = w])
  /\ Remember(s, w)
  /\ UNCHANGED <<buffer, value, panicked>>

SendStores(s) ==
  /\ ~is_closed /\ CanPush
  /\ panicked' = (panicked \/ value[s] = NoValue)
  /\ buffer' = Append(buffer, value[s])
  /\ value' = [value EXCEPT ![s] = NoValue]
  /\ ReturnOldestReceiveWaiter(s, Retired(s), NoTask(s))
  /\ Forget(s)
  /\ UNCHANGED send_waiters

PollSendUnregistered(s, w) ==
  /\ Idle(s) /\ state[s] = "Unregistered"
  /\ SendFailsClosed(s) \/ SendWaits(s, w) \/ SendStores(s)
  /\ UNCHANGED <<capacity, is_closed, received>>

(* The polls of a registered future, sending or receiving, change its waker. *)
PollRegistered(x, w) ==
  /\ Idle(x) /\ state[x] = "Registered"
  /\ task' = [task EXCEPT ![x] = UpdateWakerRef(task[x], w)]
  /\ Remember(x, w)
  /\ UNCHANGED <<capacity, is_closed, buffer, receive_waiters, send_waiters,
                 state, value, in_hand, received, panicked>>

PollSendComplete(s) ==
  /\ Idle(s) /\ state[s] = "SendComplete"
  /\ state' = Retired(s)
  /\ Forget(s)
  /\ UNCHANGED <<capacity, is_closed, buffer, receive_waiters, send_waiters,
                 value, task, in_hand, received, panicked>>

PollSend(s, w) ==
  PollSendUnregistered(s, w) \/ PollRegistered(s, w) \/ PollSendComplete(s)

(***************************************************************************)
(* ChannelReceiveFuture::poll with waker w: receive_or_register.           *)
(***************************************************************************)
ReceiveObtains(r) ==
  /\ ReceiveValue(r, Retired(r), NoTask(r))
  /\ Forget(r)
  /\ UNCHANGED receive_waiters

ReceiveFailsClosed(r) ==
  /\ ~HasValue /\ is_closed
  /\ state' = Retired(r)
  /\ task' = NoTask(r)
  /\ Forget(r)
  /\ UNCHANGED <<buffer, receive_waiters, send_waiters, value, in_hand,
                 received, panicked>>

ReceiveWaits(r, w) ==
  /\ ~HasValue /\ ~is_closed
  /\ state' = [state EXCEPT ![r] = "Registered"]
  /\ task' = [task EXCEPT ![r] = w]
  /\ receive_waiters' = AddFront(receive_waiters, r)
  /\ Remember(r, w)
  /\ UNCHANGED <<buffer, send_waiters, value, in_hand, received, panicked>>

PollReceiveUnlinked(r, w) ==
  /\ Idle(r) /\ state[r] \in {"Unregistered", "Notified"}
  /\ ReceiveObtains(r) \/ ReceiveFailsClosed(r) \/ ReceiveWaits(r, w)
  /\ UNCHANGED <<capacity, is_closed>>

PollReceive(r, w) == PollReceiveUnlinked(r, w) \/ PollRegistered(r, w)

(***************************************************************************)
(* Drop or cancel of a pending send future: remove_send_waiter.  The value *)
(* goes with it unless it was already taken.                               *)
(***************************************************************************)
CancelSend(s) ==
  /\ Idle(s) /\ state[s] # "Done"
  /\ IF state[s] = "Registered"
     THEN /\ RemovalPanics(send_waiters, s)
          /\ send_waiters' = Remove(send_waiters, s)
     ELSE UNCHANGED <<send_waiters, panicked>>
  /\ state' = Retired(s)
  /\ task' = NoTask(s)
  /\ value' = [value EXCEPT ![s] = NoValue]
  /\ Forget(s)
  /\ UNCHANGED <<capacity, is_closed, buffer, receive_waiters, in_hand, received>>

(***************************************************************************)
(* Drop of a pending receive future: remove_receive_waiter.  One that was  *)
(* notified notifies another receiver in its place.                        *)
(***************************************************************************)
DropReceiveLinked(r) ==
  /\ Idle(r) /\ state[r] = "Registered"
  /\ RemovalPanics(receive_waiters, r)
  /\ receive_waiters' = Remove(receive_waiters, r)
  /\ state' = Retired(r)
  /\ task' = NoTask(r)
  /\ Forget(r)
  /\ UNCHANGED <<capacity, is_closed, buffer, send_waiters, value, in_hand,
                 received>>

DropReceiveSilently(r) ==            \* a slip: nobody is notified instead
  /\ Idle(r) /\ state[r] = "Notified"
  /\ state' = Retired(r)
  /\ task' = NoTask(r)
  /\ Forget(r)
  /\ UNCHANGED <<capacity, is_closed, buffer, receive_waiters, send_waiters,
                 value, in_hand, received, panicked>>

DropReceiveNotified(r) ==
  /\ Idle(r) /\ state[r] = "Notified"
  /\ ReturnOldestReceiveWaiter(r, Retired(r), NoTask(r))
  /\ Forget(r)
  /\ UNCHANGED <<capacity, is_closed, buffer, send_waiters, value, received,
                 panicked>>

DropReceiveUnregistered(r) ==
  /\ Idle(r) /\ state[r] = "Unregistered"
  /\ state' = Retired(r)
  /\ task' = NoTask(r)
  /\ Forget(r)
  /\ UNCHANGED <<capacity, is_closed, buffer, receive_waiters, send_waiters,
                 value, in_hand, received, panicked>>

DropReceive(r) ==
  DropReceiveLinked(r) \/ DropReceiveNotified(r) \/ DropReceiveUnregistered(r)

(***************************************************************************)
(* GenericChannel::close, when the channel is open: both queues are        *)
(* drained, and everybody in them is Unregistered again and woken.         *)
(***************************************************************************)
Close ==
  LET drained == Nodes(receive_waiters) \cup Nodes(send_waiters) IN
  /\ ~is_closed
  /\ is_closed' = TRUE
  /\ receive_waiters' = << >>
  /\ send_waiters' = << >>
  /\ state' = [x \in Slots |-> IF x \in drained THEN "Unregistered"
                               ELSE state[x]]
  /\ task' = [x \in Slots |-> IF x \in drained THEN NoWaker ELSE task[x]]
  /\ woken' = woken \cup
       UNION {WokenBy(task[x], {y \in Slots : state[y] # "Done"}, latest) :
                x \in drained}
  /\ UNCHANGED <<capacity, buffer, value, in_hand, latest, received, panicked>>

(* waker.wake() of the waker a call returned, outside the raw lock. *)
WakeInHand(x) ==
  /\ ~Idle(x)
  /\ woken' = woken \cup
        WokenBy(in_hand[x], {y \in Slots : state[y] # "Done"}, latest)
  /\ in_hand' = [in_hand EXCEPT ![x] = NoWaker]
  /\ UNCHANGED <<capacity, is_closed, buffer, receive_waiters, send_waiters,
                 state, value, task, latest, received, panicked>>

-----------------------------------------------------------------------------
Next ==
  \/ \E s \in Senders :
       \/ \E v \in Values : Send(s, v) \/ TrySend(s, v)
       \/ \E w \in Wakers : PollSend(s, w)
       \/ CancelSend(s)
  \/ \E r \in Receivers :
       \/ Receive(r) \/ TryReceive(r)
       \/ \E w \in Wakers : PollReceive(r, w)
       \/ DropReceive(r)
  \/ Close
  \/ \E x \in Slots : WakeInHand(x)

(***************************************************************************)
(* A running call finishes, and the executor polls a future whose waker    *)
(* was woken.  Nobody has to send, receive or close.                       *)
(***************************************************************************)
PollWoken(x) ==
  /\ x \in woken
  /\ \E w \in Wakers : \/ x \in Senders /\ PollSend(x, w)
                       \/ x \in Receivers /\ PollReceive(x, w)

Fairness == \A x \in Slots : WF_vars(WakeInHand(x)) /\ WF_vars(PollWoken(x))

SafetySpec == Init /\ [][Next]_vars
Spec == SafetySpec /\ Fairness

-----------------------------------------------------------------------------
(***************************************************************************)
(* The types.  A node in a queue holds a waker, and a send node holds its  *)
(* value until the send is complete.                                       *)
(***************************************************************************)
SendPollState == {"Unregistered", "Registered", "SendComplete", "Done"}
RecvPollState == {"Unregistered", "Registered", "Notified", "Done"}

TypeOK ==
  /\ capacity \in Capacities
  /\ is_closed \in BOOLEAN
  /\ buffer \in Seq(Values)
  /\ receive_waiters \in Seq(Receivers)
  /\ send_waiters \in Seq(Senders)
  /\ state \in [Slots -> SendPollState \cup RecvPollState]
  /\ \A s \in Senders : state[s] \in SendPollState
  /\ \A r \in Receivers : state[r] \in RecvPollState
  /\ value \in [Senders -> Values \cup {NoValue}]
  /\ \A s \in Senders :
       value[s] \in Values <=> state[s] \in {"Unregistered", "Registered"}
  /\ task \in [Slots -> OptWaker]
  /\ \A x \in Slots : task[x] \in Wakers <=> state[x] = "Registered"
  /\ in_hand \in [Slots -> OptWaker]
  /\ latest \in [Slots -> OptWaker]
  /\ woken \in SUBSET Slots
  /\ received \in Values \cup {NoValue}
  /\ panicked \in BOOLEAN

(***************************************************************************)
(* Each queue holds exactly the registered futures of its kind, once, and  *)
(* none after close.                                                       *)
(***************************************************************************)
QueuesHoldWaiters ==
  /\ Distinct(receive_waiters) /\ Distinct(send_waiters)
  /\ Nodes(receive_waiters) = {r \in Receivers : state[r] = "Registered"}
  /\ Nodes(send_waiters) = {s \in Senders : state[s] = "Registered"}
  /\ is_closed => IsEmpty(receive_waiters) /\ IsEmpty(send_waiters)

(* A sender waits only at a full buffer. *)
SendersWaitWhenFull ==
  /\ Len(buffer) <= capacity
  /\ ~IsEmpty(send_waiters) => Len(buffer) = capacity

(***************************************************************************)
(* The expects, the assertion that a value is taken out of a waiting       *)
(* sender only in a channel without a buffer, and the forced removals      *)
(* never fail.                                                             *)
(***************************************************************************)
NeverPanics == ~panicked

(***************************************************************************)
(* No value lies around unannounced: while a receiver is asleep in the     *)
(* queue, at least as many receivers are on their way, notified, as there  *)
(* are values to be had, in the buffer or from waiting senders.            *)
(***************************************************************************)
NotifiedReceivers == {r \in Receivers : state[r] = "Notified"}

ValuesAnnounced ==
  ~IsEmpty(receive_waiters) =>
    Cardinality(NotifiedReceivers) >= Len(buffer) + Len(send_waiters)

(***************************************************************************)
(* No lost wake-up: a future that was polled and is no longer in a queue   *)
(* has had the waker of its latest poll woken since, or some call holds    *)
(* that waker and is about to wake it.                                     *)
(***************************************************************************)
Polled(x) == state[x] # "Done" /\ latest[x] # NoWaker

DequeuedIsWoken ==
  \A x \in Slots :
    Polled(x) /\ state[x] # "Registered" =>
      x \in woken \/ \E y \in Slots : in_hand[y] = latest[x]

(***************************************************************************)
(* The channel is a first-in-first-out sequence of the buffered values and *)
(* those of the waiting senders.                                           *)
(***************************************************************************)
Fifo == INSTANCE FifoChannel WITH
          closed <- is_closed,
          items <- buffer \o [i \in 1..Len(send_waiters) |->
                                value[send_waiters[i]]]

IsFifo == Fifo!Spec

(***************************************************************************)
(* A receiver does not sleep for ever in a channel that has a value: it is *)
(* resolved, notified or dropped, or the values are gone.                  *)
(***************************************************************************)
ValueReachesReceiver ==
  \A r \in Receivers :
    state[r] = "Registered" /\ HasValue ~> state[r] # "Registered" \/ ~HasValue

=============================================================================
