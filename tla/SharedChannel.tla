--------------------------- MODULE SharedChannel ---------------------------
(***************************************************************************)
(* The handles around a channel (src/channel/mpmc.rs).  A shared channel   *)
(* is used through cloneable, counted senders and receivers; the counts    *)
(* are atomics outside of the raw lock, and the drop that brings one to    *)
(* zero goes on to close the channel, and on the receiving side to clear   *)
(* it, in lock sections of their own.  The futures of a shared channel     *)
(* hold the channel themselves and outlive the handles.  A plain channel   *)
(* is borrowed: it lives, and can be used, as long as anybody wants it.    *)
(*                                                                         *)
(* On top of either, a receiving slot may read through a stream, which     *)
(* makes one receive future after the other.                               *)
(*                                                                         *)
(* A definition marked "a slip" is the code with one plausible mistake.    *)
(***************************************************************************)
EXTENDS Channel

CONSTANTS
  Programs,    \* for each program, the slots it uses, of either kind
  WakersOf     \* the wakers that the future on a slot is polled with

ASSUME SharedChannelAssumption ==
  /\ Programs \subseteq SUBSET Slots
  /\ WakersOf \in [Slots -> SUBSET Wakers]

VARIABLES
  shared,      \* whether this is a shared channel; fixed
  handle,      \* the slot's GenericSender or GenericReceiver: Held, Gone, or
               \* in the part of its drop that closes or clears the channel;
               \* Absent where the program never has one
  senders,     \* GenericChannelSharedState: the number of senders
  receivers,   \* GenericChannelSharedState: the number of receivers
  stream       \* the slot's stream: None, Open, or Terminated

handleVars == <<shared, handle, senders, receivers, stream>>
allVars == <<vars, handleVars>>

(* generic_channel: one sender and one receiver. *)
SharedInit ==
  /\ Init
  /\ shared \in BOOLEAN
  /\ \E program \in Programs :
     \E s \in program \cap Senders, r \in program \cap Receivers :
       handle = [x \in Slots |-> CASE x \notin program -> "Absent"
                                    [] ~shared \/ x \in {s, r} -> "Held"
                                    [] OTHER -> "Gone"]
  /\ senders = 1
  /\ receivers = 1
  /\ stream = [r \in Receivers |-> "None"]

-----------------------------------------------------------------------------
(* The slot can call the methods of its handle, which is not a stream's. *)
Usable(x) == handle[x] = "Held" /\ (x \in Receivers => stream[x] = "None")

(* What a slot does through its handle. *)
UseSender(s) ==
  /\ Usable(s)
  /\ \E v \in Values : Send(s, v) \/ TrySend(s, v)
  /\ UNCHANGED handleVars

UseReceiver(r) ==
  /\ Usable(r)
  /\ Receive(r) \/ TryReceive(r)
  /\ UNCHANGED handleVars

(* close of a sender, a receiver, a shared stream or a plain channel. *)
CloseHandle ==
  /\ \E x \in Slots : handle[x] = "Held"
  /\ Close
  /\ UNCHANGED handleVars

(* The futures need no handle; a stream's future is the stream's business. *)
UseSendFuture(s) ==
  /\ (\E w \in WakersOf[s] : PollSend(s, w)) \/ CancelSend(s)
  /\ UNCHANGED handleVars

UseReceiveFuture(r) ==
  /\ stream[r] = "None"
  /\ (\E w \in WakersOf[r] : PollReceive(r, w)) \/ DropReceive(r)
  /\ UNCHANGED handleVars

FinishWake(x) == WakeInHand(x) /\ UNCHANGED handleVars

-----------------------------------------------------------------------------
(* Clone: slot x hands a clone of its handle to slot y. *)
CloneSender(x, y) ==
  /\ shared /\ Usable(x) /\ handle[y] = "Gone"
  /\ senders' = senders + 1
  /\ handle' = [handle EXCEPT ![y] = "Held"]
  /\ UNCHANGED <<vars, shared, receivers, stream>>

CloneReceiverUncounted(x, y) ==      \* a slip
  /\ shared /\ Usable(x) /\ handle[y] = "Gone" /\ stream[y] = "None"
  /\ handle' = [handle EXCEPT ![y] = "Held"]
  /\ UNCHANGED <<vars, shared, senders, receivers, stream>>

CloneReceiver(x, y) ==
  /\ shared /\ Usable(x) /\ handle[y] = "Gone" /\ stream[y] = "None"
  /\ receivers' = receivers + 1
  /\ handle' = [handle EXCEPT ![y] = "Held"]
  /\ UNCHANGED <<vars, shared, senders, stream>>

(***************************************************************************)
(* Drop of a handle: the fetch_sub.  A slot is not in another call through *)
(* the handle it drops.                                                    *)
(***************************************************************************)
DropSenderQuietly(s) ==              \* a slip: no drop closes
  /\ shared /\ handle[s] = "Held" /\ Idle(s)
  /\ senders' = senders - 1
  /\ handle' = [handle EXCEPT ![s] = "Gone"]
  /\ UNCHANGED <<vars, shared, receivers, stream>>

DropSender(s) ==
  /\ shared /\ handle[s] = "Held" /\ Idle(s)
  /\ senders' = senders - 1
  /\ handle' = [handle EXCEPT ![s] = IF senders = 1 THEN "Closing" ELSE "Gone"]
  /\ UNCHANGED <<vars, shared, receivers, stream>>

DropReceiver(r) ==
  /\ shared /\ handle[r] = "Held" /\ Idle(r)
  /\ receivers' = receivers - 1
  /\ handle' = [handle EXCEPT ![r] = IF receivers = 1 THEN "Closing" ELSE "Gone"]
  /\ UNCHANGED <<vars, shared, senders, stream>>

(* ... and the rest of the drop of the last one of its side. *)
Shut == Close \/ (is_closed /\ UNCHANGED vars)

CloseLastSender(s) ==
  /\ handle[s] = "Closing"
  /\ Shut
  /\ handle' = [handle EXCEPT ![s] = "Gone"]
  /\ UNCHANGED <<shared, senders, receivers, stream>>

CloseLastReceiver(r) ==
  /\ handle[r] = "Closing"
  /\ Shut
  /\ handle' = [handle EXCEPT ![r] = "Clearing"]
  /\ UNCHANGED <<shared, senders, receivers, stream>>

(* ChannelState::clear pops everything; it refills from no waiting sender. *)
ClearNothing(r) ==                   \* a slip: the content is kept
  /\ handle[r] = "Clearing"
  /\ handle' = [handle EXCEPT ![r] = "Gone"]
  /\ UNCHANGED <<vars, shared, senders, receivers, stream>>

ClearLastReceiver(r) ==
  /\ handle[r] = "Clearing"
  /\ buffer' = << >>
  /\ handle' = [handle EXCEPT ![r] = "Gone"]
  /\ UNCHANGED <<capacity, is_closed, receive_waiters, send_waiters, state,
                 value, task, in_hand, latest, woken, received, panicked,
                 shared, senders, receivers, stream>>

-----------------------------------------------------------------------------
(* GenericChannel::stream, GenericReceiver::into_stream. *)
OpenStream(r) ==
  /\ Usable(r)
  /\ Unused(r)
  /\ stream' = [stream EXCEPT ![r] = "Open"]
  /\ UNCHANGED <<vars, shared, handle, senders, receivers>>

(***************************************************************************)
(* poll_next: without a future one is made and polled in the same call,    *)
(* and a resolved one is dropped.  None ends the stream; a stream that has *)
(* ended yields None and touches nothing.                                  *)
(***************************************************************************)
CanPollNext(r) == handle[r] = "Held" /\ stream[r] = "Open" /\ Idle(r)

PollNextEndsEarly(r, w) ==           \* a slip: ends while values are buffered
  /\ CanPollNext(r)
  /\ state[r] \in {"Done", "Unregistered", "Notified"}
  /\ is_closed
  /\ state' = Retired(r)
  /\ task' = NoTask(r)
  /\ Forget(r)
  /\ stream' = [stream EXCEPT ![r] = "Terminated"]
  /\ UNCHANGED <<capacity, is_closed, buffer, receive_waiters, send_waiters,
                 value, in_hand, received, panicked,
                 shared, handle, senders, receivers>>

PollNextEnds(r, w) ==
  /\ CanPollNext(r)
  /\ state[r] \in {"Done", "Unregistered", "Notified"}
  /\ ReceiveFailsClosed(r)
  /\ stream' = [stream EXCEPT ![r] = "Terminated"]
  /\ UNCHANGED <<capacity, is_closed, shared, handle, senders, receivers>>

PollNextContinues(r, w) ==
  /\ CanPollNext(r)
  /\ \/ /\ state[r] \in {"Done", "Unregistered", "Notified"}
        /\ ReceiveObtains(r) \/ ReceiveWaits(r, w)
        /\ UNCHANGED <<capacity, is_closed>>
     \/ PollRegistered(r, w)
  /\ UNCHANGED handleVars

PollNext(r, w) == PollNextEnds(r, w) \/ PollNextContinues(r, w)

(***************************************************************************)
(* Drop of a stream.  A shared stream drops its receiver first, with       *)
(* DropReceiver and what that entails, and its future after that; a plain  *)
(* one only has the future.                                                *)
(***************************************************************************)
DropStream(r) ==
  /\ stream[r] # "None" /\ Idle(r)
  /\ shared => handle[r] = "Gone"
  /\ DropReceive(r) \/ (state[r] = "Done" /\ UNCHANGED vars)
  /\ stream' = [stream EXCEPT ![r] = "None"]
  /\ UNCHANGED <<shared, handle, senders, receivers>>

-----------------------------------------------------------------------------
SharedNext ==
  \/ \E s \in Senders :
       \/ UseSender(s) \/ UseSendFuture(s)
       \/ \E y \in Senders : CloneSender(s, y)
       \/ DropSender(s) \/ CloseLastSender(s)
  \/ \E r \in Receivers :
       \/ UseReceiver(r) \/ UseReceiveFuture(r)
       \/ \E y \in Receivers : CloneReceiver(r, y)
       \/ DropReceiver(r) \/ CloseLastReceiver(r) \/ ClearLastReceiver(r)
       \/ OpenStream(r)
       \/ \E w \in WakersOf[r] : PollNext(r, w)
       \/ DropStream(r)
  \/ CloseHandle
  \/ \E x \in Slots : FinishWake(x)

(***************************************************************************)
(* A running call finishes, the executor polls whoever was woken, and a    *)
(* drop that has begun is carried out.  Nobody has to send, receive, close *)
(* or drop.                                                                *)
(***************************************************************************)
PollWokenShared(x) ==
  /\ x \in woken
  /\ \E w \in WakersOf[x] :
       \/ x \in Senders /\ PollSend(x, w) /\ UNCHANGED handleVars
       \/ /\ x \in Receivers /\ stream[x] = "None"
          /\ PollReceive(x, w) /\ UNCHANGED handleVars
       \/ x \in Receivers /\ PollNext(x, w)

FinishDrop(x) ==
  \/ x \in Senders /\ CloseLastSender(x)
  \/ x \in Receivers /\ (CloseLastReceiver(x) \/ ClearLastReceiver(x))
  \/ x \in Receivers /\ shared /\ DropStream(x)

SharedSpec ==
  /\ SharedInit
  /\ [][SharedNext]_allVars
  /\ \A x \in Slots : /\ WF_allVars(FinishWake(x))
                      /\ WF_allVars(PollWokenShared(x))
                      /\ WF_allVars(FinishDrop(x))

-----------------------------------------------------------------------------
(***************************************************************************)
(* Handles are closed by the right drop.  The counts are the live handles; *)
(* the last drop of a side is one drop, and while it runs nobody holds a   *)
(* handle of that side: so the values that clear destroys are values no    *)
(* receiver could have asked for any more.                                 *)
(***************************************************************************)
Holding(side) == {x \in side : handle[x] = "Held"}
Dropping(side) == {x \in side : handle[x] \in {"Closing", "Clearing"}}

LastDropIsAlone ==
  shared =>
    /\ senders = Cardinality(Holding(Senders))
    /\ receivers = Cardinality(Holding(Receivers))
    /\ Cardinality(Dropping(Senders)) <= 1
    /\ Cardinality(Dropping(Receivers)) <= 1
    /\ Dropping(Senders) # {} => Holding(Senders) = {}
    /\ Dropping(Receivers) # {} => Holding(Receivers) = {}

(***************************************************************************)
(* A channel whose senders or receivers are all gone is closed, and one    *)
(* without receivers keeps nothing: no value is left behind in it, and     *)
(* none is put into it, whatever the senders do between the count, the     *)
(* close and the clear.                                                    *)
(***************************************************************************)
Abandoned(side) == shared /\ \A x \in side : handle[x] \in {"Gone", "Absent"}

AbandonedIsEmpty ==
  /\ Abandoned(Senders) => is_closed
  /\ Abandoned(Receivers) => is_closed /\ buffer = << >> /\ send_waiters = << >>

(***************************************************************************)
(* A stream that has ended has not missed anything: the channel is closed  *)
(* and it has no value left, then and ever after.                          *)
(***************************************************************************)
EndedStreamMissesNothing ==
  \A r \in Receivers : stream[r] = "Terminated" => is_closed /\ ~HasValue

(***************************************************************************)
(* Every future and stream that waits when the channel is closed, or loses *)
(* its last sender or its last receiver, is resolved or dropped.           *)
(***************************************************************************)
AbandonedResolves ==
  \A x \in Slots :
    Polled(x) /\ (is_closed \/ senders = 0 \/ receivers = 0)
      ~> state[x] = "Done"
=============================================================================
