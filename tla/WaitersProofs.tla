--------------------------- MODULE WaitersProofs ---------------------------
(***************************************************************************)
(* What the operations of the wait queue preserve, whatever is waited for: *)
(* one lemma per operation, for the proofs about the primitives.  The      *)
(* event, which is such a queue and a flag, follows from them at once; the *)
(* channels have a module of their own.                                    *)
(***************************************************************************)
EXTENDS ManualResetEvent, WaitQueueLemmas, TLAPS

(***************************************************************************)
(* The waker stored in a queued node is that of its latest poll, and a     *)
(* slot without a future has none.                                         *)
(***************************************************************************)
StoredWakerIsLatest ==
  \A f \in Futures :
    /\ state[f] \in InQueue => task[f] \in Wakers /\ latest[f] = task[f]
    /\ state[f] = "Gone" => latest[f] = NoWaker

WaitersInv ==
  /\ WaitersTypeOK
  /\ QueueHoldsWaiters
  /\ StoredWakerIsLatest
  /\ DrainedIsWoken

-----------------------------------------------------------------------------
(* The queue is empty at first. *)
LEMMA WaitersInitInv == WaitersInit => WaitersInv
<1> SUFFICES ASSUME WaitersInit PROVE WaitersInv
  OBVIOUS
<1> USE DEF WaitersInit
<1>1. << >> \in Seq(Futures) /\ Len(<< >>) = 0
  BY EmptySeq
<1>2. WaitersTypeOK
  BY <1>1 DEF WaitersTypeOK, PollState, OptWaker
<1>3. Distinct(waiters) /\ Nodes(waiters) = {}
  <2>1. Nodes(waiters) = {}
    BY <1>1, EmptyNodes DEF IsEmpty
  <2>2. Distinct(waiters)
    BY <1>1 DEF Distinct
  <2> QED
    BY <2>1, <2>2
<1>4. QueueHoldsWaiters
  BY <1>3 DEF QueueHoldsWaiters, InQueue
<1>5. StoredWakerIsLatest /\ DrainedIsWoken
  BY DEF StoredWakerIsLatest, DrainedIsWoken, Polled, InQueue
<1> QED
  BY <1>2, <1>4, <1>5 DEF WaitersInv

(* Steps that leave the wait queue alone. *)
LEMMA UnchangedWaitersInv == WaitersInv /\ UNCHANGED waiterVars => WaitersInv'
  BY DEF WaitersInv, waiterVars, WaitersTypeOK, QueueHoldsWaiters,
         StoredWakerIsLatest, DrainedIsWoken, Polled

(* A new future was never polled. *)
LEMMA CreateInv ==
  ASSUME WaitersInv, NEW f \in Futures, NEW initial \in PollState \ InQueue,
         initial # "Gone", Create(f, initial)
  PROVE  WaitersInv'
<1> USE DEF WaitersInv, Create
<1>1. WaitersTypeOK'
  BY DEF WaitersTypeOK
<1>2. QueueHoldsWaiters'
  <2>1. \A g \in Futures : state'[g] \in InQueue <=> state[g] \in InQueue
    BY DEF WaitersTypeOK, InQueue
  <2> QED
    BY <2>1 DEF QueueHoldsWaiters
<1>3. StoredWakerIsLatest'
  BY DEF WaitersTypeOK, StoredWakerIsLatest
<1>4. DrainedIsWoken'
  BY DEF WaitersTypeOK, StoredWakerIsLatest, DrainedIsWoken, Polled
<1> QED
  BY <1>1, <1>2, <1>3, <1>4

(* The node of a pending future enters the queue with the waker of the poll. *)
LEMMA RegisterInv ==
  ASSUME WaitersInv, NEW f \in Futures, NEW w \in Wakers,
         NEW registered \in InQueue, state[f] \notin InQueue,
         Register(f, w, registered)
  PROVE  WaitersInv'
<1>1. waiters \in Seq(Futures) /\ Distinct(waiters) /\ f \notin Nodes(waiters)
  BY DEF WaitersInv, WaitersTypeOK, QueueHoldsWaiters
<1>2. /\ AddFront(waiters, f) \in Seq(Futures)
      /\ Nodes(AddFront(waiters, f)) = Nodes(waiters) \cup {f}
  <2>1. AddFront(waiters, f) \in Seq(Futures)
    BY <1>1, AddFrontProperties
  <2>2. Nodes(AddFront(waiters, f)) = Nodes(waiters) \cup {f}
    BY <1>1, AddFrontProperties
  <2> QED
    BY <2>1, <2>2
<1>3. Distinct(AddFront(waiters, f))
  BY <1>1, AddFrontProperties
<1> USE DEF WaitersInv, Register
<1>4. registered \in PollState /\ registered # "Gone"
  BY DEF InQueue, PollState
<1>5. WaitersTypeOK'
  BY <1>2, <1>4 DEF WaitersTypeOK, OptWaker
<1>6. QueueHoldsWaiters'
  <2>1. \A g \in Futures : state'[g] \in InQueue <=> g = f \/ state[g] \in InQueue
    BY DEF WaitersTypeOK
  <2> QED
    BY <1>2, <1>3, <2>1 DEF QueueHoldsWaiters
<1>7. StoredWakerIsLatest'
  BY <1>4 DEF WaitersTypeOK, StoredWakerIsLatest
<1>8. DrainedIsWoken'
  BY DEF WaitersTypeOK, DrainedIsWoken, Polled
<1> QED
  BY <1>5, <1>6, <1>7, <1>8

(* A registered future is polled again: update_waker_ref keeps the stored    *)
(* waker the latest.                                                         *)
LEMMA StayRegisteredInv ==
  ASSUME WaitersInv, NEW f \in Futures, NEW w \in Wakers, StayRegistered(f, w)
  PROVE  WaitersInv'
<1> USE DEF WaitersInv, StayRegistered
<1>1. UpdateWakerRef(task[f], w) = w
  BY DEF UpdateWakerRef
<1>2. WaitersTypeOK'
  BY <1>1 DEF WaitersTypeOK, OptWaker
<1>3. QueueHoldsWaiters'
  BY DEF QueueHoldsWaiters
<1>4. StoredWakerIsLatest'
  BY <1>1 DEF WaitersTypeOK, StoredWakerIsLatest, InQueue
<1>5. DrainedIsWoken'
  BY DEF WaitersTypeOK, DrainedIsWoken, Polled
<1> QED
  BY <1>2, <1>3, <1>4, <1>5

(* What is left of a future that resolved or was dropped. *)
LEMMA VanishInv ==
  ASSUME WaitersInv, NEW f \in Futures, Vanish(f)
  PROVE  /\ state' \in [Futures -> PollState]
         /\ task' \in [Futures -> OptWaker]
         /\ latest' \in [Futures -> OptWaker]
         /\ woken' \in SUBSET Futures
         /\ \A g \in Futures :
              state'[g] \in InQueue <=> g # f /\ state[g] \in InQueue
         /\ StoredWakerIsLatest'
         /\ DrainedIsWoken'
<1> USE DEF WaitersInv, Vanish
<1>1. /\ state' \in [Futures -> PollState]
      /\ task' \in [Futures -> OptWaker]
      /\ latest' \in [Futures -> OptWaker]
      /\ woken' \in SUBSET Futures
  BY DEF WaitersTypeOK, PollState, OptWaker
<1>2. \A g \in Futures : state'[g] \in InQueue <=> g # f /\ state[g] \in InQueue
  BY DEF WaitersTypeOK, InQueue
<1>3. StoredWakerIsLatest'
  BY DEF WaitersTypeOK, StoredWakerIsLatest, InQueue
<1>4. DrainedIsWoken'
  BY DEF WaitersTypeOK, DrainedIsWoken, Polled
<1> QED
  BY <1>1, <1>2, <1>3, <1>4

(* A future that is not in the queue resolves. *)
LEMMA ResolveInv ==
  ASSUME WaitersInv, NEW f \in Futures, state[f] \notin InQueue, Resolve(f)
  PROVE  WaitersInv'
<1>1. Vanish(f) /\ UNCHANGED <<waiters, panicked>>
  BY DEF Resolve
<1>2. WaitersTypeOK'
  BY <1>1, VanishInv DEF WaitersInv, WaitersTypeOK
<1>3. \A g \in Futures : state'[g] \in InQueue <=> state[g] \in InQueue
  BY <1>1, VanishInv
<1>4. QueueHoldsWaiters'
  BY <1>1, <1>3 DEF WaitersInv, QueueHoldsWaiters
<1> QED
  BY <1>1, <1>2, <1>4, VanishInv DEF WaitersInv

(* The drop of a future takes its node out of the queue and never fails. *)
LEMMA RemoveWaiterInv ==
  ASSUME WaitersInv, NEW f \in Futures, RemoveWaiter(f)
  PROVE  WaitersInv' /\ (IsEmpty(waiters) => IsEmpty(waiters'))
<1>1. Vanish(f)
  BY DEF RemoveWaiter
<1>2. waiters \in Seq(Futures) /\ Distinct(waiters)
  BY DEF WaitersInv, WaitersTypeOK, QueueHoldsWaiters
<1>3. CASE state[f] \in InQueue
  <2>1. f \in Nodes(waiters)
    BY <1>3 DEF WaitersInv, QueueHoldsWaiters
  <2>2. IsLinked(waiters, f) /\ ~IsEmpty(waiters)
    BY <1>2, <2>1, IsLinkedNodes, EmptyNodes
  <2>3. /\ Remove(waiters, f) \in Seq(Futures)
        /\ Distinct(Remove(waiters, f))
        /\ Nodes(Remove(waiters, f)) = Nodes(waiters) \ {f}
    BY <1>2, <2>2, RemoveProperties
  <2>4. waiters' = Remove(waiters, f) /\ panicked' = panicked
    BY <1>3, <2>2 DEF RemoveWaiter, WaitersInv, WaitersTypeOK
  <2>5. WaitersTypeOK'
    BY <1>1, <2>3, <2>4, VanishInv DEF WaitersInv, WaitersTypeOK
  <2>6. \A g \in Futures : state'[g] \in InQueue <=> g # f /\ state[g] \in InQueue
    BY <1>1, VanishInv
  <2>7. QueueHoldsWaiters'
    BY <2>3, <2>4, <2>6 DEF WaitersInv, QueueHoldsWaiters
  <2> QED
    BY <1>1, <2>2, <2>5, <2>7, VanishInv DEF WaitersInv
<1>4. CASE state[f] \notin InQueue
  <2>1. Resolve(f)
    BY <1>4 DEF RemoveWaiter, Resolve
  <2> QED
    BY <1>4, <2>1, ResolveInv DEF Resolve
<1> QED
  BY <1>3, <1>4

(* The drain wakes everybody in the queue through the latest waker. *)
LEMMA DrainInv ==
  ASSUME WaitersInv, NEW drained \in PollState \ InQueue, drained # "Gone",
         Drain(drained)
  PROVE  WaitersInv' /\ IsEmpty(waiters')
<1> USE DEF WaitersInv
<1>1. \A f \in Futures : IsLinked(waiters, f) <=> state[f] \in InQueue
  BY IsLinkedNodes DEF QueueHoldsWaiters
<1>2. waiters' = << >> /\ IsEmpty(waiters') /\ << >> \in Seq(Futures) /\ Len(<< >>) = 0
  BY EmptySeq DEF Drain, IsEmpty
<1>3. /\ state' = [f \in Futures |-> IF state[f] \in InQueue THEN drained
                                      ELSE state[f]]
      /\ task' = [f \in Futures |-> IF state[f] \in InQueue THEN NoWaker
                                     ELSE task[f]]
      /\ latest' = latest /\ panicked' = panicked
  BY <1>1 DEF Drain
<1>4. woken' \in SUBSET Futures /\ woken \subseteq woken'
  BY DEF Drain, WokenBy, WaitersTypeOK
<1>5. \A f \in Futures : state[f] \in InQueue => f \in woken'
  <2> SUFFICES ASSUME NEW f \in Futures, state[f] \in InQueue
               PROVE  f \in woken'
    OBVIOUS
  <2>1. f \in Nodes(waiters) /\ state[f] # "Gone" /\ latest[f] = task[f]
    BY DEF QueueHoldsWaiters, StoredWakerIsLatest, InQueue
  <2>2. f \in WokenBy(task[f], {g \in Futures : state[g] # "Gone"}, latest)
    BY <2>1 DEF WokenBy
  <2> QED
    BY <2>1, <2>2 DEF Drain
<1>6. WaitersTypeOK'
  BY <1>2, <1>3, <1>4 DEF WaitersTypeOK, OptWaker
<1>7. QueueHoldsWaiters'
  <2>1. Nodes(waiters') = {} /\ Distinct(waiters')
    <3>1. Nodes(<< >>) = {}
      BY <1>2, EmptyNodes DEF IsEmpty
    <3>2. Distinct(<< >>)
      BY <1>2 DEF Distinct
    <3> QED
      BY <1>2, <3>1, <3>2
  <2>2. \A f \in Futures : state'[f] \notin InQueue
    BY <1>3
  <2> QED
    BY <1>3, <2>1, <2>2 DEF QueueHoldsWaiters
<1>8. StoredWakerIsLatest'
  BY <1>3 DEF StoredWakerIsLatest, WaitersTypeOK
<1>9. DrainedIsWoken'
  BY <1>3, <1>4, <1>5 DEF DrainedIsWoken, Polled
<1> QED
  BY <1>2, <1>6, <1>7, <1>8, <1>9

-----------------------------------------------------------------------------
(* The event: while it is set, nobody is in the queue. *)
EventInv ==
  /\ is_set \in BOOLEAN
  /\ WaitersInv
  /\ is_set => IsEmpty(waiters)

(* The event may be created set or not; nobody waits yet. *)
LEMMA EventInitInv == EventInit => EventInv
  BY WaitersInitInv DEF EventInit, EventInv, WaitersInit, IsEmpty

(* set leaves nobody in the queue, and reset leaves everybody where he is. *)
LEMMA SetInv == EventInv /\ Set => EventInv'
<1> SUFFICES ASSUME EventInv, Set PROVE EventInv'
  OBVIOUS
<1>1. "Done" \in PollState \ InQueue /\ "Done" # "Gone"
  BY DEF PollState, InQueue
<1>2. WaitersInv' /\ IsEmpty(waiters')
  BY <1>1, DrainInv DEF EventInv, Set
<1> QED
  BY <1>2 DEF EventInv, Set

LEMMA ResetInv == EventInv /\ Reset => EventInv'
  BY UnchangedWaitersInv DEF EventInv, Reset

(* The futures enter the queue only while the event is not set. *)
LEMMA WaitInv ==
  ASSUME EventInv, NEW f \in Futures, Wait(f)
  PROVE  EventInv'
<1>1. "New" \in PollState \ InQueue /\ "New" # "Gone"
  BY DEF PollState, InQueue
<1>2. WaitersInv'
  BY <1>1, CreateInv DEF EventInv, Wait
<1> QED
  BY <1>2 DEF EventInv, Wait, Create

LEMMA PollEventInv ==
  ASSUME EventInv, NEW f \in Futures, NEW w \in Wakers, PollEvent(f, w)
  PROVE  EventInv'
<1>1. CASE PollNew(f, w)
  <2>1. state[f] \notin InQueue
    BY <1>1 DEF PollNew, InQueue
  <2>2. CASE is_set
    BY <1>1, <2>1, <2>2, ResolveInv DEF EventInv, PollNew, Resolve
  <2>3. CASE ~is_set
    <3>1. "Waiting" \in InQueue
      BY DEF InQueue
    <3>2. WaitersInv'
      BY <1>1, <2>1, <2>3, <3>1, RegisterInv DEF EventInv, PollNew
    <3> QED
      BY <1>1, <2>3, <3>2 DEF EventInv, PollNew
  <2> QED
    BY <2>2, <2>3
<1>2. CASE PollWaiting(f, w)
  BY <1>2, StayRegisteredInv DEF EventInv, PollWaiting, StayRegistered
<1>3. CASE PollDone(f)
  <2>1. state[f] \notin InQueue
    BY <1>3 DEF PollDone, InQueue
  <2> QED
    BY <1>3, <2>1, ResolveInv DEF EventInv, PollDone, Resolve
<1> QED
  BY <1>1, <1>2, <1>3 DEF PollEvent

LEMMA DropWaitInv ==
  ASSUME EventInv, NEW f \in Futures, DropWait(f)
  PROVE  EventInv'
  BY RemoveWaiterInv DEF EventInv, DropWait

-----------------------------------------------------------------------------
(* The invariant is preserved by every step of every program. *)
THEOREM EventInvariance == EventSpec => []EventInv
<1>1. EventInit => EventInv
  BY EventInitInv
<1>2. EventInv /\ [EventNext]_eventVars => EventInv'
  <2> SUFFICES ASSUME EventInv, [EventNext]_eventVars PROVE EventInv'
    OBVIOUS
  <2>1. CASE Set
    BY <2>1, SetInv
  <2>2. CASE Reset
    BY <2>2, ResetInv
  <2>3. CASE \E f \in Futures : Wait(f)
    BY <2>3, WaitInv
  <2>4. CASE \E f \in Futures : DropWait(f)
    BY <2>4, DropWaitInv
  <2>5. CASE \E f \in Futures, w \in Wakers : PollEvent(f, w)
    BY <2>5, PollEventInv
  <2>6. CASE UNCHANGED eventVars
    BY <2>6, UnchangedWaitersInv DEF EventInv, eventVars, waiterVars
  <2> QED
    BY <2>1, <2>2, <2>3, <2>4, <2>5, <2>6 DEF EventNext
<1> QED
  BY <1>1, <1>2, PTL DEF EventSpec, EventSafetySpec

(* Nobody waits at a set event, and the queue holds exactly the waiters, so  *)
(* the drop of a future always finds its node.                               *)
THEOREM NobodyWaitsWhenSet == EventSpec => []WaitingMeansUnset
<1>1. EventInv => WaitingMeansUnset
  BY DEF EventInv, WaitersInv, WaitingMeansUnset
<1> QED
  BY <1>1, EventInvariance, PTL

(* A waiter that set has released has had its latest waker woken.            *)
THEOREM EventWakesWaiters == EventSpec => []DrainedIsWoken
<1>1. EventInv => DrainedIsWoken
  BY DEF EventInv, WaitersInv
<1> QED
  BY <1>1, EventInvariance, PTL
=============================================================================
