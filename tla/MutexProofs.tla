----------------------------- MODULE MutexProofs -----------------------------
(***************************************************************************)
(* The safety properties of the mutex, for any set of futures and wakers.  *)
(***************************************************************************)
EXTENDS Mutex, WaitQueueLemmas

(***************************************************************************)
(* What the properties rest on.  A slot with a guard has no pending future *)
(* any more; the waker stored in a waiting node is that of its latest      *)
(* poll; a fair mutex notifies only its oldest waiter and keeps the mutex  *)
(* free for it.                                                            *)
(***************************************************************************)
GuardIsDone == \A f \in guards : state[f] = "Done"

StoredWakerIsLatest ==
  \A f \in Futures :
    /\ state[f] = "Waiting" => latest[f] = task[f]
    /\ state[f] = "Notified" => latest[f] \in Wakers

FairNotifiedIsOldest ==
  \A f \in Futures :
    is_fair /\ state[f] = "Notified" =>
      ~is_locked /\ ~IsEmpty(waiters) /\ f = PeekLast(waiters)

IInv ==
  /\ TypeOK
  /\ GuardIsDone
  /\ MutualExclusion
  /\ QueueHoldsWaiters
  /\ NeverPanics
  /\ UnlockNotLost
  /\ StoredWakerIsLatest
  /\ NotifiedIsWoken
  /\ FairNotifiedIsOldest

-----------------------------------------------------------------------------
(* The queue after the future on slot f has been appended to it. *)
LEMMA EnqueueQueue ==
  ASSUME IInv, NEW f \in Futures, ~Queued(f)
  PROVE  /\ AddFront(waiters, f) \in Seq(Futures)
         /\ Distinct(AddFront(waiters, f))
         /\ Nodes(AddFront(waiters, f)) = Nodes(waiters) \cup {f}
         /\ ~IsEmpty(AddFront(waiters, f))
         /\ ~IsEmpty(waiters) =>
              PeekLast(AddFront(waiters, f)) = PeekLast(waiters)
<1>1. waiters \in Seq(Futures) /\ Distinct(waiters) /\ f \notin Nodes(waiters)
  BY DEF IInv, TypeOK, QueueHoldsWaiters
<1>2. /\ AddFront(waiters, f) \in Seq(Futures)
      /\ Nodes(AddFront(waiters, f)) = Nodes(waiters) \cup {f}
  BY <1>1, AddFrontProperties
<1>3. Distinct(AddFront(waiters, f))
  BY <1>1, AddFrontProperties
<1> QED
  BY <1>1, <1>2, <1>3, AddFrontKeepsLast

(* The queue after the node of slot f has been removed from it. *)
LEMMA DequeueQueue ==
  ASSUME IInv, NEW f \in Futures, Queued(f)
  PROVE  /\ IsLinked(waiters, f)
         /\ ~IsEmpty(waiters)
         /\ Remove(waiters, f) \in Seq(Futures)
         /\ Distinct(Remove(waiters, f))
         /\ Nodes(Remove(waiters, f)) = Nodes(waiters) \ {f}
         /\ f # PeekLast(waiters) =>
              /\ ~IsEmpty(Remove(waiters, f))
              /\ PeekLast(Remove(waiters, f)) = PeekLast(waiters)
<1>1. waiters \in Seq(Futures) /\ Distinct(waiters) /\ f \in Nodes(waiters)
  BY DEF IInv, TypeOK, QueueHoldsWaiters
<1>2. IsLinked(waiters, f)
  BY <1>1, IsLinkedNodes
<1>3. ~IsEmpty(waiters)
  BY <1>1, EmptyNodes
<1> QED
  BY <1>1, <1>2, <1>3, RemoveProperties, RemoveKeepsLast

(* Creating a future and try_lock leave the wait queue alone. *)
LEMMA LockInv ==
  ASSUME IInv, NEW f \in Futures, Lock(f)
  PROVE  IInv'
<1> USE DEF IInv, Lock, Unused, Idle
<1>1. TypeOK'
  BY DEF TypeOK, PollState, OptWaker
<1>2. GuardIsDone' /\ MutualExclusion' /\ NeverPanics'
  BY DEF TypeOK, GuardIsDone, MutualExclusion, NeverPanics
<1>3. QueueHoldsWaiters'
  BY DEF TypeOK, QueueHoldsWaiters, Queued
<1>4. UnlockNotLost' /\ FairNotifiedIsOldest'
  BY DEF TypeOK, UnlockNotLost, FairNotifiedIsOldest
<1>5. StoredWakerIsLatest' /\ NotifiedIsWoken'
  BY DEF TypeOK, StoredWakerIsLatest, NotifiedIsWoken, WakePending
<1> QED
  BY <1>1, <1>2, <1>3, <1>4, <1>5

LEMMA TryLockInv ==
  ASSUME IInv, NEW f \in Futures, TryLock(f)
  PROVE  IInv'
<1> USE DEF IInv, TryLock, Unused, Available
<1>1. TypeOK'
  BY DEF TypeOK
<1>2. GuardIsDone' /\ MutualExclusion' /\ NeverPanics'
  BY DEF TypeOK, GuardIsDone, MutualExclusion, NeverPanics
<1>3. QueueHoldsWaiters'
  BY DEF TypeOK, QueueHoldsWaiters, Queued
<1>4. UnlockNotLost' /\ FairNotifiedIsOldest'
  BY DEF TypeOK, UnlockNotLost, FairNotifiedIsOldest
<1>5. StoredWakerIsLatest' /\ NotifiedIsWoken'
  BY DEF TypeOK, StoredWakerIsLatest, NotifiedIsWoken, WakePending
<1> QED
  BY <1>1, <1>2, <1>3, <1>4, <1>5

(* A first poll takes the lock or enters the queue behind everybody else. *)
LEMMA PollNewInv ==
  ASSUME IInv, NEW f \in Futures, NEW w \in Wakers, PollNew(f, w)
  PROVE  IInv'
<1> USE DEF IInv, PollNew, Pending, Idle
<1>1. CASE Available /\ Acquire(f) /\ UNCHANGED waiters
  <2> USE <1>1 DEF Available, Acquire
  <2>1. TypeOK'
    BY DEF TypeOK, PollState, OptWaker
  <2>2. GuardIsDone' /\ MutualExclusion' /\ NeverPanics'
    BY DEF TypeOK, GuardIsDone, MutualExclusion, NeverPanics
  <2>3. QueueHoldsWaiters'
    BY DEF TypeOK, QueueHoldsWaiters, Queued
  <2>4. UnlockNotLost' /\ FairNotifiedIsOldest'
    BY DEF TypeOK, UnlockNotLost, FairNotifiedIsOldest
  <2>5. StoredWakerIsLatest' /\ NotifiedIsWoken'
    BY DEF TypeOK, StoredWakerIsLatest, NotifiedIsWoken, WakePending
  <2> QED
    BY <2>1, <2>2, <2>3, <2>4, <2>5
<1>2. CASE ~Available /\ Enqueue(f, w)
  <2> USE <1>2 DEF Enqueue
  <2>0. /\ ~Queued(f)
        /\ waiters' \in Seq(Futures) /\ Distinct(waiters')
        /\ Nodes(waiters') = Nodes(waiters) \cup {f} /\ ~IsEmpty(waiters')
        /\ ~IsEmpty(waiters) => PeekLast(waiters') = PeekLast(waiters)
    BY EnqueueQueue DEF Queued
  <2>1. TypeOK'
    BY <2>0 DEF TypeOK, PollState, OptWaker
  <2>2. GuardIsDone' /\ MutualExclusion' /\ NeverPanics'
    BY DEF TypeOK, GuardIsDone, MutualExclusion, NeverPanics
  <2>3. QueueHoldsWaiters'
    BY <2>0 DEF TypeOK, QueueHoldsWaiters, Queued
  <2>4. UnlockNotLost' /\ FairNotifiedIsOldest'
    BY <2>0 DEF TypeOK, UnlockNotLost, FairNotifiedIsOldest, Available
  <2>5. StoredWakerIsLatest' /\ NotifiedIsWoken'
    BY DEF TypeOK, StoredWakerIsLatest, NotifiedIsWoken, WakePending
  <2> QED
    BY <2>1, <2>2, <2>3, <2>4, <2>5
<1> QED
  BY <1>1, <1>2

(* A poll of a waiting future: an unfair mutex may hand out the lock at    *)
(* once, and must then unlink the node; otherwise the waker is refreshed.  *)
LEMMA PollWaitingInv ==
  ASSUME IInv, NEW f \in Futures, NEW w \in Wakers, PollWaiting(f, w)
  PROVE  IInv'
<1> USE DEF IInv, PollWaiting, Pending, Idle
<1>1. CASE ~is_fair /\ ~is_locked /\ RemovalPanics(f)
           /\ waiters' = Remove(waiters, f) /\ Acquire(f)
  <2> USE <1>1 DEF Acquire, RemovalPanics
  <2>0. /\ IsLinked(waiters, f)
        /\ waiters' \in Seq(Futures) /\ Distinct(waiters')
        /\ Nodes(waiters') = Nodes(waiters) \ {f}
    BY DequeueQueue DEF Queued
  <2>1. TypeOK'
    BY <2>0 DEF TypeOK, PollState, OptWaker
  <2>2. GuardIsDone' /\ MutualExclusion' /\ NeverPanics'
    BY <2>0 DEF TypeOK, GuardIsDone, MutualExclusion, NeverPanics
  <2>3. QueueHoldsWaiters'
    BY <2>0 DEF TypeOK, QueueHoldsWaiters, Queued
  <2>4. UnlockNotLost' /\ FairNotifiedIsOldest'
    BY DEF TypeOK, UnlockNotLost, FairNotifiedIsOldest
  <2>5. StoredWakerIsLatest' /\ NotifiedIsWoken'
    BY DEF TypeOK, StoredWakerIsLatest, NotifiedIsWoken, WakePending
  <2> QED
    BY <2>1, <2>2, <2>3, <2>4, <2>5
<1>2. CASE (is_fair \/ is_locked) /\ StayWaiting(f, w) /\ UNCHANGED panicked
  <2> USE <1>2 DEF StayWaiting, UpdateWakerRef
  <2>1. TypeOK'
    BY DEF TypeOK, PollState, OptWaker
  <2>2. GuardIsDone' /\ MutualExclusion' /\ NeverPanics'
    BY DEF TypeOK, GuardIsDone, MutualExclusion, NeverPanics
  <2>3. QueueHoldsWaiters'
    BY DEF TypeOK, QueueHoldsWaiters, Queued
  <2>4. UnlockNotLost' /\ FairNotifiedIsOldest'
    BY DEF TypeOK, UnlockNotLost, FairNotifiedIsOldest
  <2>5. StoredWakerIsLatest' /\ NotifiedIsWoken'
    BY DEF TypeOK, StoredWakerIsLatest, NotifiedIsWoken, WakePending
  <2> QED
    BY <2>1, <2>2, <2>3, <2>4, <2>5
<1> QED
  BY <1>1, <1>2

(* A poll of a notified future: it takes the lock, or finds that somebody  *)
(* barged in (unfair only) and queues up again.                            *)
LEMMA PollNotifiedInv ==
  ASSUME IInv, NEW f \in Futures, NEW w \in Wakers, PollNotified(f, w)
  PROVE  IInv'
<1> USE DEF IInv, PollNotified, Pending, Idle
<1>1. CASE ~is_locked /\ is_fair /\ RemovalPanics(f)
           /\ waiters' = Remove(waiters, f) /\ Acquire(f)
  <2> USE <1>1 DEF Acquire, RemovalPanics
  <2>0. /\ IsLinked(waiters, f)
        /\ waiters' \in Seq(Futures) /\ Distinct(waiters')
        /\ Nodes(waiters') = Nodes(waiters) \ {f}
    BY DequeueQueue DEF Queued
  <2>1. TypeOK'
    BY <2>0 DEF TypeOK, PollState, OptWaker
  <2>2. GuardIsDone' /\ MutualExclusion' /\ NeverPanics'
    BY <2>0 DEF TypeOK, GuardIsDone, MutualExclusion, NeverPanics
  <2>3. QueueHoldsWaiters'
    BY <2>0 DEF TypeOK, QueueHoldsWaiters, Queued
  <2>4. UnlockNotLost' /\ FairNotifiedIsOldest'
    BY DEF TypeOK, UnlockNotLost, FairNotifiedIsOldest
  <2>5. StoredWakerIsLatest' /\ NotifiedIsWoken'
    BY DEF TypeOK, StoredWakerIsLatest, NotifiedIsWoken, WakePending
  <2> QED
    BY <2>1, <2>2, <2>3, <2>4, <2>5
<1>2. CASE ~is_locked /\ ~is_fair /\ Acquire(f) /\ UNCHANGED <<waiters, panicked>>
  <2> USE <1>2 DEF Acquire
  <2>1. TypeOK'
    BY DEF TypeOK, PollState, OptWaker
  <2>2. GuardIsDone' /\ MutualExclusion' /\ NeverPanics'
    BY DEF TypeOK, GuardIsDone, MutualExclusion, NeverPanics
  <2>3. QueueHoldsWaiters'
    BY DEF TypeOK, QueueHoldsWaiters, Queued
  <2>4. UnlockNotLost' /\ FairNotifiedIsOldest'
    BY DEF TypeOK, UnlockNotLost, FairNotifiedIsOldest
  <2>5. StoredWakerIsLatest' /\ NotifiedIsWoken'
    BY DEF TypeOK, StoredWakerIsLatest, NotifiedIsWoken, WakePending
  <2> QED
    BY <2>1, <2>2, <2>3, <2>4, <2>5
<1>3. CASE is_locked /\ panicked' = (panicked \/ is_fair) /\ Enqueue(f, w)
  <2> USE <1>3 DEF Enqueue
  <2>0. /\ ~is_fair
        /\ waiters' \in Seq(Futures) /\ Distinct(waiters')
        /\ Nodes(waiters') = Nodes(waiters) \cup {f}
    <3>1. ~is_fair
      BY DEF FairNotifiedIsOldest
    <3> QED
      BY <3>1, EnqueueQueue DEF Queued
  <2>1. TypeOK'
    BY <2>0 DEF TypeOK, PollState, OptWaker
  <2>2. GuardIsDone' /\ MutualExclusion' /\ NeverPanics'
    BY <2>0 DEF TypeOK, GuardIsDone, MutualExclusion, NeverPanics
  <2>3. QueueHoldsWaiters'
    BY <2>0 DEF TypeOK, QueueHoldsWaiters, Queued
  <2>4. UnlockNotLost' /\ FairNotifiedIsOldest'
    BY <2>0 DEF TypeOK, UnlockNotLost, FairNotifiedIsOldest
  <2>5. StoredWakerIsLatest' /\ NotifiedIsWoken'
    BY DEF TypeOK, StoredWakerIsLatest, NotifiedIsWoken, WakePending
  <2> QED
    BY <2>1, <2>2, <2>3, <2>4, <2>5
<1> QED
  BY <1>1, <1>2, <1>3

(***************************************************************************)
(* return_last_waiter, called when every node of the queue q is Waiting    *)
(* and, for a fair mutex, when nobody is notified and the mutex is free:   *)
(* the notification goes to a future whose latest waker is then in hand.   *)
(***************************************************************************)
LEMMA ReturnLastWaiterInv ==
  ASSUME TypeOK, StoredWakerIsLatest, NotifiedIsWoken,
         NEW f \in Futures, Idle(f),
         NEW q \in Seq(Futures), Distinct(q),
         NEW st \in [Futures -> PollState],
         \A g \in Futures : st[g] = state[g] \/ st[g] = "Done",
         Nodes(q) = {g \in Futures : st[g] = "Waiting"},
         is_fair => \A g \in Futures : st[g] # "Notified",
         is_fair => ~is_locked',
         ReturnLastWaiter(f, q, st),
         is_fair' = is_fair,
         \A g \in Futures : st[g] # "Done" =>
           latest'[g] = latest[g] /\ (g \in woken => g \in woken')
  PROVE  /\ waiters' \in Seq(Futures)
         /\ state' \in [Futures -> PollState]
         /\ task' \in [Futures -> OptWaker]
         /\ in_hand' \in [Futures -> OptWaker]
         /\ \A g \in Futures : state'[g] = "Waiting" => task'[g] \in Wakers
         /\ \A g \in Futures : st[g] = "Done" => state'[g] = "Done"
         /\ QueueHoldsWaiters'
         /\ UnlockNotLost'
         /\ StoredWakerIsLatest'
         /\ NotifiedIsWoken'
         /\ FairNotifiedIsOldest'
<1>1. CASE IsEmpty(q)
  <2> USE <1>1 DEF ReturnLastWaiter
  <2>1. waiters' = q /\ state' = st /\ task' = task /\ in_hand' = in_hand
    OBVIOUS
  <2>2. /\ waiters' \in Seq(Futures) /\ state' \in [Futures -> PollState]
        /\ task' \in [Futures -> OptWaker] /\ in_hand' \in [Futures -> OptWaker]
        /\ \A g \in Futures : state'[g] = "Waiting" => task'[g] \in Wakers
        /\ \A g \in Futures : st[g] = "Done" => state'[g] = "Done"
    BY <2>1 DEF TypeOK
  <2>3. QueueHoldsWaiters' /\ UnlockNotLost' /\ FairNotifiedIsOldest'
    BY <2>1 DEF QueueHoldsWaiters, Queued, UnlockNotLost, FairNotifiedIsOldest
  <2>4. StoredWakerIsLatest' /\ NotifiedIsWoken'
    BY <2>1 DEF TypeOK, StoredWakerIsLatest, NotifiedIsWoken, WakePending
  <2> QED
    BY <2>2, <2>3, <2>4
<1>2. CASE ~IsEmpty(q)
  <2> DEFINE last == PeekLast(q)
  <2>1. /\ waiters' = IF is_fair THEN q ELSE RemoveLast(q)
        /\ state' = [st EXCEPT ![last] = "Notified"]
        /\ task' = [task EXCEPT ![last] = NoWaker]
        /\ in_hand' = [in_hand EXCEPT ![f] = task[last]]
    BY <1>2 DEF ReturnLastWaiter
  <2>2. last \in Futures /\ last \in Nodes(q)
    BY <1>2, RemoveLastProperties
  <2>3. /\ RemoveLast(q) \in Seq(Futures) /\ Distinct(RemoveLast(q))
        /\ Nodes(RemoveLast(q)) = Nodes(q) \ {last}
    BY <1>2, RemoveLastProperties
  <2> HIDE DEF last
  <2>4. /\ st[last] = "Waiting" /\ state[last] = "Waiting"
        /\ task[last] \in Wakers /\ latest[last] = task[last]
        /\ latest'[last] = latest[last]
    BY <2>2 DEF TypeOK, StoredWakerIsLatest
  <2>5. /\ waiters' \in Seq(Futures) /\ state' \in [Futures -> PollState]
        /\ task' \in [Futures -> OptWaker] /\ in_hand' \in [Futures -> OptWaker]
        /\ \A g \in Futures : state'[g] = "Waiting" => task'[g] \in Wakers
        /\ \A g \in Futures : st[g] = "Done" => state'[g] = "Done"
    BY <2>1, <2>2, <2>3, <2>4 DEF TypeOK, PollState, OptWaker
  <2>6. QueueHoldsWaiters'
    BY <2>1, <2>2, <2>3, <2>4 DEF QueueHoldsWaiters, Queued
  <2>7. UnlockNotLost' /\ FairNotifiedIsOldest'
    BY <1>2, <2>1, <2>2 DEF UnlockNotLost, FairNotifiedIsOldest, last
  <2>8. StoredWakerIsLatest'
    BY <2>1, <2>2, <2>4 DEF TypeOK, StoredWakerIsLatest
  <2>9. NotifiedIsWoken'
    <3> SUFFICES ASSUME NEW g \in Futures, state'[g] = "Notified"
                 PROVE  WakePending(g)'
      BY DEF NotifiedIsWoken
    <3>1. CASE g = last
      <4>1. in_hand'[f] = latest'[g] /\ latest'[g] # NoWaker
        BY <2>1, <2>4, <3>1, WakersAssumption DEF TypeOK
      <4> QED
        BY <4>1 DEF WakePending
    <3>2. CASE g # last
      <4>1. state[g] = "Notified" /\ latest'[g] = latest[g]
            /\ (g \in woken => g \in woken') /\ WakePending(g)
        BY <2>1, <2>2, <3>2 DEF NotifiedIsWoken
      <4>2. CASE g \in woken
        BY <4>1, <4>2 DEF WakePending
      <4>3. CASE g \notin woken
        <5>1. PICK h \in Futures : in_hand[h] = latest[g] /\ latest[g] # NoWaker
          BY <4>1, <4>3 DEF WakePending
        <5>2. in_hand'[h] = in_hand[h]
          BY <5>1, <2>1 DEF Idle, TypeOK
        <5> QED
          BY <5>1, <5>2, <4>1 DEF WakePending
      <4> QED
        BY <4>2, <4>3
    <3> QED
      BY <3>1, <3>2
  <2> QED
    BY <2>5, <2>6, <2>7, <2>8, <2>9
<1> QED
  BY <1>1, <1>2

(* Unlocking hands the notification to the oldest waiter. *)
LEMMA DropGuardInv ==
  ASSUME IInv, NEW f \in Futures, DropGuard(f)
  PROVE  IInv'
<1> USE DEF IInv, DropGuard
<1>1. is_locked /\ guards = {f} /\ guards' = {}
  BY DEF MutualExclusion
<1>2. /\ waiters \in Seq(Futures) /\ Distinct(waiters)
      /\ state \in [Futures -> PollState]
      /\ is_fair => \A g \in Futures : state[g] # "Notified"
      /\ Nodes(waiters) = {g \in Futures : state[g] = "Waiting"}
  BY <1>1 DEF TypeOK, QueueHoldsWaiters, Queued, FairNotifiedIsOldest
<1>3. /\ waiters' \in Seq(Futures) /\ state' \in [Futures -> PollState]
      /\ task' \in [Futures -> OptWaker] /\ in_hand' \in [Futures -> OptWaker]
      /\ \A g \in Futures : state'[g] = "Waiting" => task'[g] \in Wakers
      /\ QueueHoldsWaiters' /\ UnlockNotLost' /\ StoredWakerIsLatest'
      /\ NotifiedIsWoken' /\ FairNotifiedIsOldest'
  BY <1>1, <1>2, ReturnLastWaiterInv
<1>4. TypeOK'
  BY <1>1, <1>3 DEF TypeOK
<1>5. GuardIsDone' /\ MutualExclusion' /\ NeverPanics'
  BY <1>1 DEF GuardIsDone, MutualExclusion, NeverPanics
<1> QED
  BY <1>3, <1>4, <1>5

(* Cancelling a notified future passes the notification on. *)
LEMMA DropNotifiedInv ==
  ASSUME IInv, NEW f \in Futures, DropNotified(f)
  PROVE  IInv'
<1> USE DEF IInv, DropNotified, Pending, ForgetFuture
<1> DEFINE q == IF is_fair THEN Remove(waiters, f) ELSE waiters
           st == [state EXCEPT ![f] = "Done"]
<1>1. /\ is_fair => IsLinked(waiters, f)
      /\ q \in Seq(Futures) /\ Distinct(q) /\ Nodes(q) = Nodes(waiters) \ {f}
  <2>1. CASE is_fair
    BY <2>1, DequeueQueue DEF Queued
  <2>2. CASE ~is_fair
    BY <2>2 DEF TypeOK, QueueHoldsWaiters, Queued
  <2> QED
    BY <2>1, <2>2
<1>2. /\ st \in [Futures -> PollState]
      /\ \A g \in Futures : st[g] = state[g] \/ st[g] = "Done"
      /\ \A g \in Futures : g # f => st[g] = state[g]
      /\ st[f] = "Done"
  BY DEF TypeOK, PollState
<1>3. ReturnLastWaiter(f, q, st)
  OBVIOUS
<1>4. is_fair => ~is_locked'
  BY DEF FairNotifiedIsOldest
<1> HIDE DEF q, st
<1>5. is_fair => \A g \in Futures : st[g] # "Notified"
  BY <1>2 DEF FairNotifiedIsOldest
<1>6. Nodes(q) = {g \in Futures : st[g] = "Waiting"}
  BY <1>1, <1>2, <1>5 DEF QueueHoldsWaiters, Queued
<1>7. \A g \in Futures : st[g] # "Done" =>
         latest'[g] = latest[g] /\ (g \in woken => g \in woken')
  BY <1>2 DEF TypeOK
<1>8. /\ waiters' \in Seq(Futures) /\ state' \in [Futures -> PollState]
      /\ task' \in [Futures -> OptWaker] /\ in_hand' \in [Futures -> OptWaker]
      /\ \A g \in Futures : state'[g] = "Waiting" => task'[g] \in Wakers
      /\ \A g \in Futures : st[g] = "Done" => state'[g] = "Done"
      /\ QueueHoldsWaiters' /\ UnlockNotLost' /\ StoredWakerIsLatest'
      /\ NotifiedIsWoken' /\ FairNotifiedIsOldest'
  BY <1>1, <1>2, <1>3, <1>4, <1>5, <1>6, <1>7, ReturnLastWaiterInv
<1>9. NeverPanics'
  BY <1>1 DEF NeverPanics, RemovalPanics
<1>10. TypeOK'
  BY <1>8, <1>9 DEF TypeOK, NeverPanics, RemovalPanics, OptWaker
<1>11. GuardIsDone' /\ MutualExclusion'
  BY <1>2, <1>8 DEF TypeOK, GuardIsDone, MutualExclusion
<1> QED
  BY <1>8, <1>9, <1>10, <1>11

(* Cancelling a waiting or a new future concerns nobody else. *)
LEMMA DropWaitingInv ==
  ASSUME IInv, NEW f \in Futures, DropWaiting(f)
  PROVE  IInv'
<1> USE DEF IInv, DropWaiting, Pending, ForgetFuture, RemovalPanics
<1>0. /\ IsLinked(waiters, f) /\ ~IsEmpty(waiters)
      /\ waiters' \in Seq(Futures) /\ Distinct(waiters')
      /\ Nodes(waiters') = Nodes(waiters) \ {f}
      /\ f # PeekLast(waiters) =>
           ~IsEmpty(waiters') /\ PeekLast(waiters') = PeekLast(waiters)
  BY DequeueQueue DEF Queued
<1>1. TypeOK'
  BY <1>0 DEF TypeOK, PollState, OptWaker
<1>2. GuardIsDone' /\ MutualExclusion' /\ NeverPanics'
  BY <1>0 DEF TypeOK, GuardIsDone, MutualExclusion, NeverPanics
<1>3. QueueHoldsWaiters'
  BY <1>0 DEF TypeOK, QueueHoldsWaiters, Queued
<1>4. UnlockNotLost' /\ FairNotifiedIsOldest'
  BY <1>0 DEF TypeOK, UnlockNotLost, FairNotifiedIsOldest
<1>5. StoredWakerIsLatest' /\ NotifiedIsWoken'
  BY DEF TypeOK, StoredWakerIsLatest, NotifiedIsWoken, WakePending
<1> QED
  BY <1>1, <1>2, <1>3, <1>4, <1>5

LEMMA DropNewInv ==
  ASSUME IInv, NEW f \in Futures, DropNew(f)
  PROVE  IInv'
<1> USE DEF IInv, DropNew, Pending, ForgetFuture
<1>1. TypeOK'
  BY DEF TypeOK, PollState, OptWaker
<1>2. GuardIsDone' /\ MutualExclusion' /\ NeverPanics'
  BY DEF TypeOK, GuardIsDone, MutualExclusion, NeverPanics
<1>3. QueueHoldsWaiters'
  BY DEF TypeOK, QueueHoldsWaiters, Queued
<1>4. UnlockNotLost' /\ FairNotifiedIsOldest'
  BY DEF TypeOK, UnlockNotLost, FairNotifiedIsOldest
<1>5. StoredWakerIsLatest' /\ NotifiedIsWoken'
  BY DEF TypeOK, StoredWakerIsLatest, NotifiedIsWoken, WakePending
<1> QED
  BY <1>1, <1>2, <1>3, <1>4, <1>5

(* Waking reaches every future whose latest waker was in hand. *)
LEMMA WakeInHandInv ==
  ASSUME IInv, NEW f \in Futures, WakeInHand(f)
  PROVE  IInv'
<1> USE DEF IInv, WakeInHand, WokenBy
<1>1. TypeOK'
  BY DEF TypeOK, OptWaker
<1>2. GuardIsDone' /\ MutualExclusion' /\ NeverPanics'
  BY DEF GuardIsDone, MutualExclusion, NeverPanics
<1>3. QueueHoldsWaiters'
  BY DEF QueueHoldsWaiters, Queued
<1>4. UnlockNotLost' /\ FairNotifiedIsOldest' /\ StoredWakerIsLatest'
  BY DEF UnlockNotLost, FairNotifiedIsOldest, StoredWakerIsLatest
<1>5. NotifiedIsWoken'
  BY DEF TypeOK, NotifiedIsWoken, WakePending
<1> QED
  BY <1>1, <1>2, <1>3, <1>4, <1>5

-----------------------------------------------------------------------------
(* The invariant holds of a new mutex. *)
LEMMA InitInv == Init => IInv
<1> SUFFICES ASSUME Init PROVE IInv
  OBVIOUS
<1>1. waiters \in Seq(Futures) /\ IsEmpty(waiters) /\ Len(waiters) = 0
  BY EmptySeq DEF Init, IsEmpty
<1>2. Nodes(waiters) = {} /\ Distinct(waiters)
  BY <1>1 DEF Nodes, Distinct
<1> QED
  BY <1>1, <1>2 DEF Init, IInv, TypeOK, PollState, OptWaker, GuardIsDone,
     MutualExclusion, QueueHoldsWaiters, Queued, NeverPanics, UnlockNotLost,
     StoredWakerIsLatest, NotifiedIsWoken, FairNotifiedIsOldest

(* Every call of the interface preserves it. *)
LEMMA NextInv == IInv /\ [Next]_vars => IInv'
<1> SUFFICES ASSUME IInv, [Next]_vars PROVE IInv'
  OBVIOUS
<1>1. CASE UNCHANGED vars
  BY <1>1 DEF vars, IInv, TypeOK, GuardIsDone, MutualExclusion,
     QueueHoldsWaiters, Queued, NeverPanics, UnlockNotLost,
     StoredWakerIsLatest, NotifiedIsWoken, WakePending, FairNotifiedIsOldest
<1>2. ASSUME NEW f \in Futures, Lock(f) PROVE IInv'
  BY <1>2, LockInv
<1>3. ASSUME NEW f \in Futures, TryLock(f) PROVE IInv'
  BY <1>3, TryLockInv
<1>4. ASSUME NEW f \in Futures, NEW w \in Wakers, Poll(f, w) PROVE IInv'
  BY <1>4, PollNewInv, PollWaitingInv, PollNotifiedInv DEF Poll
<1>5. ASSUME NEW f \in Futures, DropGuard(f) PROVE IInv'
  BY <1>5, DropGuardInv
<1>6. ASSUME NEW f \in Futures, DropFuture(f) PROVE IInv'
  BY <1>6, DropNotifiedInv, DropWaitingInv, DropNewInv DEF DropFuture
<1>7. ASSUME NEW f \in Futures, WakeInHand(f) PROVE IInv'
  BY <1>7, WakeInHandInv
<1> QED
  BY <1>1, <1>2, <1>3, <1>4, <1>5, <1>6, <1>7 DEF Next

(* The invariant holds in every reachable state. *)
LEMMA Invariance == Spec => []IInv
  BY InitInv, NextInv, PTL DEF Spec, SafetySpec

(***************************************************************************)
(* Every state of every execution is well typed.                           *)
(***************************************************************************)
THEOREM TypeCorrect == Spec => []TypeOK
<1>1. IInv => TypeOK
  BY DEF IInv
<1> QED
  BY <1>1, Invariance, PTL

(***************************************************************************)
(* The lock is held by at most one guard, and is_locked tells whether it   *)
(* is, however lock futures are polled, cancelled and moved between tasks. *)
(***************************************************************************)
THEOREM Exclusion == Spec => []MutualExclusion
<1>1. IInv => MutualExclusion
  BY DEF IInv
<1> QED
  BY <1>1, Invariance, PTL

(***************************************************************************)
(* The intrusive list never refers to a future that has been dropped or    *)
(* has completed, and no node is linked twice.                             *)
(***************************************************************************)
THEOREM QueueIsSound == Spec => []QueueHoldsWaiters
<1>1. IInv => QueueHoldsWaiters
  BY DEF IInv
<1> QED
  BY <1>1, Invariance, PTL

(***************************************************************************)
(* The forced removals always find their node, and a fair mutex is free    *)
(* whenever a notified future polls it.                                    *)
(***************************************************************************)
THEOREM PanicFree == Spec => []NeverPanics
<1>1. IInv => NeverPanics
  BY DEF IInv
<1> QED
  BY <1>1, Invariance, PTL

(***************************************************************************)
(* A free mutex with waiters has notified one of them.                     *)
(***************************************************************************)
THEOREM NoLostUnlock == Spec => []UnlockNotLost
<1>1. IInv => UnlockNotLost
  BY DEF IInv
<1> QED
  BY <1>1, Invariance, PTL

(***************************************************************************)
(* A notified future's latest waker has been woken or is about to be.      *)
(***************************************************************************)
THEOREM NoLostWakeup == Spec => []NotifiedIsWoken
<1>1. IInv => NotifiedIsWoken
  BY DEF IInv
<1> QED
  BY <1>1, Invariance, PTL

-----------------------------------------------------------------------------
(***************************************************************************)
(* A step of a fair mutex with waiters gives the lock to the oldest waiter *)
(* or to nobody, and lets nobody move ahead in the queue.                  *)
(***************************************************************************)
LEMMA FairStep ==
  ASSUME IInv, Next, is_fair, ~IsEmpty(waiters)
  PROVE  /\ guards' \subseteq guards \cup {PeekLast(waiters)}
         /\ KeepsOrder(waiters, waiters')
<1> DEFINE Goal == /\ guards' \subseteq guards \cup {PeekLast(waiters)}
                   /\ KeepsOrder(waiters, waiters')
<1>0. waiters \in Seq(Futures) /\ Distinct(waiters)
  BY DEF IInv, TypeOK, QueueHoldsWaiters
<1>1. ASSUME waiters' = waiters, guards' \subseteq guards  PROVE Goal
  BY <1>1, SameKeepsOrder
<1>2. ASSUME NEW f \in Futures, Queued(f), waiters' = Remove(waiters, f),
             guards' \subseteq guards \cup {PeekLast(waiters)}
      PROVE  Goal
  BY <1>0, <1>2, DequeueQueue, RemoveKeepsOrder
<1>3. ASSUME NEW f \in Futures, ~Queued(f), waiters' = AddFront(waiters, f),
             guards' \subseteq guards
      PROVE  Goal
  <2>1. f \notin Nodes(waiters)
    BY <1>3 DEF IInv, QueueHoldsWaiters
  <2> QED
    BY <1>0, <1>3, <2>1, AddFrontKeepsOrder
<1> HIDE DEF Goal
<1>4. ASSUME NEW f \in Futures, Lock(f) \/ DropNew(f) \/ WakeInHand(f) PROVE Goal
  BY <1>1, <1>4 DEF Lock, DropNew, WakeInHand, ForgetFuture
<1>5. ASSUME NEW f \in Futures, TryLock(f) PROVE Goal
  BY <1>5 DEF TryLock, Available
<1>6. ASSUME NEW f \in Futures, NEW w \in Wakers, PollNew(f, w) PROVE Goal
  BY <1>3, <1>6 DEF PollNew, Available, Enqueue, Queued
<1>7. ASSUME NEW f \in Futures, NEW w \in Wakers, PollWaiting(f, w) PROVE Goal
  BY <1>1, <1>7 DEF PollWaiting, StayWaiting
<1>8. ASSUME NEW f \in Futures, NEW w \in Wakers, PollNotified(f, w) PROVE Goal
  <2>1. Queued(f) /\ f = PeekLast(waiters) /\ ~is_locked
    BY <1>8 DEF PollNotified, Queued, IInv, FairNotifiedIsOldest
  <2> QED
    BY <1>2, <1>8, <2>1 DEF PollNotified, Acquire
<1>9. ASSUME NEW f \in Futures, DropGuard(f) PROVE Goal
  BY <1>1, <1>9 DEF DropGuard, ReturnLastWaiter
<1>10. ASSUME NEW f \in Futures, DropNotified(f) PROVE Goal
  <2>1. waiters' = Remove(waiters, f) /\ guards' = guards /\ Queued(f)
    BY <1>10 DEF DropNotified, ReturnLastWaiter, ForgetFuture, Queued
  <2> QED
    BY <1>2, <2>1
<1>11. ASSUME NEW f \in Futures, DropWaiting(f) PROVE Goal
  BY <1>2, <1>11 DEF DropWaiting, ForgetFuture, Queued
<1> QED
  BY <1>4, <1>5, <1>6, <1>7, <1>8, <1>9, <1>10, <1>11
     DEF Next, Poll, DropFuture, Goal

(***************************************************************************)
(* The fair mutex is first come, first served.                             *)
(***************************************************************************)
THEOREM Fair == Spec => NoOvertaking
<1>1. IInv /\ [Next]_vars =>
        [is_fair /\ ~IsEmpty(waiters) =>
           /\ guards' \subseteq guards \cup {PeekLast(waiters)}
           /\ KeepsOrder(waiters, waiters')]_vars
  BY FairStep
<1> QED
  BY <1>1, Invariance, PTL DEF Spec, SafetySpec, NoOvertaking
=============================================================================
