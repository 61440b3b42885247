--------------------------- MODULE SemaphoreProofs ---------------------------
(***************************************************************************)
(* The safety properties of the semaphore, for any finite set of futures,  *)
(* any set of wakers and any workload.                                     *)
(***************************************************************************)
EXTENDS Semaphore, WaitQueueLemmas, FiniteSetTheorems

(***************************************************************************)
(* What the properties rest on: the waker stored in a waiting node is that *)
(* of its latest poll, and the one future a fair semaphore notifies is its *)
(* oldest waiter, for which the permits suffice until it polls.            *)
(***************************************************************************)
StoredWakerIsLatest ==
  \A f \in Futures : state[f] = "Waiting" => latest[f] = task[f]

FairNotifiedCanAcquire ==
  \A f \in Futures :
    is_fair /\ state[f] = "Notified" =>
      /\ ~IsEmpty(waiters)
      /\ f = PeekLast(waiters)
      /\ required[f] <= permits

IInv ==
  /\ TypeOK
  /\ QueueHoldsWaiters
  /\ NeverPanics
  /\ StoredWakerIsLatest
  /\ NotifiedIsWoken
  /\ FairNotifiedCanAcquire

-----------------------------------------------------------------------------
(* The queue after the future on slot f has been appended to it. *)
LEMMA EnqueueQueue ==
  ASSUME IInv, NEW f \in Futures, ~Queued(f)
  PROVE  /\ AddFront(waiters, f) \in Seq(Futures)
         /\ Distinct(AddFront(waiters, f))
         /\ Nodes(AddFront(waiters, f)) = Nodes(waiters) \cup {f}
         /\ ~IsEmpty(AddFront(waiters, f))
         /\ PeekLast(AddFront(waiters, f)) =
              IF IsEmpty(waiters) THEN f ELSE PeekLast(waiters)
<1>1. waiters \in Seq(Futures) /\ Distinct(waiters) /\ f \notin Nodes(waiters)
  BY DEF IInv, TypeOK, QueueHoldsWaiters
<1>2. /\ AddFront(waiters, f) \in Seq(Futures)
      /\ Nodes(AddFront(waiters, f)) = Nodes(waiters) \cup {f}
  BY <1>1, AddFrontProperties
<1>3. Distinct(AddFront(waiters, f))
  BY <1>1, AddFrontProperties
<1> QED
  BY <1>1, <1>2, <1>3, AddFrontKeepsLast

(* The queue after the node of slot f has been removed from it. *)
LEMMA DequeueQueue ==
  ASSUME IInv, NEW f \in Futures, Queued(f)
  PROVE  /\ IsLinked(waiters, f)
         /\ ~IsEmpty(waiters)
         /\ Remove(waiters, f) \in Seq(Futures)
         /\ Distinct(Remove(waiters, f))
         /\ Nodes(Remove(waiters, f)) = Nodes(waiters) \ {f}
         /\ f # PeekLast(waiters) =>
              /\ ~IsEmpty(Remove(waiters, f))
              /\ PeekLast(Remove(waiters, f)) = PeekLast(waiters)
<1>1. waiters \in Seq(Futures) /\ Distinct(waiters) /\ f \in Nodes(waiters)
  BY DEF IInv, TypeOK, QueueHoldsWaiters
<1>2. IsLinked(waiters, f)
  BY <1>1, IsLinkedNodes
<1>3. ~IsEmpty(waiters)
  BY <1>1, EmptyNodes
<1> QED
  BY <1>1, <1>2, <1>3, RemoveProperties, RemoveKeepsLast

(***************************************************************************)
(* wakeup_waiters, called when q holds the futures that st says are        *)
(* queued and, for a fair semaphore, when a future that is still notified  *)
(* is the oldest and can acquire: whoever is notified afterwards has been  *)
(* woken, and the oldest waiter is notified if the permits suffice.        *)
(***************************************************************************)
LEMMA WakeupWaitersInv ==
  ASSUME TypeOK, StoredWakerIsLatest,
         NEW q \in Seq(Futures), Distinct(q),
         NEW st \in [Futures -> PollState],
         \A g \in Futures : st[g] = state[g] \/ st[g] = "Done",
         Nodes(q) = {g \in Futures : \/ st[g] = "Waiting"
                                     \/ is_fair /\ st[g] = "Notified"},
         NEW wk \in SUBSET Futures,
         \A g \in Futures : st[g] = "Notified" => g \in wk,
         NEW available \in Nat,
         \A g \in Futures : is_fair /\ st[g] = "Notified" =>
           ~IsEmpty(q) /\ g = PeekLast(q) /\ required[g] <= available,
         WakeupWaiters(q, st, wk, available),
         is_fair' = is_fair, task' = task, required' = required,
         latest' = latest, permits' = available
  PROVE  /\ waiters' \in Seq(Futures)
         /\ state' \in [Futures -> PollState]
         /\ woken' \in SUBSET Futures
         /\ \A g \in Futures : state'[g] = "Waiting" => task'[g] \in Wakers
         /\ QueueHoldsWaiters'
         /\ StoredWakerIsLatest'
         /\ NotifiedIsWoken'
         /\ FairNotifiedCanAcquire'
         /\ OldestNotified'
         /\ is_fair => waiters' = q
<1> DEFINE pending == {g \in Futures : st[g] # "Done"}
           reached(n) == {q[i] : i \in 1..n}
<1>1. PICK n \in 0..Len(q) :
        /\ StopsAfter(q, n, available)
        /\ state' = [g \in Futures |-> IF g \in reached(n) THEN "Notified"
                                       ELSE st[g]]
        /\ waiters' = IF is_fair THEN q ELSE SubSeq(q, n + 1, Len(q))
        /\ woken' = wk \cup UNION {WokenBy(task[g], pending, latest) :
                        g \in {h \in reached(n) : st[h] # "Notified"}}
  BY DEF WakeupWaiters
<1> DEFINE r == reached(n)
<1>2. Len(q) \in Nat /\ r \subseteq Nodes(q)
  BY LenProperties DEF Nodes
<1>3. Nodes(q) \subseteq Futures
  OBVIOUS
<1>4. /\ SubSeq(q, n + 1, Len(q)) \in Seq(Futures)
      /\ Distinct(SubSeq(q, n + 1, Len(q)))
      /\ Nodes(SubSeq(q, n + 1, Len(q))) = Nodes(q) \ r
  BY DropOldestProperties
<1>5. is_fair /\ r # {} =>
        ~IsEmpty(q) /\ r = {PeekLast(q)} /\ required[PeekLast(q)] <= available
  <2> SUFFICES ASSUME is_fair, r # {}
               PROVE  ~IsEmpty(q) /\ r = {PeekLast(q)}
                      /\ required[PeekLast(q)] <= available
    OBVIOUS
  <2>1. n = 1 /\ ~IsEmpty(q) /\ required[PeekLast(q)] <= available
    BY <1>1 DEF StopsAfter
  <2>2. PeekLast(q) = q[1]
    BY <2>1, RemoveLastProperties
  <2> QED
    BY <2>1, <2>2
<1>6. is_fair /\ ~IsEmpty(q) /\ required[PeekLast(q)] <= available =>
        PeekLast(q) \in r
  <2> SUFFICES ASSUME is_fair, ~IsEmpty(q), required[PeekLast(q)] <= available
               PROVE  PeekLast(q) \in r
    OBVIOUS
  <2>1. n = 1
    BY <1>1 DEF StopsAfter
  <2>2. PeekLast(q) = q[1]
    BY RemoveLastProperties
  <2> QED
    BY <2>1, <2>2
<1>7. /\ state' = [g \in Futures |-> IF g \in r THEN "Notified" ELSE st[g]]
      /\ waiters' = IF is_fair THEN q ELSE SubSeq(q, n + 1, Len(q))
      /\ woken' = wk \cup UNION {WokenBy(task[g], pending, latest) :
                                   g \in {h \in r : st[h] # "Notified"}}
  BY <1>1
<1> HIDE DEF r, reached
<1>8. /\ waiters' \in Seq(Futures)
      /\ state' \in [Futures -> PollState]
      /\ \A g \in Futures : state'[g] = "Waiting" => task'[g] \in Wakers
      /\ is_fair => waiters' = q
  BY <1>4, <1>7 DEF TypeOK, PollState
<1>9. woken' \in SUBSET Futures
  BY <1>7 DEF WokenBy
<1>10. QueueHoldsWaiters'
  BY <1>2, <1>3, <1>4, <1>5, <1>7 DEF QueueHoldsWaiters, Queued
<1>11. StoredWakerIsLatest'
  BY <1>7 DEF StoredWakerIsLatest
<1>12. NotifiedIsWoken'
  <2> SUFFICES ASSUME NEW g \in Futures, state'[g] = "Notified"
               PROVE  g \in woken'
    BY DEF NotifiedIsWoken
  <2>1. CASE st[g] = "Notified"
    BY <1>7, <2>1
  <2>2. CASE st[g] # "Notified"
    <3>1. g \in r /\ st[g] = "Waiting"
      BY <1>2, <1>7, <2>2
    <3>2. latest[g] = task[g] /\ g \in pending
      BY <3>1 DEF StoredWakerIsLatest
    <3>3. g \in WokenBy(task[g], pending, latest)
      BY <3>2 DEF WokenBy
    <3> QED
      BY <1>7, <2>2, <3>1, <3>3
  <2> QED
    BY <2>1, <2>2
<1>13. FairNotifiedCanAcquire'
  BY <1>5, <1>7, <1>8 DEF FairNotifiedCanAcquire
<1>14. OldestNotified'
  <2> SUFFICES ASSUME is_fair, ~IsEmpty(q), required[PeekLast(q)] <= available
               PROVE  state'[PeekLast(q)] = "Notified"
    BY <1>8 DEF OldestNotified, TypeOK
  <2>1. PeekLast(q) \in Futures
    BY RemoveLastProperties
  <2> QED
    BY <1>6, <1>7, <2>1
<1> QED
  BY <1>8, <1>9, <1>10, <1>11, <1>12, <1>13, <1>14

-----------------------------------------------------------------------------
(* Calls that leave the wait queue and the poll states of the others alone. *)
LEMMA AcquireInv ==
  ASSUME IInv, NEW f \in Futures, NEW n \in amounts, Acquire(f, n)
  PROVE  IInv'
<1> USE DEF IInv, Acquire, Unused
<1>0. n \in Nat
  BY SemaphoreAssumption DEF TypeOK
<1>1. TypeOK'
  BY <1>0 DEF TypeOK, PollState, OptWaker
<1>2. QueueHoldsWaiters' /\ NeverPanics'
  BY DEF TypeOK, QueueHoldsWaiters, Queued, NeverPanics
<1>3. StoredWakerIsLatest' /\ NotifiedIsWoken'
  BY DEF TypeOK, StoredWakerIsLatest, NotifiedIsWoken
<1>4. FairNotifiedCanAcquire'
  BY DEF TypeOK, FairNotifiedCanAcquire
<1> QED
  BY <1>1, <1>2, <1>3, <1>4

LEMMA TryAcquireInv ==
  ASSUME IInv, NEW f \in Futures, NEW n \in amounts, TryAcquire(f, n)
  PROVE  IInv'
<1> USE DEF IInv, TryAcquire, Unused, Available
<1>0. n \in Nat
  BY SemaphoreAssumption DEF TypeOK
<1>1. TypeOK'
  BY <1>0 DEF TypeOK
<1>2. QueueHoldsWaiters' /\ NeverPanics'
  BY DEF QueueHoldsWaiters, Queued, NeverPanics
<1>3. StoredWakerIsLatest' /\ NotifiedIsWoken'
  BY DEF StoredWakerIsLatest, NotifiedIsWoken
<1>4. FairNotifiedCanAcquire'
  BY <1>0 DEF TypeOK, FairNotifiedCanAcquire
<1> QED
  BY <1>1, <1>2, <1>3, <1>4

LEMMA DisarmInv ==
  ASSUME IInv, NEW f \in Futures, Disarm(f)
  PROVE  IInv'
  BY DEF IInv, Disarm, TypeOK, QueueHoldsWaiters, Queued, NeverPanics,
     StoredWakerIsLatest, NotifiedIsWoken, FairNotifiedCanAcquire

LEMMA DropNewInv ==
  ASSUME IInv, NEW f \in Futures, DropNew(f)
  PROVE  IInv'
<1> USE DEF IInv, DropNew
<1>1. TypeOK'
  BY DEF TypeOK, PollState
<1>2. QueueHoldsWaiters' /\ NeverPanics'
  BY DEF TypeOK, QueueHoldsWaiters, Queued, NeverPanics
<1>3. StoredWakerIsLatest' /\ NotifiedIsWoken'
  BY DEF TypeOK, StoredWakerIsLatest, NotifiedIsWoken
<1>4. FairNotifiedCanAcquire'
  BY DEF TypeOK, FairNotifiedCanAcquire
<1> QED
  BY <1>1, <1>2, <1>3, <1>4

(* A first poll obtains its permits or enters the queue. *)
LEMMA PollNewInv ==
  ASSUME IInv, NEW f \in Futures, NEW w \in Wakers, PollNew(f, w)
  PROVE  IInv'
<1> USE DEF IInv, PollNew
<1>1. CASE /\ Available(required[f]) /\ Obtain(f)
           /\ state' = [state EXCEPT ![f] = "Done"] /\ UNCHANGED waiters
  <2> USE <1>1 DEF Available, Obtain
  <2>1. TypeOK'
    BY DEF TypeOK, PollState
  <2>2. QueueHoldsWaiters' /\ NeverPanics'
    BY DEF TypeOK, QueueHoldsWaiters, Queued, NeverPanics
  <2>3. StoredWakerIsLatest' /\ NotifiedIsWoken'
    BY DEF TypeOK, StoredWakerIsLatest, NotifiedIsWoken
  <2>4. FairNotifiedCanAcquire'
    BY DEF TypeOK, FairNotifiedCanAcquire
  <2> QED
    BY <2>1, <2>2, <2>3, <2>4
<1>2. CASE ~Available(required[f]) /\ Enqueue(f, w)
  <2> USE <1>2 DEF Enqueue
  <2>0. /\ waiters' \in Seq(Futures) /\ Distinct(waiters')
        /\ Nodes(waiters') = Nodes(waiters) \cup {f} /\ ~IsEmpty(waiters')
        /\ PeekLast(waiters') = IF IsEmpty(waiters) THEN f ELSE PeekLast(waiters)
    BY EnqueueQueue DEF Queued
  <2>1. TypeOK'
    BY <2>0 DEF TypeOK, PollState, OptWaker
  <2>2. QueueHoldsWaiters' /\ NeverPanics'
    BY <2>0 DEF TypeOK, QueueHoldsWaiters, Queued, NeverPanics
  <2>3. StoredWakerIsLatest' /\ NotifiedIsWoken'
    BY DEF TypeOK, StoredWakerIsLatest, NotifiedIsWoken
  <2>4. FairNotifiedCanAcquire'
    BY <2>0 DEF TypeOK, FairNotifiedCanAcquire
  <2> QED
    BY <2>1, <2>2, <2>3, <2>4
<1> QED
  BY <1>1, <1>2

(* A waiting future obtains permits (unfair only) or refreshes its waker. *)
LEMMA PollWaitingInv ==
  ASSUME IInv, NEW f \in Futures, NEW w \in Wakers, PollWaiting(f, w)
  PROVE  IInv'
<1> USE DEF IInv, PollWaiting
<1>1. CASE /\ ~is_fair /\ permits >= required[f]
           /\ RemovalPanics(f) /\ waiters' = Remove(waiters, f) /\ Obtain(f)
           /\ state' = [state EXCEPT ![f] = "Done"]
  <2> USE <1>1 DEF Obtain, RemovalPanics
  <2>0. /\ IsLinked(waiters, f)
        /\ waiters' \in Seq(Futures) /\ Distinct(waiters')
        /\ Nodes(waiters') = Nodes(waiters) \ {f}
    BY DequeueQueue DEF Queued
  <2>1. TypeOK'
    BY <2>0 DEF TypeOK, PollState
  <2>2. QueueHoldsWaiters' /\ NeverPanics'
    BY <2>0 DEF TypeOK, QueueHoldsWaiters, Queued, NeverPanics
  <2>3. StoredWakerIsLatest' /\ NotifiedIsWoken'
    BY DEF TypeOK, StoredWakerIsLatest, NotifiedIsWoken
  <2>4. FairNotifiedCanAcquire'
    BY DEF TypeOK, FairNotifiedCanAcquire
  <2> QED
    BY <2>1, <2>2, <2>3, <2>4
<1>2. CASE /\ is_fair \/ permits < required[f]
           /\ StayWaiting(f, w) /\ UNCHANGED panicked
  <2> USE <1>2 DEF StayWaiting, UpdateWakerRef
  <2>1. TypeOK'
    BY DEF TypeOK, PollState, OptWaker
  <2>2. QueueHoldsWaiters' /\ NeverPanics'
    BY DEF TypeOK, QueueHoldsWaiters, Queued, NeverPanics
  <2>3. StoredWakerIsLatest' /\ NotifiedIsWoken'
    BY DEF TypeOK, StoredWakerIsLatest, NotifiedIsWoken
  <2>4. FairNotifiedCanAcquire'
    BY DEF TypeOK, FairNotifiedCanAcquire
  <2> QED
    BY <2>1, <2>2, <2>3, <2>4
<1> QED
  BY <1>1, <1>2

(***************************************************************************)
(* The notified future of a fair semaphore leaves the queue, by obtaining  *)
(* its permits or by being dropped, and wakeup_waiters looks at the next.  *)
(***************************************************************************)
LEMMA FairLeaveInv ==
  ASSUME IInv, is_fair, NEW f \in Futures, state[f] = "Notified",
         NEW available \in Nat,
         WakeupWaiters(Remove(waiters, f), [state EXCEPT ![f] = "Done"],
                       woken \ {f}, available),
         is_fair' = is_fair, task' = task, required' = required,
         latest' = latest, permits' = available
  PROVE  /\ IsLinked(waiters, f)
         /\ waiters' = Remove(waiters, f)
         /\ waiters' \in Seq(Futures)
         /\ state' \in [Futures -> PollState]
         /\ woken' \in SUBSET Futures
         /\ \A g \in Futures : state'[g] = "Waiting" => task'[g] \in Wakers
         /\ QueueHoldsWaiters' /\ StoredWakerIsLatest'
         /\ NotifiedIsWoken' /\ FairNotifiedCanAcquire' /\ OldestNotified'
<1> DEFINE q == Remove(waiters, f)
           st == [state EXCEPT ![f] = "Done"]
<1>1. Queued(f)
  BY DEF Queued
<1>2. /\ IsLinked(waiters, f) /\ q \in Seq(Futures) /\ Distinct(q)
      /\ Nodes(q) = Nodes(waiters) \ {f}
  BY <1>1, DequeueQueue
<1>3. /\ st \in [Futures -> PollState] /\ st[f] = "Done"
      /\ \A g \in Futures : g # f => st[g] = state[g]
  BY DEF IInv, TypeOK, PollState
<1>4. WakeupWaiters(q, st, woken \ {f}, available)
  OBVIOUS
<1> HIDE DEF q, st
<1>5. \A g \in Futures : st[g] # "Notified"
  BY <1>3 DEF IInv, FairNotifiedCanAcquire
<1>6. Nodes(q) = {g \in Futures : \/ st[g] = "Waiting"
                                  \/ is_fair /\ st[g] = "Notified"}
  BY <1>2, <1>3, <1>5 DEF IInv, QueueHoldsWaiters, Queued
<1>7. \A g \in Futures : st[g] = state[g] \/ st[g] = "Done"
  BY <1>3
<1>8. woken \ {f} \in SUBSET Futures
  BY DEF IInv, TypeOK
<1>9. TypeOK /\ StoredWakerIsLatest
  BY DEF IInv
<1>10. /\ waiters' \in Seq(Futures)
       /\ state' \in [Futures -> PollState]
       /\ woken' \in SUBSET Futures
       /\ \A g \in Futures : state'[g] = "Waiting" => task'[g] \in Wakers
       /\ QueueHoldsWaiters' /\ StoredWakerIsLatest'
       /\ NotifiedIsWoken' /\ FairNotifiedCanAcquire' /\ OldestNotified'
       /\ is_fair => waiters' = q
  BY <1>2, <1>3, <1>4, <1>5, <1>6, <1>7, <1>8, <1>9, WakeupWaitersInv
<1> QED
  BY <1>2, <1>10 DEF q

LEMMA PollNotifiedInv ==
  ASSUME IInv, NEW f \in Futures, NEW w \in Wakers, PollNotified(f, w)
  PROVE  IInv'
<1> USE DEF IInv, PollNotified
<1>1. CASE /\ permits >= required[f] /\ is_fair /\ RemovalPanics(f) /\ Obtain(f)
           /\ WakeupWaiters(Remove(waiters, f), [state EXCEPT ![f] = "Done"],
                            woken \ {f}, permits - required[f])
  <2> USE <1>1 DEF Obtain, RemovalPanics
  <2>1. permits - required[f] \in Nat
    BY DEF TypeOK
  <2>2. /\ IsLinked(waiters, f)
        /\ waiters' \in Seq(Futures)
        /\ state' \in [Futures -> PollState]
        /\ woken' \in SUBSET Futures
        /\ \A g \in Futures : state'[g] = "Waiting" => task'[g] \in Wakers
        /\ QueueHoldsWaiters' /\ StoredWakerIsLatest'
        /\ NotifiedIsWoken' /\ FairNotifiedCanAcquire'
    BY <2>1, FairLeaveInv
  <2>3. TypeOK' /\ NeverPanics'
    BY <2>1, <2>2 DEF TypeOK, NeverPanics
  <2> QED
    BY <2>2, <2>3
<1>2. CASE /\ permits >= required[f] /\ ~is_fair /\ Obtain(f)
           /\ state' = [state EXCEPT ![f] = "Done"] /\ woken' = woken \ {f}
           /\ UNCHANGED <<waiters, panicked>>
  <2> USE <1>2 DEF Obtain
  <2>1. TypeOK'
    BY DEF TypeOK, PollState
  <2>2. QueueHoldsWaiters' /\ NeverPanics'
    BY DEF TypeOK, QueueHoldsWaiters, Queued, NeverPanics
  <2>3. StoredWakerIsLatest' /\ NotifiedIsWoken'
    BY DEF TypeOK, StoredWakerIsLatest, NotifiedIsWoken
  <2>4. FairNotifiedCanAcquire'
    BY DEF TypeOK, FairNotifiedCanAcquire
  <2> QED
    BY <2>1, <2>2, <2>3, <2>4
<1>3. CASE /\ permits < required[f] /\ panicked' = (panicked \/ is_fair)
           /\ Enqueue(f, w) /\ woken' = woken \ {f}
  <2> USE <1>3 DEF Enqueue
  <2>0. ~is_fair
    BY DEF FairNotifiedCanAcquire, TypeOK
  <2>1. /\ waiters' \in Seq(Futures) /\ Distinct(waiters')
        /\ Nodes(waiters') = Nodes(waiters) \cup {f}
    BY <2>0, EnqueueQueue DEF Queued
  <2>2. TypeOK'
    BY <2>1 DEF TypeOK, PollState, OptWaker
  <2>3. QueueHoldsWaiters' /\ NeverPanics'
    BY <2>0, <2>1 DEF TypeOK, QueueHoldsWaiters, Queued, NeverPanics
  <2>4. StoredWakerIsLatest' /\ NotifiedIsWoken'
    BY DEF TypeOK, StoredWakerIsLatest, NotifiedIsWoken
  <2>5. FairNotifiedCanAcquire'
    BY <2>0 DEF TypeOK, FairNotifiedCanAcquire
  <2> QED
    BY <2>2, <2>3, <2>4, <2>5
<1> QED
  BY <1>1, <1>2, <1>3

(* Released permits: what was sufficient before still is. *)
LEMMA ReleasePermitsInv ==
  ASSUME IInv, NEW n \in Nat, ReleasePermits(n),
         is_fair' = is_fair, task' = task, required' = required,
         latest' = latest
  PROVE  /\ permits' \in Nat
         /\ waiters' \in Seq(Futures)
         /\ state' \in [Futures -> PollState]
         /\ woken' \in SUBSET Futures
         /\ \A g \in Futures : state'[g] = "Waiting" => task'[g] \in Wakers
         /\ QueueHoldsWaiters' /\ StoredWakerIsLatest'
         /\ NotifiedIsWoken' /\ FairNotifiedCanAcquire' /\ OldestNotified'
         /\ is_fair => waiters' = waiters
<1> USE DEF IInv
<1>1. /\ permits + n \in Nat /\ permits' = permits + n
      /\ WakeupWaiters(waiters, state, woken, permits + n)
  BY DEF ReleasePermits, TypeOK
<1>2. /\ waiters \in Seq(Futures) /\ Distinct(waiters)
      /\ state \in [Futures -> PollState] /\ woken \in SUBSET Futures
      /\ Nodes(waiters) = {g \in Futures : \/ state[g] = "Waiting"
                                           \/ is_fair /\ state[g] = "Notified"}
  BY DEF TypeOK, QueueHoldsWaiters, Queued
<1>3. \A g \in Futures : is_fair /\ state[g] = "Notified" =>
        ~IsEmpty(waiters) /\ g = PeekLast(waiters) /\ required[g] <= permits + n
  BY DEF TypeOK, FairNotifiedCanAcquire
<1>4. TypeOK /\ StoredWakerIsLatest
      /\ \A g \in Futures : state[g] = "Notified" => g \in woken
  BY DEF NotifiedIsWoken
<1> QED
  BY <1>1, <1>2, <1>3, <1>4, WakeupWaitersInv

LEMMA DropReleaserInv ==
  ASSUME IInv, NEW f \in Futures, DropReleaser(f)
  PROVE  IInv'
<1> USE DEF IInv, DropReleaser
<1>1. held[f] \in Nat
  BY DEF TypeOK
<1>2. /\ permits' \in Nat /\ waiters' \in Seq(Futures)
      /\ state' \in [Futures -> PollState] /\ woken' \in SUBSET Futures
      /\ \A g \in Futures : state'[g] = "Waiting" => task'[g] \in Wakers
      /\ QueueHoldsWaiters' /\ StoredWakerIsLatest'
      /\ NotifiedIsWoken' /\ FairNotifiedCanAcquire'
  BY <1>1, ReleasePermitsInv
<1>3. TypeOK' /\ NeverPanics'
  BY <1>2 DEF TypeOK, NeverPanics
<1> QED
  BY <1>2, <1>3

LEMMA ReleaseInv ==
  ASSUME IInv, NEW n \in amounts, Release(n)
  PROVE  IInv'
<1> USE DEF IInv, Release
<1>1. n \in Nat
  BY SemaphoreAssumption DEF TypeOK
<1>2. /\ permits' \in Nat /\ waiters' \in Seq(Futures)
      /\ state' \in [Futures -> PollState] /\ woken' \in SUBSET Futures
      /\ \A g \in Futures : state'[g] = "Waiting" => task'[g] \in Wakers
      /\ QueueHoldsWaiters' /\ StoredWakerIsLatest'
      /\ NotifiedIsWoken' /\ FairNotifiedCanAcquire'
  BY <1>1, ReleasePermitsInv
<1>3. TypeOK' /\ NeverPanics'
  BY <1>1, <1>2 DEF TypeOK, NeverPanics
<1> QED
  BY <1>2, <1>3

(* Cancelling a notified future offers its permits to the next ones. *)
LEMMA DropNotifiedInv ==
  ASSUME IInv, NEW f \in Futures, DropNotified(f)
  PROVE  IInv'
<1> USE DEF IInv, DropNotified
<1>1. CASE is_fair
  <2>1. /\ IsLinked(waiters, f)
        /\ waiters' \in Seq(Futures)
        /\ state' \in [Futures -> PollState]
        /\ woken' \in SUBSET Futures
        /\ \A g \in Futures : state'[g] = "Waiting" => task'[g] \in Wakers
        /\ QueueHoldsWaiters' /\ StoredWakerIsLatest'
        /\ NotifiedIsWoken' /\ FairNotifiedCanAcquire'
    BY <1>1, FairLeaveInv DEF TypeOK
  <2>2. TypeOK' /\ NeverPanics'
    BY <1>1, <2>1 DEF TypeOK, NeverPanics, RemovalPanics
  <2> QED
    BY <2>1, <2>2
<1>2. CASE ~is_fair
  <2> DEFINE st == [state EXCEPT ![f] = "Done"]
  <2>1. WakeupWaiters(waiters, st, woken \ {f}, permits) /\ UNCHANGED panicked
    BY <1>2
  <2>2. /\ st \in [Futures -> PollState] /\ st[f] = "Done"
        /\ \A g \in Futures : g # f => st[g] = state[g]
    BY DEF TypeOK, PollState
  <2> HIDE DEF st
  <2>3. /\ waiters \in Seq(Futures) /\ Distinct(waiters) /\ permits \in Nat
        /\ woken \ {f} \in SUBSET Futures
        /\ Nodes(waiters) = {g \in Futures : \/ st[g] = "Waiting"
                                             \/ is_fair /\ st[g] = "Notified"}
    BY <1>2, <2>2 DEF TypeOK, QueueHoldsWaiters, Queued
  <2>4. /\ \A g \in Futures : st[g] = state[g] \/ st[g] = "Done"
        /\ \A g \in Futures : st[g] = "Notified" => g \in woken \ {f}
    BY <2>2 DEF NotifiedIsWoken
  <2>5. /\ waiters' \in Seq(Futures)
        /\ state' \in [Futures -> PollState]
        /\ woken' \in SUBSET Futures
        /\ \A g \in Futures : state'[g] = "Waiting" => task'[g] \in Wakers
        /\ QueueHoldsWaiters' /\ StoredWakerIsLatest'
        /\ NotifiedIsWoken' /\ FairNotifiedCanAcquire'
    BY <1>2, <2>1, <2>2, <2>3, <2>4, WakeupWaitersInv
  <2>6. TypeOK' /\ NeverPanics'
    BY <2>1, <2>5 DEF TypeOK, NeverPanics
  <2> QED
    BY <2>5, <2>6
<1> QED
  BY <1>1, <1>2

LEMMA DropWaitingInv ==
  ASSUME IInv, NEW f \in Futures, DropWaiting(f)
  PROVE  IInv'
<1> USE DEF IInv, DropWaiting, RemovalPanics
<1>0. /\ IsLinked(waiters, f) /\ ~IsEmpty(waiters)
      /\ waiters' \in Seq(Futures) /\ Distinct(waiters')
      /\ Nodes(waiters') = Nodes(waiters) \ {f}
      /\ f # PeekLast(waiters) =>
           ~IsEmpty(waiters') /\ PeekLast(waiters') = PeekLast(waiters)
  BY DequeueQueue DEF Queued
<1>1. TypeOK'
  BY <1>0 DEF TypeOK, PollState
<1>2. QueueHoldsWaiters' /\ NeverPanics'
  BY <1>0 DEF TypeOK, QueueHoldsWaiters, Queued, NeverPanics
<1>3. StoredWakerIsLatest' /\ NotifiedIsWoken'
  BY DEF TypeOK, StoredWakerIsLatest, NotifiedIsWoken
<1>4. FairNotifiedCanAcquire'
  BY <1>0 DEF TypeOK, FairNotifiedCanAcquire
<1> QED
  BY <1>1, <1>2, <1>3, <1>4

-----------------------------------------------------------------------------
(* The invariant holds of a new semaphore, and every call preserves it. *)
LEMMA InitInv == Init => IInv
<1> SUFFICES ASSUME Init PROVE IInv
  OBVIOUS
<1>1. waiters \in Seq(Futures) /\ IsEmpty(waiters) /\ Len(waiters) = 0
  BY EmptySeq DEF Init, IsEmpty
<1>2. Nodes(waiters) = {} /\ Distinct(waiters)
  BY <1>1 DEF Nodes, Distinct
<1>3. TypeOK
  <2>1. permits \in Nat /\ total \in Int
    BY SemaphoreAssumption DEF Init
  <2> QED
    BY <1>1, <2>1 DEF Init, TypeOK, PollState, OptWaker
<1> QED
  BY <1>1, <1>2, <1>3 DEF Init, IInv, QueueHoldsWaiters, Queued, NeverPanics,
     StoredWakerIsLatest, NotifiedIsWoken, FairNotifiedCanAcquire

LEMMA NextInv == IInv /\ [Next]_vars => IInv'
<1> SUFFICES ASSUME IInv, [Next]_vars PROVE IInv'
  OBVIOUS
<1>1. CASE UNCHANGED vars
  BY <1>1 DEF vars, IInv, TypeOK, QueueHoldsWaiters, Queued, NeverPanics,
     StoredWakerIsLatest, NotifiedIsWoken, FairNotifiedCanAcquire
<1>2. ASSUME NEW f \in Futures, NEW n \in amounts,
             Acquire(f, n) \/ TryAcquire(f, n)
      PROVE  IInv'
  BY <1>2, AcquireInv, TryAcquireInv
<1>3. ASSUME NEW f \in Futures, NEW w \in Wakers, Poll(f, w) PROVE IInv'
  BY <1>3, PollNewInv, PollWaitingInv, PollNotifiedInv DEF Poll
<1>4. ASSUME NEW f \in Futures, DropReleaser(f) \/ Disarm(f) PROVE IInv'
  BY <1>4, DropReleaserInv, DisarmInv
<1>5. ASSUME NEW f \in Futures, DropFuture(f) PROVE IInv'
  BY <1>5, DropNotifiedInv, DropWaitingInv, DropNewInv DEF DropFuture
<1>6. ASSUME NEW n \in amounts, Release(n) PROVE IInv'
  BY <1>6, ReleaseInv
<1> QED
  BY <1>1, <1>2, <1>3, <1>4, <1>5, <1>6 DEF Next

LEMMA Invariance == Spec => []IInv
  BY InitInv, NextInv, PTL DEF Spec, SafetySpec

(***************************************************************************)
(* Every state of every execution is well typed; in particular permits     *)
(* never becomes negative, that is, the subtractions never underflow.      *)
(***************************************************************************)
THEOREM TypeCorrect == Spec => []TypeOK
<1>1. IInv => TypeOK
  BY DEF IInv
<1> QED
  BY <1>1, Invariance, PTL

(***************************************************************************)
(* The intrusive list never refers to a future that is gone.               *)
(***************************************************************************)
THEOREM QueueIsSound == Spec => []QueueHoldsWaiters
<1>1. IInv => QueueHoldsWaiters
  BY DEF IInv
<1> QED
  BY <1>1, Invariance, PTL

(***************************************************************************)
(* "Fair semaphores should always be ready when notified": the assertion   *)
(* in try_acquire, and the forced removals, never fail.                    *)
(***************************************************************************)
THEOREM PanicFree == Spec => []NeverPanics
<1>1. IInv => NeverPanics
  BY DEF IInv
<1> QED
  BY <1>1, Invariance, PTL

(***************************************************************************)
(* A notified future has been woken through the waker of its latest poll.  *)
(***************************************************************************)
THEOREM NoLostWakeup == Spec => []NotifiedIsWoken
<1>1. IInv => NotifiedIsWoken
  BY DEF IInv
<1> QED
  BY <1>1, Invariance, PTL

-----------------------------------------------------------------------------
(***************************************************************************)
(* A step of a fair semaphore with waiters serves the oldest or nobody and *)
(* lets nobody move ahead.                                                 *)
(***************************************************************************)
LEMMA FairStep ==
  ASSUME IInv, Next, is_fair, ~IsEmpty(waiters)
  PROVE  /\ \A f \in Futures : held'[f] > held[f] => f = PeekLast(waiters)
         /\ KeepsOrder(waiters, waiters')
<1> DEFINE Goal == /\ \A g \in Futures : held'[g] > held[g] => g = PeekLast(waiters)
                   /\ KeepsOrder(waiters, waiters')
<1>0. /\ waiters \in Seq(Futures) /\ Distinct(waiters)
      /\ held \in [Futures -> Nat] /\ permits \in Nat
      /\ \A n \in amounts : n \in Nat
  BY SemaphoreAssumption DEF IInv, TypeOK, QueueHoldsWaiters
<1>1. ASSUME waiters' = waiters,
             \A g \in Futures : held'[g] > held[g] => g = PeekLast(waiters)
      PROVE  Goal
  BY <1>1, SameKeepsOrder
<1>2. ASSUME NEW f \in Futures, Queued(f), waiters' = Remove(waiters, f),
             \A g \in Futures : held'[g] > held[g] => g = PeekLast(waiters)
      PROVE  Goal
  BY <1>0, <1>2, DequeueQueue, RemoveKeepsOrder
<1>3. ASSUME NEW f \in Futures, ~Queued(f), waiters' = AddFront(waiters, f),
             held' = held
      PROVE  Goal
  <2>1. f \notin Nodes(waiters)
    BY <1>3 DEF IInv, QueueHoldsWaiters
  <2>2. KeepsOrder(waiters, waiters')
    BY <1>0, <1>3, <2>1, AddFrontKeepsOrder
  <2> QED
    BY <1>0, <1>3, <2>2
<1> HIDE DEF Goal
<1>4. ASSUME NEW f \in Futures, NEW n \in amounts,
             Acquire(f, n) \/ TryAcquire(f, n)
      PROVE  Goal
  <2>1. CASE Acquire(f, n)
    BY <1>0, <1>1, <2>1 DEF Acquire
  <2>2. CASE TryAcquire(f, n)
    <3>1. n = 0 /\ waiters' = waiters /\ held' = [held EXCEPT ![f] = 0]
      BY <2>2 DEF TryAcquire, Available
    <3> QED
      BY <1>0, <1>1, <3>1
  <2> QED
    BY <1>4, <2>1, <2>2
<1>5. ASSUME NEW f \in Futures, NEW w \in Wakers, PollNew(f, w) PROVE Goal
  <2>1. CASE ~Available(required[f]) /\ Enqueue(f, w)
    BY <1>3, <1>5, <2>1 DEF PollNew, Enqueue, Queued
  <2>2. CASE Available(required[f]) /\ Obtain(f) /\ UNCHANGED waiters
    BY <1>0, <1>1, <2>2 DEF Available, Obtain
  <2> QED
    BY <1>5, <2>1, <2>2 DEF PollNew
<1>6. ASSUME NEW f \in Futures, NEW w \in Wakers, PollWaiting(f, w) PROVE Goal
  BY <1>0, <1>1, <1>6 DEF PollWaiting, StayWaiting
<1>7. ASSUME NEW f \in Futures, NEW w \in Wakers, PollNotified(f, w) PROVE Goal
  <2>1. Queued(f) /\ f = PeekLast(waiters) /\ required[f] <= permits
        /\ permits - required[f] \in Nat
    BY <1>0, <1>7 DEF PollNotified, Queued, IInv, TypeOK, FairNotifiedCanAcquire
  <2>2. /\ Obtain(f)
        /\ WakeupWaiters(Remove(waiters, f), [state EXCEPT ![f] = "Done"],
                         woken \ {f}, permits - required[f])
    BY <1>0, <1>7, <2>1 DEF PollNotified, IInv, TypeOK
  <2>3. waiters' = Remove(waiters, f)
    BY <1>7, <2>1, <2>2, FairLeaveInv DEF PollNotified, Obtain
  <2>4. \A g \in Futures : held'[g] > held[g] => g = f
    BY <1>0, <2>2 DEF Obtain
  <2> QED
    BY <1>2, <2>1, <2>3, <2>4
<1>8. ASSUME NEW f \in Futures, DropReleaser(f) PROVE Goal
  <2>1. waiters' = waiters
    BY <1>0, <1>8, ReleasePermitsInv DEF DropReleaser
  <2>2. \A g \in Futures : ~(held'[g] > held[g])
    BY <1>0, <1>8 DEF DropReleaser
  <2> QED
    BY <1>1, <2>1, <2>2
<1>9. ASSUME NEW f \in Futures, Disarm(f) PROVE Goal
  BY <1>0, <1>1, <1>9 DEF Disarm
<1>10. ASSUME NEW f \in Futures, DropNotified(f) PROVE Goal
  <2>1. Queued(f) /\ held' = held
    BY <1>10 DEF DropNotified, Queued
  <2>2. waiters' = Remove(waiters, f)
    BY <1>0, <1>10, FairLeaveInv DEF DropNotified
  <2> QED
    BY <1>0, <1>2, <2>1, <2>2
<1>11. ASSUME NEW f \in Futures, DropWaiting(f) PROVE Goal
  BY <1>0, <1>2, <1>11 DEF DropWaiting, Queued
<1>12. ASSUME NEW f \in Futures, DropNew(f) PROVE Goal
  BY <1>0, <1>1, <1>12 DEF DropNew
<1>13. ASSUME NEW n \in amounts, Release(n) PROVE Goal
  <2>1. waiters' = waiters /\ held' = held
    BY <1>0, <1>13, ReleasePermitsInv DEF Release
  <2> QED
    BY <1>0, <1>1, <2>1
<1> QED
  BY <1>4, <1>5, <1>6, <1>7, <1>8, <1>9, <1>10, <1>11, <1>12, <1>13
     DEF Next, Poll, DropFuture, Goal

(***************************************************************************)
(* The fair semaphore is first come, first served.                         *)
(***************************************************************************)
THEOREM Fair == Spec => NoOvertaking
<1>1. IInv /\ [Next]_vars =>
        [is_fair /\ ~IsEmpty(waiters) =>
           /\ \A f \in Futures : held'[f] > held[f] => f = PeekLast(waiters)
           /\ KeepsOrder(waiters, waiters')]_vars
  BY FairStep
<1> QED
  BY <1>1, Invariance, PTL DEF Spec, SafetySpec, NoOvertaking

(***************************************************************************)
(* Every step but the cancellation of the oldest waiter, not yet notified, *)
(* keeps the oldest waiter notified when the permits suffice for it.       *)
(***************************************************************************)
LEMMA StallStep ==
  ASSUME IInv, Next, OldestNotified, ~OldestNotified'
  PROVE  ~IsEmpty(waiters) /\ DropWaiting(PeekLast(waiters))
<1> USE DEF IInv
<1>0. /\ waiters \in Seq(Futures) /\ permits \in Nat /\ required \in [Futures -> Nat]
      /\ state \in [Futures -> PollState] /\ \A n \in amounts : n \in Nat
  BY SemaphoreAssumption DEF TypeOK
<1>a. is_fair /\ is_fair'
  BY DEF OldestNotified, Next, Acquire, TryAcquire, Poll, PollNew, PollWaiting,
     PollNotified, DropReleaser, Disarm, DropFuture, DropNotified, DropWaiting,
     DropNew, Release
<1>b. ~IsEmpty(waiters) => PeekLast(waiters) \in Futures /\ Queued(PeekLast(waiters))
  <2> SUFFICES ASSUME ~IsEmpty(waiters)
               PROVE  PeekLast(waiters) \in Futures /\ Queued(PeekLast(waiters))
    OBVIOUS
  <2>1. PeekLast(waiters) \in Nodes(waiters)
    BY <1>0, RemoveLastProperties
  <2> QED
    BY <2>1 DEF QueueHoldsWaiters
(* A step that leaves the oldest waiter, what it needs and its state alone, *)
(* and adds no permits, keeps OldestNotified.                               *)
<1>c. ASSUME ~IsEmpty(waiters') => ~IsEmpty(waiters) /\ PeekLast(waiters') = PeekLast(waiters),
             \A g \in Futures : Queued(g) => required'[g] = required[g] /\ state'[g] = state[g],
             permits' \in Nat, permits' <= permits
      PROVE  FALSE
  BY <1>0, <1>a, <1>b, <1>c DEF OldestNotified
<1>1. ASSUME NEW f \in Futures, NEW n \in amounts, Acquire(f, n) PROVE FALSE
  BY <1>0, <1>c, <1>1 DEF Acquire, Unused, Queued
<1>2. ASSUME NEW f \in Futures, NEW n \in amounts, TryAcquire(f, n) PROVE FALSE
  BY <1>0, <1>c, <1>2 DEF TryAcquire, Available
<1>3. ASSUME NEW f \in Futures, NEW w \in Wakers, PollNew(f, w) PROVE FALSE
  <2>1. CASE /\ Available(required[f]) /\ Obtain(f)
             /\ state' = [state EXCEPT ![f] = "Done"] /\ UNCHANGED waiters
    BY <1>0, <1>c, <1>3, <2>1 DEF PollNew, Available, Obtain, Queued
  <2>2. CASE ~Available(required[f]) /\ Enqueue(f, w)
    <3>1. /\ waiters' = AddFront(waiters, f)
          /\ PeekLast(waiters') = IF IsEmpty(waiters) THEN f ELSE PeekLast(waiters)
      BY <1>3, <2>2, EnqueueQueue DEF PollNew, Enqueue, Queued
    <3>2. CASE IsEmpty(waiters)
      BY <1>0, <1>3, <2>2, <3>1, <3>2 DEF PollNew, Enqueue, Available, OldestNotified
    <3>3. CASE ~IsEmpty(waiters)
      BY <1>0, <1>c, <1>3, <2>2, <3>1, <3>3 DEF PollNew, Enqueue, Queued
    <3> QED
      BY <3>2, <3>3
  <2> QED
    BY <1>3, <2>1, <2>2 DEF PollNew
<1>4. ASSUME NEW f \in Futures, NEW w \in Wakers, PollWaiting(f, w) PROVE FALSE
  BY <1>0, <1>a, <1>c, <1>4 DEF PollWaiting, StayWaiting
<1>5. ASSUME NEW f \in Futures, NEW w \in Wakers, PollNotified(f, w) PROVE FALSE
  <2>1. required[f] <= permits /\ permits - required[f] \in Nat
    BY <1>0, <1>a, <1>5 DEF PollNotified, FairNotifiedCanAcquire
  <2>2. /\ Obtain(f)
        /\ WakeupWaiters(Remove(waiters, f), [state EXCEPT ![f] = "Done"],
                         woken \ {f}, permits - required[f])
    BY <1>0, <1>a, <1>5, <2>1 DEF PollNotified
  <2> QED
    BY <1>a, <1>5, <2>1, <2>2, FairLeaveInv DEF PollNotified, Obtain
<1>6. ASSUME NEW f \in Futures, DropReleaser(f) PROVE FALSE
  BY <1>6, ReleasePermitsInv DEF DropReleaser, TypeOK
<1>7. ASSUME NEW f \in Futures, Disarm(f) PROVE FALSE
  BY <1>0, <1>c, <1>7 DEF Disarm
<1>8. ASSUME NEW f \in Futures, DropNotified(f) PROVE FALSE
  BY <1>0, <1>a, <1>8, FairLeaveInv DEF DropNotified
<1>9. ASSUME NEW f \in Futures, DropWaiting(f), f # PeekLast(waiters) PROVE FALSE
  <2>1. /\ ~IsEmpty(waiters) /\ PeekLast(waiters') = PeekLast(waiters)
        /\ ~IsEmpty(waiters')
    BY <1>9, DequeueQueue DEF DropWaiting, Queued
  <2> QED
    BY <1>0, <1>a, <1>b, <1>9, <2>1 DEF DropWaiting, OldestNotified
<1>10. ASSUME NEW f \in Futures, DropNew(f) PROVE FALSE
  BY <1>0, <1>c, <1>10 DEF DropNew, Queued
<1>11. ASSUME NEW n \in amounts, Release(n) PROVE FALSE
  BY <1>0, <1>11, ReleasePermitsInv DEF Release
<1>12. PICK f \in Futures : DropWaiting(f) /\ f = PeekLast(waiters)
  BY <1>1, <1>2, <1>3, <1>4, <1>5, <1>6, <1>7, <1>8, <1>9, <1>10, <1>11
     DEF Next, Poll, DropFuture
<1>13. ~IsEmpty(waiters)
  BY <1>12, DequeueQueue DEF DropWaiting, Queued
<1> QED
  BY <1>12, <1>13

(***************************************************************************)
(* Nothing but the cancellation of the oldest waiter makes a fair          *)
(* semaphore sit on permits its oldest waiter could use.                   *)
(***************************************************************************)
THEOREM OnlyCancellation == Spec => OnlyCancellationStalls
<1>1. IInv /\ [Next]_vars =>
        [OldestNotified /\ ~OldestNotified' =>
           ~IsEmpty(waiters) /\ DropWaiting(PeekLast(waiters))]_vars
  BY StallStep
<1> QED
  BY <1>1, Invariance, PTL DEF Spec, SafetySpec, OnlyCancellationStalls

-----------------------------------------------------------------------------
(* The recursion behind MapThenSumSet: the sum of h over each subset of S. *)
Any(s) == CHOOSE y \in s : TRUE

AddUp(h, g, D) ==
  [s \in D |-> IF s = {} THEN 0 ELSE h[Any(s)] + g[s \ {Any(s)}]]

Sums(h, S) == CHOOSE g : g = AddUp(h, g, SUBSET S)

(* The recursion has a solution, built up from the small subsets. *)
LEMMA SumsExist ==
  ASSUME NEW S, IsFiniteSet(S), NEW h \in [S -> Nat]
  PROVE  /\ Sums(h, S) = AddUp(h, Sums(h, S), SUBSET S)
         /\ Sums(h, S) \in [SUBSET S -> Nat]
<1> DEFINE D(n) == {s \in SUBSET S : Cardinality(s) <= n}
           T == {n \in Nat : \E g \in [D(n) -> Nat] : g = AddUp(h, g, D(n))}
<1>1. \A s \in SUBSET S : IsFiniteSet(s) /\ Cardinality(s) \in Nat
  BY FS_Subset, FS_CardinalityType
<1>2. \A s \in SUBSET S : s # {} =>
        /\ Any(s) \in s
        /\ Cardinality(s \ {Any(s)}) = Cardinality(s) - 1
  <2> SUFFICES ASSUME NEW s \in SUBSET S, s # {}
               PROVE  /\ Any(s) \in s
                      /\ Cardinality(s \ {Any(s)}) = Cardinality(s) - 1
    OBVIOUS
  <2>1. Any(s) \in s
    BY DEF Any
  <2> QED
    BY <1>1, <2>1, FS_RemoveElement
<1>3. \A s \in SUBSET S : Cardinality(s) = 0 <=> s = {}
  BY <1>1, FS_EmptySet
<1>4. 0 \in T
  <2> DEFINE g == [s \in D(0) |-> 0]
  <2>1. \A s \in D(0) : s = {}
    BY <1>1, <1>3
  <2>2. g = AddUp(h, g, D(0))
    BY <2>1 DEF AddUp
  <2> QED
    BY <2>2
<1>5. ASSUME NEW n \in Nat, n \in T PROVE n + 1 \in T
  <2>1. PICK g \in [D(n) -> Nat] : g = AddUp(h, g, D(n))
    BY <1>5
  <2> DEFINE k == AddUp(h, g, D(n + 1))
  <2>2. \A s \in D(n + 1) : s # {} =>
          s \ {Any(s)} \in D(n) /\ s \ {Any(s)} \in D(n + 1) /\ Any(s) \in S
    <3> SUFFICES ASSUME NEW s \in SUBSET S, Cardinality(s) <= n + 1, s # {}
                 PROVE  /\ s \ {Any(s)} \in SUBSET S /\ Any(s) \in S
                        /\ Cardinality(s \ {Any(s)}) <= n
                        /\ Cardinality(s \ {Any(s)}) <= n + 1
      OBVIOUS
    <3>1. Any(s) \in s /\ Cardinality(s \ {Any(s)}) = Cardinality(s) - 1
      BY <1>2
    <3>2. Cardinality(s) \in Nat
      BY <1>1
    <3> QED
      BY <3>1, <3>2
  <2>3. k \in [D(n + 1) -> Nat]
    BY <2>2 DEF AddUp
  <2>4. D(n) \subseteq D(n + 1)
    BY <1>1
  <2>5. \A s \in D(n) : k[s] = g[s]
    <3> SUFFICES ASSUME NEW s \in D(n) PROVE k[s] = g[s]
      OBVIOUS
    <3>1. g[s] = IF s = {} THEN 0 ELSE h[Any(s)] + g[s \ {Any(s)}]
      BY <2>1 DEF AddUp
    <3>2. k[s] = IF s = {} THEN 0 ELSE h[Any(s)] + g[s \ {Any(s)}]
      BY <2>4 DEF AddUp
    <3> QED
      BY <3>1, <3>2
  <2>6. k = AddUp(h, k, D(n + 1))
    BY <2>2, <2>5 DEF AddUp
  <2> HIDE DEF k, D
  <2>7. \E f \in [D(n + 1) -> Nat] : f = AddUp(h, f, D(n + 1))
    BY <2>3, <2>6
  <2> QED
    BY <2>7
<1>6. Cardinality(S) \in T
  <2> HIDE DEF T
  <2> QED
    BY <1>1, <1>4, <1>5, NatSetInduction
<1>7. D(Cardinality(S)) = SUBSET S
  BY FS_Subset
<1>8. \E g \in [SUBSET S -> Nat] : g = AddUp(h, g, SUBSET S)
  BY <1>6, <1>7
<1>9. Sums(h, S) = AddUp(h, Sums(h, S), SUBSET S)
  BY <1>8 DEF Sums
<1> DEFINE g == Sums(h, S)
           U == {n \in Nat : \A s \in D(n) : g[s] \in Nat}
<1>10. \A s \in SUBSET S :
         g[s] = IF s = {} THEN 0 ELSE h[Any(s)] + g[s \ {Any(s)}]
  <2> HIDE DEF g
  <2>1. g = AddUp(h, g, SUBSET S)
    BY <1>9 DEF g
  <2> QED
    BY <2>1 DEF AddUp
<1> HIDE DEF g
<1>11. 0 \in U
  BY <1>1, <1>3, <1>10
<1>12. ASSUME NEW n \in Nat, n \in U PROVE n + 1 \in U
  <2>1. ASSUME NEW s \in D(n + 1) PROVE g[s] \in Nat
    <3>1. s \in SUBSET S /\ Cardinality(s) <= n + 1 /\ Cardinality(s) \in Nat
      BY <1>1, <2>1
    <3>2. CASE s = {}
      BY <1>10, <3>1, <3>2
    <3>3. CASE s # {}
      <4>1. Any(s) \in s /\ Cardinality(s \ {Any(s)}) = Cardinality(s) - 1
        BY <1>2, <3>1, <3>3
      <4>2. s \ {Any(s)} \in D(n)
        BY <3>1, <4>1
      <4>3. g[s \ {Any(s)}] \in Nat /\ h[Any(s)] \in Nat
        BY <1>12, <3>1, <4>1, <4>2
      <4> QED
        BY <1>10, <3>1, <3>3, <4>3
    <3> QED
      BY <3>2, <3>3
  <2> QED
    BY <2>1
<1>13. Cardinality(S) \in U
  <2> HIDE DEF U
  <2> QED
    BY <1>1, <1>11, <1>12, NatSetInduction
<1>14. g \in [SUBSET S -> Nat]
  <2>1. \A s \in SUBSET S : g[s] \in Nat
    BY <1>7, <1>13
  <2>2. g = [s \in SUBSET S |-> g[s]]
    BY <1>9 DEF g, AddUp
  <2> QED
    BY <2>1, <2>2
<1> QED
  BY <1>9, <1>14 DEF g

(* What the recursion says of each subset. *)
LEMMA SumsUnfold ==
  ASSUME NEW S, IsFiniteSet(S), NEW h \in [S -> Nat], NEW s \in SUBSET S
  PROVE  /\ Sums(h, S)[s] \in Nat
         /\ s = {} => Sums(h, S)[s] = 0
         /\ s # {} => /\ Any(s) \in s
                      /\ Sums(h, S)[s] = h[Any(s)] + Sums(h, S)[s \ {Any(s)}]
<1> DEFINE g == Sums(h, S)
<1>1. g = AddUp(h, g, SUBSET S) /\ g \in [SUBSET S -> Nat]
  BY SumsExist
<1> HIDE DEF g
<1>2. s # {} => Any(s) \in s
  BY DEF Any
<1>3. /\ g[s] \in Nat
      /\ s = {} => g[s] = 0
      /\ s # {} => g[s] = h[Any(s)] + g[s \ {Any(s)}]
  BY <1>1 DEF AddUp
<1> QED
  BY <1>2, <1>3 DEF g

(* The order of the summation does not matter: any element can come first. *)
LEMMA SumsRemove ==
  ASSUME NEW S, IsFiniteSet(S), NEW h \in [S -> Nat],
         NEW t \in SUBSET S, NEW y \in t
  PROVE  Sums(h, S)[t] = h[y] + Sums(h, S)[t \ {y}]
<1> DEFINE g == Sums(h, S)
           T == {n \in Nat : \A s \in SUBSET S : \A x \in s :
                   Cardinality(s) <= n => g[s] = h[x] + g[s \ {x}]}
<1>1. \A s \in SUBSET S : IsFiniteSet(s) /\ Cardinality(s) \in Nat
  BY FS_Subset, FS_CardinalityType
<1>2. \A s \in SUBSET S :
        /\ g[s] \in Nat
        /\ s # {} => Any(s) \in s /\ g[s] = h[Any(s)] + g[s \ {Any(s)}]
  BY SumsUnfold
<1> HIDE DEF g
<1>3. 0 \in T
  <2>1. \A s \in SUBSET S : Cardinality(s) <= 0 => s = {}
    BY <1>1, FS_EmptySet
  <2> QED
    BY <2>1
<1>4. ASSUME NEW n \in Nat, n \in T PROVE n + 1 \in T
  <2>1. ASSUME NEW s \in SUBSET S, NEW x \in s, Cardinality(s) <= n + 1
        PROVE  g[s] = h[x] + g[s \ {x}]
    <3> DEFINE a == Any(s)
    <3>1. a \in s /\ g[s] = h[a] + g[s \ {a}]
      BY <1>2
    <3> HIDE DEF a
    <3>2. CASE x = a
      BY <3>1, <3>2
    <3>3. CASE x # a
      <4>1. /\ Cardinality(s \ {a}) = Cardinality(s) - 1
            /\ Cardinality(s \ {x}) = Cardinality(s) - 1
        BY <1>1, <3>1, FS_RemoveElement
      <4>2. Cardinality(s \ {a}) <= n /\ Cardinality(s \ {x}) <= n
        BY <1>1, <2>1, <4>1
      <4>3. g[s \ {a}] = h[x] + g[(s \ {a}) \ {x}]
        BY <1>4, <3>3, <4>2
      <4>4. g[s \ {x}] = h[a] + g[(s \ {x}) \ {a}]
        BY <1>4, <3>1, <3>3, <4>2
      <4>5. (s \ {a}) \ {x} = (s \ {x}) \ {a}
        OBVIOUS
      <4>6. h[a] \in Nat /\ h[x] \in Nat /\ g[(s \ {x}) \ {a}] \in Nat
        BY <1>2, <3>1
      <4>7. \A p, q, r \in Nat : p + (q + r) = q + (p + r)
        OBVIOUS
      <4>8. h[a] + (h[x] + g[(s \ {x}) \ {a}]) = h[x] + (h[a] + g[(s \ {x}) \ {a}])
        BY <4>6, <4>7
      <4> QED
        BY <3>1, <4>3, <4>4, <4>5, <4>8
    <3> QED
      BY <3>2, <3>3
  <2> QED
    BY <2>1
<1>5. Cardinality(t) \in T
  <2> HIDE DEF T
  <2> QED
    BY <1>1, <1>3, <1>4, NatSetInduction
<1>6. g[t] = h[y] + g[t \ {y}]
  BY <1>1, <1>5
<1> QED
  BY <1>6 DEF g

(* Two functions have the same sum over a set on which they agree. *)
LEMMA SumsAgree ==
  ASSUME NEW S, IsFiniteSet(S), NEW h \in [S -> Nat], NEW k \in [S -> Nat],
         NEW t \in SUBSET S, \A x \in t : h[x] = k[x]
  PROVE  Sums(h, S)[t] = Sums(k, S)[t]
<1> DEFINE g == Sums(h, S)
           f == Sums(k, S)
           T == {n \in Nat : \A s \in SUBSET t : Cardinality(s) <= n => g[s] = f[s]}
<1>1. \A s \in SUBSET S : IsFiniteSet(s) /\ Cardinality(s) \in Nat
  BY FS_Subset, FS_CardinalityType
<1>2. \A s \in SUBSET S :
        /\ s = {} => g[s] = 0 /\ f[s] = 0
        /\ s # {} => /\ Any(s) \in s
                     /\ g[s] = h[Any(s)] + g[s \ {Any(s)}]
                     /\ f[s] = k[Any(s)] + f[s \ {Any(s)}]
  BY SumsUnfold
<1> HIDE DEF g, f
<1>3. 0 \in T
  <2>1. \A s \in SUBSET t : Cardinality(s) <= 0 => s = {}
    BY <1>1, FS_EmptySet
  <2> QED
    BY <1>2, <2>1
<1>4. ASSUME NEW n \in Nat, n \in T PROVE n + 1 \in T
  <2>1. ASSUME NEW s \in SUBSET t, Cardinality(s) <= n + 1 PROVE g[s] = f[s]
    <3>1. CASE s = {}
      BY <1>2, <3>1
    <3>2. CASE s # {}
      <4>1. Any(s) \in s /\ s \in SUBSET S
        BY <1>2, <3>2
      <4>2. Cardinality(s \ {Any(s)}) = Cardinality(s) - 1
        BY <1>1, <4>1, FS_RemoveElement
      <4>3. s \ {Any(s)} \in SUBSET t /\ Cardinality(s \ {Any(s)}) <= n
        BY <1>1, <2>1, <4>1, <4>2
      <4>4. g[s \ {Any(s)}] = f[s \ {Any(s)}]
        BY <1>4, <4>3
      <4> QED
        BY <1>2, <3>2, <4>1, <4>4
    <3> QED
      BY <3>1, <3>2
  <2> QED
    BY <2>1
<1>5. Cardinality(t) \in T
  <2> HIDE DEF T
  <2> QED
    BY <1>1, <1>3, <1>4, NatSetInduction
<1>6. g[t] = f[t]
  BY <1>1, <1>5
<1> QED
  BY <1>6 DEF g, f

(* The sum of zeros. *)
LEMMA SumsZero ==
  ASSUME NEW S, IsFiniteSet(S), NEW h \in [S -> Nat], \A x \in S : h[x] = 0
  PROVE  Sums(h, S)[S] = 0
<1> DEFINE g == Sums(h, S)
           T == {n \in Nat : \A s \in SUBSET S : Cardinality(s) <= n => g[s] = 0}
<1>1. \A s \in SUBSET S : IsFiniteSet(s) /\ Cardinality(s) \in Nat
  BY FS_Subset, FS_CardinalityType
<1>2. \A s \in SUBSET S :
        /\ s = {} => g[s] = 0
        /\ s # {} => /\ Any(s) \in s
                     /\ g[s] = h[Any(s)] + g[s \ {Any(s)}]
  BY SumsUnfold
<1> HIDE DEF g
<1>3. 0 \in T
  <2>1. \A s \in SUBSET S : Cardinality(s) <= 0 => s = {}
    BY <1>1, FS_EmptySet
  <2> QED
    BY <1>2, <2>1
<1>4. ASSUME NEW n \in Nat, n \in T PROVE n + 1 \in T
  <2>1. ASSUME NEW s \in SUBSET S, Cardinality(s) <= n + 1 PROVE g[s] = 0
    <3>1. CASE s = {}
      BY <1>2, <3>1
    <3>2. CASE s # {}
      <4>1. Any(s) \in s /\ g[s] = h[Any(s)] + g[s \ {Any(s)}]
        BY <1>2, <3>2
      <4>2. Cardinality(s \ {Any(s)}) = Cardinality(s) - 1
        BY <1>1, <4>1, FS_RemoveElement
      <4>3. s \ {Any(s)} \in SUBSET S /\ Cardinality(s \ {Any(s)}) <= n
        BY <1>1, <2>1, <4>1, <4>2
      <4>4. g[s \ {Any(s)}] = 0 /\ h[Any(s)] = 0
        BY <1>4, <4>1, <4>3
      <4> QED
        BY <4>1, <4>4
    <3> QED
      BY <3>1, <3>2
  <2> QED
    BY <2>1
<1>5. Cardinality(S) \in T
  <2> HIDE DEF T
  <2> QED
    BY <1>1, <1>3, <1>4, NatSetInduction
<1>6. g[S] = 0
  BY <1>1, <1>5
<1> QED
  BY <1>6 DEF g

(* A change at one point changes the sum by as much. *)
LEMMA SumChange ==
  ASSUME NEW S, IsFiniteSet(S), NEW h \in [S -> Nat], NEW k \in [S -> Nat],
         NEW y \in S, \A x \in S \ {y} : h[x] = k[x]
  PROVE  /\ Sums(h, S)[S] \in Nat /\ Sums(k, S)[S] \in Nat
         /\ Sums(k, S)[S] + h[y] = Sums(h, S)[S] + k[y]
<1>1. Sums(h, S)[S \ {y}] = Sums(k, S)[S \ {y}]
  BY SumsAgree
<1>2. /\ Sums(h, S)[S] = h[y] + Sums(h, S)[S \ {y}]
      /\ Sums(k, S)[S] = k[y] + Sums(k, S)[S \ {y}]
  BY SumsRemove
<1>3. Sums(h, S)[S \ {y}] \in Nat /\ Sums(k, S)[S \ {y}] \in Nat
  BY SumsUnfold
<1> QED
  BY <1>1, <1>2, <1>3

-----------------------------------------------------------------------------
(***************************************************************************)
(* The permits.  Besides IInv, a slot holds permits only when its future   *)
(* has resolved, so that obtaining permits overwrites none.                *)
(***************************************************************************)
PendingHoldsNothing == \A f \in Futures : state[f] # "Done" => held[f] = 0

ConservedInv == IInv /\ PendingHoldsNothing /\ PermitsConserved

(* wakeup_waiters notifies only futures that are pending. *)
LEMMA WakeupPending ==
  ASSUME NEW q \in Seq(Futures), NEW st \in [Futures -> PollState],
         \A g \in Nodes(q) : st[g] # "Done",
         NEW wk, NEW available, WakeupWaiters(q, st, wk, available)
  PROVE  \A g \in Futures : state'[g] # "Done" <=> st[g] # "Done"
<1>1. PICK n \in 0..Len(q) :
        state' = [g \in Futures |-> IF g \in {q[i] : i \in 1..n} THEN "Notified"
                                    ELSE st[g]]
  BY DEF WakeupWaiters
<1>2. \A g \in {q[i] : i \in 1..n} : g \in Nodes(q)
  BY LenProperties DEF Nodes
<1> QED
  BY <1>1, <1>2

(* The permits after a step that changes what one slot holds, or nobody. *)
LEMMA ConservedAt ==
  ASSUME TypeOK, TypeOK', PermitsConserved, NEW f \in Futures,
         \A g \in Futures \ {f} : held[g] = held'[g],
         permits' + held'[f] + total = permits + held[f] + total'
  PROVE  PermitsConserved'
<1> DEFINE old == Sums(held, Futures)[Futures]
           new == Sums(held', Futures)[Futures]
<1>1. permits + old = total
  BY DEF PermitsConserved, MapThenSumSet, MapThenFoldSet, Sums, AddUp, Any
<1>2. held \in [Futures -> Nat] /\ held' \in [Futures -> Nat]
      /\ held[f] \in Nat /\ held'[f] \in Nat
      /\ permits \in Nat /\ permits' \in Nat /\ total \in Int /\ total' \in Int
  BY DEF TypeOK
<1>3. new + held[f] = old + held'[f] /\ new \in Nat /\ old \in Nat
  BY <1>2, SemaphoreAssumption, SumChange
<1> HIDE DEF old, new
<1>4. PICK p \in Nat : p = permits'
  BY <1>2
<1>5. PICK t \in Int : t = total'
  BY <1>2
<1>6. PICK h \in Nat : h = held'[f]
  BY <1>2
<1>7. p + h + total = permits + held[f] + t /\ new + held[f] = old + h
  BY <1>3, <1>4, <1>5, <1>6
<1>8. p + new = t
  BY <1>1, <1>2, <1>3, <1>7
<1> QED
  BY <1>4, <1>5, <1>8
  DEF new, PermitsConserved, MapThenSumSet, MapThenFoldSet, Sums, AddUp, Any

LEMMA ConservedElsewhere ==
  ASSUME TypeOK, TypeOK', PermitsConserved, held' = held,
         permits' + total = permits + total'
  PROVE  PermitsConserved'
<1> DEFINE sum == Sums(held, Futures)[Futures]
<1>1. permits + sum = total
  BY DEF PermitsConserved, MapThenSumSet, MapThenFoldSet, Sums, AddUp, Any
<1>2. permits \in Nat /\ permits' \in Nat /\ total \in Int /\ total' \in Int
      /\ sum \in Nat
  BY SemaphoreAssumption, SumsUnfold DEF TypeOK
<1> HIDE DEF sum
<1>3. PICK p \in Nat : p = permits'
  BY <1>2
<1>4. PICK t \in Int : t = total'
  BY <1>2
<1>5. p + total = permits + t
  BY <1>3, <1>4
<1>6. p + sum = t
  BY <1>1, <1>2, <1>5
<1> QED
  BY <1>3, <1>4, <1>6
  DEF sum, PermitsConserved, MapThenSumSet, MapThenFoldSet, Sums, AddUp, Any

(* The future on slot f obtains its permits. *)
LEMMA ObtainConserves ==
  ASSUME ConservedInv, TypeOK', NEW f \in Futures, state[f] # "Done",
         permits >= required[f], Obtain(f), total' = total
  PROVE  PermitsConserved'
<1>1. held[f] = 0 /\ held \in [Futures -> Nat] /\ permits \in Nat
      /\ required[f] \in Nat /\ total \in Int
  BY DEF ConservedInv, IInv, TypeOK, PendingHoldsNothing
<1>2. held'[f] = required[f] /\ permits' = permits - required[f]
      /\ \A g \in Futures \ {f} : held[g] = held'[g]
  BY <1>1 DEF Obtain
<1>3. permits' + held'[f] + total = permits + held[f] + total'
  BY <1>1, <1>2
<1> QED
  BY <1>2, <1>3, ConservedAt DEF ConservedInv, IInv

(* Every poll. *)
LEMMA PollConserves ==
  ASSUME ConservedInv, IInv', NEW f \in Futures, NEW w \in Wakers, Poll(f, w)
  PROVE  PendingHoldsNothing' /\ PermitsConserved'
<1> USE DEF Poll
<1>1. state \in [Futures -> PollState] /\ held \in [Futures -> Nat]
      /\ permits \in Nat /\ total \in Int /\ waiters \in Seq(Futures)
      /\ required \in [Futures -> Nat]
      /\ state[f] # "Done" /\ total' = total /\ TypeOK'
  BY DEF ConservedInv, IInv, TypeOK, PollNew, PollWaiting, PollNotified
<1>2. CASE Obtain(f)
  <2>1. permits >= required[f]
    <3>1. permits' = permits - required[f] /\ permits' \in Nat
      BY <1>1, <1>2 DEF Obtain, TypeOK
    <3> QED
      BY <1>1, <3>1
  <2>2. PermitsConserved'
    BY <1>1, <1>2, <2>1, ObtainConserves
  <2>3. CASE state' = [state EXCEPT ![f] = "Done"]
    BY <1>1, <1>2, <2>2, <2>3 DEF Obtain, ConservedInv, PendingHoldsNothing
  <2>4. CASE /\ is_fair /\ state[f] = "Notified"
             /\ WakeupWaiters(Remove(waiters, f), [state EXCEPT ![f] = "Done"],
                              woken \ {f}, permits - required[f])
    <3>1. Remove(waiters, f) \in Seq(Futures)
          /\ Nodes(Remove(waiters, f)) = Nodes(waiters) \ {f}
      BY <2>4, DequeueQueue DEF ConservedInv, Queued
    <3>2. \A g \in Nodes(Remove(waiters, f)) :
            [state EXCEPT ![f] = "Done"][g] # "Done"
      BY <1>1, <3>1 DEF ConservedInv, IInv, QueueHoldsWaiters, Queued
    <3>3. [state EXCEPT ![f] = "Done"] \in [Futures -> PollState]
      BY <1>1 DEF PollState
    <3>4. \A g \in Futures : state'[g] # "Done" <=>
            [state EXCEPT ![f] = "Done"][g] # "Done"
      BY <2>4, <3>1, <3>2, <3>3, WakeupPending
    <3> QED
      BY <1>1, <1>2, <2>2, <3>4 DEF Obtain, ConservedInv, PendingHoldsNothing
  <2>5. CASE Enqueue(f, w) \/ StayWaiting(f, w)
    <3>1. held' = held
      BY <2>5 DEF Enqueue, StayWaiting
    <3> QED
      BY <1>1, <2>2, <2>5, <3>1
      DEF ConservedInv, PendingHoldsNothing, Enqueue, StayWaiting
  <2>6. PollNew(f, w) => state' = [state EXCEPT ![f] = "Done"] \/ Enqueue(f, w)
    BY DEF PollNew
  <2>7. PollWaiting(f, w) =>
          state' = [state EXCEPT ![f] = "Done"] \/ StayWaiting(f, w)
    BY DEF PollWaiting
  <2>8. PollNotified(f, w) =>
          \/ state' = [state EXCEPT ![f] = "Done"]
          \/ Enqueue(f, w)
          \/ /\ is_fair /\ state[f] = "Notified"
             /\ WakeupWaiters(Remove(waiters, f), [state EXCEPT ![f] = "Done"],
                              woken \ {f}, permits - required[f])
    BY DEF PollNotified
  <2> QED
    BY <2>3, <2>4, <2>5, <2>6, <2>7, <2>8
<1>3. CASE Enqueue(f, w) \/ StayWaiting(f, w)
  <2>1. held' = held /\ permits' = permits
    BY <1>3 DEF Enqueue, StayWaiting
  <2>2. PermitsConserved'
    BY <1>1, <2>1, ConservedElsewhere DEF ConservedInv, IInv
  <2>3. PendingHoldsNothing'
    BY <1>1, <1>3, <2>1
    DEF ConservedInv, PendingHoldsNothing, Enqueue, StayWaiting
  <2> QED
    BY <2>2, <2>3
<1> QED
  BY <1>2, <1>3 DEF PollNew, PollWaiting, PollNotified

(* A step that leaves the permits alone and resolves or drops no future late. *)
LEMMA AcquiringConserves ==
  ASSUME ConservedInv, IInv', NEW f \in Futures, NEW n \in amounts,
         Acquire(f, n) \/ TryAcquire(f, n)
  PROVE  PendingHoldsNothing' /\ PermitsConserved'
<1>1. state \in [Futures -> PollState] /\ held \in [Futures -> Nat]
      /\ permits \in Nat /\ total \in Int /\ n \in Nat
      /\ held[f] = 0 /\ state[f] = "Done" /\ total' = total /\ TypeOK'
  BY SemaphoreAssumption
  DEF ConservedInv, IInv, TypeOK, Acquire, TryAcquire, Unused
<1>2. CASE Acquire(f, n)
  <2>1. PermitsConserved'
    BY <1>1, <1>2, ConservedElsewhere DEF ConservedInv, IInv, Acquire
  <2>2. PendingHoldsNothing'
    BY <1>1, <1>2 DEF ConservedInv, PendingHoldsNothing, Acquire
  <2> QED
    BY <2>1, <2>2
<1>3. CASE TryAcquire(f, n)
  <2>1. held'[f] = n /\ permits' = permits - n
        /\ \A g \in Futures \ {f} : held[g] = held'[g]
    BY <1>1, <1>3 DEF TryAcquire
  <2>2. permits' + held'[f] + total = permits + held[f] + total'
    BY <1>1, <2>1
  <2>3. PermitsConserved'
    BY <1>1, <2>1, <2>2, ConservedAt DEF ConservedInv, IInv
  <2>4. PendingHoldsNothing'
    BY <1>1, <1>3 DEF ConservedInv, PendingHoldsNothing, TryAcquire
  <2> QED
    BY <2>3, <2>4
<1> QED
  BY <1>2, <1>3

(* A releaser gives its permits back, or keeps them out of circulation. *)
LEMMA ReleaserConserves ==
  ASSUME ConservedInv, IInv', NEW f \in Futures, DropReleaser(f) \/ Disarm(f)
  PROVE  PendingHoldsNothing' /\ PermitsConserved'
<1>1. state \in [Futures -> PollState] /\ held \in [Futures -> Nat]
      /\ permits \in Nat /\ total \in Int /\ held[f] \in Nat /\ TypeOK'
      /\ waiters \in Seq(Futures)
  BY DEF ConservedInv, IInv, TypeOK
<1>2. held'[f] = 0 /\ \A g \in Futures \ {f} : held[g] = held'[g]
  BY <1>1 DEF DropReleaser, Disarm
<1>3. \A g \in Futures : state'[g] # "Done" <=> state[g] # "Done"
  <2>1. CASE DropReleaser(f)
    <3>1. \A g \in Nodes(waiters) : state[g] # "Done"
      BY DEF ConservedInv, IInv, QueueHoldsWaiters, Queued
    <3>2. WakeupWaiters(waiters, state, woken, permits + held[f])
      BY <2>1 DEF DropReleaser, ReleasePermits
    <3> QED
      BY <1>1, <3>1, <3>2, WakeupPending
  <2>2. CASE Disarm(f)
    BY <2>2 DEF Disarm
  <2> QED
    BY <2>1, <2>2
<1>4. permits' + held'[f] + total = permits + held[f] + total'
  <2>1. CASE DropReleaser(f)
    <3>1. permits' = permits + held[f] /\ total' = total
      BY <2>1 DEF DropReleaser, ReleasePermits
    <3> QED
      BY <1>1, <1>2, <3>1
  <2>2. CASE Disarm(f)
    <3>1. permits' = permits /\ total' = total - held[f]
      BY <2>2 DEF Disarm
    <3> QED
      BY <1>1, <1>2, <3>1
  <2> QED
    BY <2>1, <2>2
<1>5. PermitsConserved'
  BY <1>1, <1>2, <1>4, ConservedAt DEF ConservedInv, IInv
<1>6. PendingHoldsNothing'
  BY <1>1, <1>2, <1>3 DEF ConservedInv, PendingHoldsNothing
<1> QED
  BY <1>5, <1>6

(* release adds permits that nobody held. *)
LEMMA ReleaseConserves ==
  ASSUME ConservedInv, IInv', NEW n \in amounts, Release(n)
  PROVE  PendingHoldsNothing' /\ PermitsConserved'
<1>1. state \in [Futures -> PollState] /\ permits \in Nat /\ total \in Int
      /\ n \in Nat /\ TypeOK' /\ waiters \in Seq(Futures) /\ held' = held
      /\ permits' = permits + n /\ total' = total + n
  BY SemaphoreAssumption DEF ConservedInv, IInv, TypeOK, Release, ReleasePermits
<1>2. \A g \in Nodes(waiters) : state[g] # "Done"
  BY DEF ConservedInv, IInv, QueueHoldsWaiters, Queued
<1>3. WakeupWaiters(waiters, state, woken, permits + n)
  BY DEF Release, ReleasePermits
<1>4. \A g \in Futures : state'[g] # "Done" <=> state[g] # "Done"
  BY <1>1, <1>2, <1>3, WakeupPending
<1>5. permits' + total = permits + total'
  BY <1>1
<1>6. PermitsConserved'
  BY <1>1, <1>5, ConservedElsewhere DEF ConservedInv, IInv
<1>7. PendingHoldsNothing'
  BY <1>1, <1>4 DEF ConservedInv, PendingHoldsNothing
<1> QED
  BY <1>6, <1>7

(* The queue without the future on slot f that is dropped. *)
LEMMA DroppedPending ==
  ASSUME IInv, NEW f \in Futures, DropNotified(f)
  PROVE  \A g \in Futures \ {f} : state'[g] # "Done" <=> state[g] # "Done"
<1> DEFINE q == IF is_fair THEN Remove(waiters, f) ELSE waiters
           st == [state EXCEPT ![f] = "Done"]
<1>1. state \in [Futures -> PollState] /\ waiters \in Seq(Futures)
      /\ state[f] = "Notified" /\ WakeupWaiters(q, st, woken \ {f}, permits)
  BY DEF IInv, TypeOK, DropNotified
<1>2. q \in Seq(Futures) /\ Nodes(q) = Nodes(waiters) \ {f}
  <2>1. CASE is_fair
    BY <1>1, <2>1, DequeueQueue DEF Queued
  <2>2. CASE ~is_fair
    BY <1>1, <2>2 DEF IInv, QueueHoldsWaiters, Queued
  <2> QED
    BY <2>1, <2>2
<1>3. st \in [Futures -> PollState]
  BY <1>1 DEF PollState
<1>4. \A g \in Nodes(q) : st[g] # "Done"
  BY <1>1, <1>2 DEF IInv, QueueHoldsWaiters, Queued
<1>5. \A g \in Futures \ {f} : st[g] = state[g]
  BY <1>1
<1> HIDE DEF q, st
<1>6. \A g \in Futures : state'[g] # "Done" <=> st[g] # "Done"
  BY <1>1, <1>2, <1>3, <1>4, WakeupPending
<1> QED
  BY <1>5, <1>6

(* Cancellation moves no permits. *)
LEMMA DropConserves ==
  ASSUME ConservedInv, IInv', NEW f \in Futures, DropFuture(f)
  PROVE  PendingHoldsNothing' /\ PermitsConserved'
<1>1. held' = held /\ permits' = permits /\ total' = total /\ TypeOK'
      /\ permits \in Nat /\ total \in Int /\ state[f] # "Done"
      /\ state \in [Futures -> PollState]
  BY DEF DropFuture, DropNotified, DropWaiting, DropNew, ConservedInv, IInv,
         TypeOK
<1>2. PermitsConserved'
  BY <1>1, ConservedElsewhere DEF ConservedInv, IInv
<1>3. \A g \in Futures \ {f} : state'[g] # "Done" <=> state[g] # "Done"
  BY <1>1, DroppedPending
  DEF DropFuture, DropWaiting, DropNew, ConservedInv
<1>4. held[f] = 0
  BY <1>1 DEF ConservedInv, PendingHoldsNothing
<1>5. PendingHoldsNothing'
  BY <1>1, <1>3, <1>4 DEF ConservedInv, PendingHoldsNothing
<1> QED
  BY <1>2, <1>5

(***************************************************************************)
(* No permit is lost or made up: whatever is acquired, released, disarmed  *)
(* or cancelled, in whatever order, the permits that are available and     *)
(* those the releasers hold add up to the permits put into circulation.    *)
(***************************************************************************)
THEOREM PermitsAreConserved == Spec => []PermitsConserved
<1>1. Init => ConservedInv
  <2> SUFFICES ASSUME Init PROVE PendingHoldsNothing /\ PermitsConserved
    BY InitInv DEF ConservedInv
  <2>1. PendingHoldsNothing
    BY DEF Init, PendingHoldsNothing
  <2>2. held \in [Futures -> Nat] /\ permits \in Nat /\ total = permits
    BY InitInv DEF Init, IInv, TypeOK
  <2>3. Sums(held, Futures)[Futures] = 0
    BY <2>2, SumsZero, SemaphoreAssumption DEF Init
  <2> DEFINE sum == Sums(held, Futures)[Futures]
  <2>4. permits + sum = total
    <3> HIDE DEF sum
    <3>1. sum = 0
      BY <2>3 DEF sum
    <3> QED
      BY <2>2, <3>1
  <2>5. PermitsConserved
    BY <2>4
    DEF PermitsConserved, MapThenSumSet, MapThenFoldSet, Sums, AddUp, Any
  <2> QED
    BY <2>1, <2>5
<1>2. ConservedInv /\ [Next]_vars => ConservedInv'
  <2> SUFFICES ASSUME ConservedInv, [Next]_vars
               PROVE  PendingHoldsNothing' /\ PermitsConserved'
    BY NextInv DEF ConservedInv
  <2>1. IInv'
    BY NextInv DEF ConservedInv
  <2>2. CASE UNCHANGED vars
    <3>1. PermitsConserved'
      BY <2>2, <2>1, ConservedElsewhere DEF vars, ConservedInv, IInv
    <3>2. PendingHoldsNothing'
      BY <2>2 DEF vars, ConservedInv, PendingHoldsNothing
    <3> QED
      BY <3>1, <3>2
  <2>3. CASE Next
    BY <2>1, <2>3, AcquiringConserves, PollConserves, ReleaserConserves,
       DropConserves, ReleaseConserves
    DEF Next
  <2> QED
    BY <2>2, <2>3
<1>3. ConservedInv => PermitsConserved
  BY DEF ConservedInv
<1> QED
  BY <1>1, <1>2, <1>3, PTL DEF Spec, SafetySpec

-----------------------------------------------------------------------------
(***************************************************************************)
(* Uniform demand.  Besides IInv, a pending future asks for one of the     *)
(* program's amounts.                                                      *)
(***************************************************************************)
RequiredIsAsked == \A f \in Futures : state[f] # "Done" => required[f] \in amounts

UniformInv == IInv /\ RequiredIsAsked /\ UniformDemandServed

Notified == {f \in Futures : state[f] = "Notified"}

(* What n waiters need together when each of them needs k permits. *)
LEMMA UniformDemand ==
  ASSUME NEW q \in Seq(Futures), NEW k \in Nat,
         \A g \in Nodes(q) : required[g] = k,
         NEW n \in 0..Len(q)
  PROVE  Demand(q, n) = n * k
<1> DEFINE Sum(f) == [j \in 0..n |-> IF j = 0 THEN 0
                                    ELSE f[j - 1] + required[q[j]]]
           d == CHOOSE f : f = Sum(f)
           w == [j \in 0..n |-> j * k]
           T == {j \in Nat : j <= n => d[j] = j * k}
<1>1. Len(q) \in Nat /\ n \in Nat /\ \A j \in 1..n : required[q[j]] = k
  BY LenProperties DEF Nodes
<1>2. w = Sum(w)
  <2>1. \A j \in 1..n : j * k = (j - 1) * k + k
    BY <1>1
  <2>2. \A j \in 1..n : w[j - 1] = (j - 1) * k
    BY <1>1
  <2> QED
    BY <1>1, <2>1, <2>2
<1>3. d = Sum(d)
  <2> HIDE DEF w, Sum
  <2> QED
    BY <1>2
<1>4. \A j \in 0..n : d[j] = IF j = 0 THEN 0 ELSE d[j - 1] + required[q[j]]
  <2> HIDE DEF d
  <2> QED
    BY <1>3
<1> HIDE DEF d
<1>5. 0 \in T
  BY <1>1, <1>4
<1>6. ASSUME NEW j \in Nat, j \in T PROVE j + 1 \in T
  <2>1. CASE j + 1 <= n
    <3>1. d[j + 1] = d[j] + k /\ d[j] = j * k
      BY <1>1, <1>4, <1>6, <2>1
    <3>2. j * k + k = (j + 1) * k
      OBVIOUS
    <3> QED
      BY <3>1, <3>2
  <2>2. CASE ~(j + 1 <= n)
    BY <2>2
  <2> QED
    BY <2>1, <2>2
<1>7. n \in T
  <2> HIDE DEF T
  <2> QED
    BY <1>1, <1>5, <1>6, NatSetInduction
<1> QED
  BY <1>7 DEF d, Demand

(* Nobody is notified twice: n waiters that are reached are n futures. *)
LEMMA ReachedCount ==
  ASSUME NEW q \in Seq(Futures), Distinct(q), NEW n \in 0..Len(q),
         NEW S \in SUBSET Futures, {q[i] : i \in 1..n} \subseteq S
  PROVE  IsFiniteSet(S) /\ Cardinality(S) \in Nat /\ n <= Cardinality(S)
<1> DEFINE f == [i \in 1..n |-> q[i]]
<1>1. Len(q) \in Nat /\ n \in Nat
  BY LenProperties
<1>2. IsFiniteSet(S) /\ Cardinality(S) \in Nat
  BY SemaphoreAssumption, FS_Subset, FS_CardinalityType
<1>3. f \in [1..n -> S] /\ \A i, j \in 1..n : f[i] = f[j] => i = j
  BY <1>1 DEF Distinct
<1>4. f \in Injection(1..n, S)
  BY <1>3 DEF Injection, IsInjective
<1>5. Cardinality(1..n) <= Cardinality(S)
  BY <1>2, <1>4, FS_Injection
<1>6. Cardinality(1..n) = n
  BY <1>1, FS_Interval
<1> QED
  BY <1>2, <1>5, <1>6

LEMMA OneMore ==
  ASSUME NEW n \in Nat, NEW m \in Nat, n <= m,
         NEW k \in Nat, NEW p \in Nat, p < (n + 1) * k
  PROVE  p < k * (1 + m)
  OBVIOUS

(***************************************************************************)
(* Where wakeup_waiters stops, the permits do not suffice for one more:    *)
(* this holds whatever happened before, so every release repairs it.       *)
(***************************************************************************)
LEMMA WakeupUniform ==
  ASSUME required \in [Futures -> Nat], ~is_fair,
         NEW k \in Nat,
         NEW q \in Seq(Futures), Distinct(q),
         \A g \in Nodes(q) : required[g] = k,
         NEW st \in [Futures -> PollState],
         NEW wk, NEW available \in Nat,
         WakeupWaiters(q, st, wk, available), ~IsEmpty(waiters')
  PROVE  available < k * (1 + Cardinality(Notified'))
<1>1. PICK n \in 0..Len(q) :
        /\ StopsAfter(q, n, available)
        /\ state' = [g \in Futures |-> IF g \in {q[i] : i \in 1..n}
                                       THEN "Notified" ELSE st[g]]
        /\ waiters' = SubSeq(q, n + 1, Len(q))
  BY DEF WakeupWaiters
<1>2. Len(q) \in Nat /\ n \in Nat /\ {q[i] : i \in 1..n} \subseteq Futures
  BY LenProperties
<1>3. n < Len(q)
  <2>1. CASE n = Len(q)
    <3>1. waiters' = << >>
      BY <1>1, <1>2, <2>1
    <3> QED
      BY <3>1 DEF IsEmpty
  <2> QED
    BY <1>2, <2>1
<1>4. Demand(q, n + 1) > available
  BY <1>1, <1>3 DEF StopsAfter
<1>5. Demand(q, n + 1) = (n + 1) * k
  <2>1. n + 1 \in 0..Len(q)
    BY <1>2, <1>3
  <2> QED
    BY <2>1, UniformDemand
<1>6. {q[i] : i \in 1..n} \subseteq Notified' /\ Notified' \in SUBSET Futures
  BY <1>1, <1>2 DEF Notified
<1> DEFINE c == Cardinality(Notified')
<1>7. c \in Nat /\ n <= c
  BY <1>6, ReachedCount
<1>8. PICK m \in Nat : m = c
  BY <1>7
<1> HIDE DEF c
<1>9. available < (n + 1) * k /\ n <= m
  BY <1>4, <1>5, <1>7, <1>8
<1>10. available < k * (1 + m)
  BY <1>2, <1>9, OneMore
<1> QED
  BY <1>8, <1>10 DEF c

(* One future more or less is notified. *)
LEMMA NotifiedFinite == IsFiniteSet(Notified) /\ Cardinality(Notified) \in Nat
  BY SemaphoreAssumption, FS_Subset, FS_CardinalityType DEF Notified

(***************************************************************************)
(* The steps after which the permits do not suffice for one more waiter    *)
(* than there are notified ones: those that call wakeup_waiters,           *)
(***************************************************************************)
LEMMA ReleasingServes ==
  ASSUME IInv, NEW k \in Nat, ~is_fair,
         \A g \in Futures : state[g] # "Done" => required[g] = k,
         ~IsEmpty(waiters'),
         \/ \E f \in Futures : DropReleaser(f) \/ DropNotified(f)
         \/ \E n \in amounts : Release(n)
  PROVE  permits' < k * (1 + Cardinality(Notified'))
<1>1. /\ waiters \in Seq(Futures) /\ Distinct(waiters) /\ permits \in Nat
      /\ required \in [Futures -> Nat] /\ held \in [Futures -> Nat]
      /\ state \in [Futures -> PollState]
      /\ \A g \in Nodes(waiters) : required[g] = k
  BY DEF IInv, TypeOK, QueueHoldsWaiters, Queued
<1>2. ASSUME NEW st \in [Futures -> PollState], NEW wk,
             NEW available \in Nat, permits' = available,
             WakeupWaiters(waiters, st, wk, available)
      PROVE  permits' < k * (1 + Cardinality(Notified'))
  BY <1>1, <1>2, WakeupUniform
<1>3. ASSUME NEW f \in Futures, DropReleaser(f)
      PROVE  permits' < k * (1 + Cardinality(Notified'))
  <2>1. permits + held[f] \in Nat
    BY <1>1
  <2> QED
    BY <1>1, <1>2, <1>3, <2>1 DEF DropReleaser, ReleasePermits
<1>4. ASSUME NEW n \in amounts, Release(n)
      PROVE  permits' < k * (1 + Cardinality(Notified'))
  <2>1. permits + n \in Nat
    BY <1>1, SemaphoreAssumption DEF IInv, TypeOK
  <2> QED
    BY <1>1, <1>2, <1>4, <2>1 DEF Release, ReleasePermits
<1>5. ASSUME NEW f \in Futures, DropNotified(f)
      PROVE  permits' < k * (1 + Cardinality(Notified'))
  <2>1. [state EXCEPT ![f] = "Done"] \in [Futures -> PollState]
    BY <1>1 DEF PollState
  <2>2. permits' = permits
        /\ WakeupWaiters(waiters, [state EXCEPT ![f] = "Done"], woken \ {f},
                         permits)
    BY <1>5 DEF DropNotified
  <2> QED
    BY <1>1, <1>2, <2>1, <2>2
<1> QED
  BY <1>3, <1>4, <1>5

(* those that put a future into the queue, *)
LEMMA EnqueueingServes ==
  ASSUME IInv, NEW f \in Futures, NEW k \in Nat, required[f] = k,
         permits < required[f], permits' = permits
  PROVE  permits' < k * (1 + Cardinality(Notified'))
<1> DEFINE c == Cardinality(Notified')
<1>1. Notified' \in SUBSET Futures
  BY DEF Notified
<1>2. c \in Nat
  BY <1>1, SemaphoreAssumption, FS_Subset, FS_CardinalityType
<1>3. PICK m \in Nat : m = c
  BY <1>2
<1> HIDE DEF c
<1>4. permits \in Nat /\ permits < k
  BY DEF IInv, TypeOK
<1>5. permits < k * (1 + m)
  BY <1>4
<1> QED
  BY <1>3, <1>5 DEF c

(* those that take a notified future's permits, *)
LEMMA NotifiedServes ==
  ASSUME IInv, NEW f \in Futures, NEW k \in Nat, required[f] = k,
         state[f] = "Notified", permits' = permits - required[f],
         state' = [state EXCEPT ![f] = "Done"],
         permits < k * (1 + Cardinality(Notified))
  PROVE  permits' < k * (1 + Cardinality(Notified'))
<1>1. Notified' = Notified \ {f} /\ f \in Notified
  BY DEF Notified, IInv, TypeOK
<1>2. IsFiniteSet(Notified) /\ Cardinality(Notified) \in Nat
  BY NotifiedFinite
<1>3. Cardinality(Notified') = Cardinality(Notified) - 1
  BY <1>1, <1>2, FS_RemoveElement
<1>4. Cardinality(Notified) # 0
  BY <1>1, <1>2, FS_EmptySet
<1> DEFINE c == Cardinality(Notified)
<1>5. PICK m \in Nat : m = c
  BY <1>2
<1>6. m # 0 /\ permits < k * (1 + m) /\ permits \in Nat
  BY <1>4, <1>5 DEF IInv, TypeOK
<1>7. permits - k < k * (1 + (m - 1))
  BY <1>6
<1>8. Cardinality(Notified') = m - 1
  BY <1>3, <1>5
<1> QED
  BY <1>7, <1>8

(* and those that take permits or nothing, and notify nobody. *)
LEMMA OtherServes ==
  ASSUME IInv, NEW k \in Nat, Notified' = Notified,
         permits' \in Nat, permits' <= permits,
         permits < k * (1 + Cardinality(Notified))
  PROVE  permits' < k * (1 + Cardinality(Notified'))
<1> DEFINE c == k * (1 + Cardinality(Notified))
<1>1. c \in Nat
  BY NotifiedFinite
<1>2. PICK m \in Nat : m = c
  BY <1>1
<1>3. PICK p \in Nat : p = permits'
  OBVIOUS
<1> HIDE DEF c
<1>4. permits \in Nat /\ p <= permits /\ permits < m
  BY <1>2, <1>3 DEF c, IInv, TypeOK
<1>5. p < m
  BY <1>4
<1> QED
  BY <1>2, <1>3, <1>5 DEF c

(* One step, when all futures ask for the same number of permits. *)
LEMMA UniformStep ==
  ASSUME UniformInv, IInv', Next, NEW k \in Nat, amounts = {k}, k # 0, ~is_fair,
         ~IsEmpty(waiters')
  PROVE  permits' < k * (1 + Cardinality(Notified'))
<1> DEFINE Goal == permits' < k * (1 + Cardinality(Notified'))
<1> HIDE DEF Goal
<1>1. /\ IInv /\ \A g \in Futures : state[g] # "Done" => required[g] = k
      /\ waiters \in Seq(Futures) /\ permits \in Nat /\ permits' \in Nat
      /\ required \in [Futures -> Nat] /\ held \in [Futures -> Nat]
      /\ state \in [Futures -> PollState]
  BY DEF UniformInv, IInv, TypeOK, RequiredIsAsked
<1>2. ~IsEmpty(waiters) => permits < k * (1 + Cardinality(Notified))
  BY DEF UniformInv, UniformDemandServed, Notified
<1>3. ASSUME ~IsEmpty(waiters), Notified' = Notified, permits' <= permits
      PROVE  Goal
  BY <1>1, <1>2, <1>3, OtherServes DEF Goal
<1>4. ASSUME NEW f \in Futures, state[f] # "Done", permits < required[f],
             permits' = permits
      PROVE  Goal
  BY <1>1, <1>4, EnqueueingServes DEF Goal
<1>5. ASSUME NEW f \in Futures, NEW n \in amounts, Acquire(f, n) PROVE Goal
  <2>1. waiters' = waiters /\ permits' = permits
    BY <1>5 DEF Acquire
  <2>2. Notified' = Notified
    BY <1>1, <1>5 DEF Acquire, Unused, Notified
  <2> QED
    BY <1>1, <1>3, <2>1, <2>2
<1>6. ASSUME NEW f \in Futures, NEW n \in amounts, TryAcquire(f, n) PROVE Goal
  <2>1. waiters' = waiters /\ permits' = permits - k
    BY <1>6 DEF TryAcquire
  <2>2. permits' <= permits
    BY <1>1, <2>1
  <2>3. Notified' = Notified
    BY <1>6 DEF TryAcquire, Notified
  <2> QED
    BY <1>3, <2>1, <2>2, <2>3
<1>7. ASSUME NEW f \in Futures, NEW w \in Wakers, PollNew(f, w) PROVE Goal
  <2>0. state[f] = "New" /\ required[f] = k
    BY <1>1, <1>7 DEF PollNew
  <2>1. CASE Obtain(f) /\ state' = [state EXCEPT ![f] = "Done"]
             /\ UNCHANGED waiters
    <3>1. permits' = permits - k
      BY <2>0, <2>1 DEF Obtain
    <3>2. permits' <= permits
      BY <1>1, <3>1
    <3>3. Notified' = Notified
      BY <1>1, <2>0, <2>1 DEF Notified
    <3> QED
      BY <1>3, <2>1, <3>2, <3>3
  <2>2. CASE ~Available(required[f]) /\ Enqueue(f, w)
    <3>1. permits < required[f] /\ permits' = permits
      BY <1>1, <2>0, <2>2 DEF Available, Enqueue
    <3> QED
      BY <1>4, <2>0, <3>1
  <2> QED
    BY <1>7, <2>1, <2>2 DEF PollNew
<1>8. ASSUME NEW f \in Futures, NEW w \in Wakers, PollWaiting(f, w) PROVE Goal
  <2>0. state[f] = "Waiting" /\ required[f] = k
    BY <1>1, <1>8 DEF PollWaiting
  <2>1. ~IsEmpty(waiters)
    BY <1>1, <2>0, DequeueQueue DEF Queued
  <2>2. CASE Obtain(f) /\ state' = [state EXCEPT ![f] = "Done"]
    <3>1. permits' = permits - k
      BY <2>0, <2>2 DEF Obtain
    <3>2. permits' <= permits
      BY <1>1, <3>1
    <3>3. Notified' = Notified
      BY <1>1, <2>0, <2>2 DEF Notified
    <3> QED
      BY <1>3, <2>1, <3>2, <3>3
  <2>3. CASE StayWaiting(f, w)
    <3>1. permits' = permits /\ Notified' = Notified
      BY <2>3 DEF StayWaiting, Notified
    <3> QED
      BY <1>1, <1>3, <2>1, <3>1
  <2> QED
    BY <1>8, <2>2, <2>3 DEF PollWaiting
<1>9. ASSUME NEW f \in Futures, NEW w \in Wakers, PollNotified(f, w) PROVE Goal
  <2>0. state[f] = "Notified" /\ required[f] = k
    BY <1>1, <1>9 DEF PollNotified
  <2>1. CASE Obtain(f) /\ state' = [state EXCEPT ![f] = "Done"]
             /\ UNCHANGED waiters
    <3>1. permits' = permits - required[f]
      BY <2>1 DEF Obtain
    <3> QED
      BY <1>1, <1>2, <2>0, <2>1, <3>1, NotifiedServes DEF Goal
  <2>2. CASE permits < required[f] /\ Enqueue(f, w)
    <3>1. permits' = permits
      BY <2>2 DEF Enqueue
    <3> QED
      BY <1>4, <2>0, <2>2, <3>1
  <2> QED
    BY <1>9, <2>1, <2>2 DEF PollNotified
<1>10. ASSUME NEW f \in Futures, Disarm(f) PROVE Goal
  <2>1. waiters' = waiters /\ permits' = permits /\ Notified' = Notified
    BY <1>10 DEF Disarm, Notified
  <2> QED
    BY <1>1, <1>3, <2>1
<1>11. ASSUME NEW f \in Futures, DropWaiting(f) \/ DropNew(f) PROVE Goal
  <2>1. permits' = permits
    BY <1>11 DEF DropWaiting, DropNew
  <2>2. Notified' = Notified
    BY <1>1, <1>11 DEF DropWaiting, DropNew, Notified
  <2>3. ~IsEmpty(waiters)
    BY <1>1, <1>11, DequeueQueue DEF DropWaiting, DropNew, Queued
  <2> QED
    BY <1>1, <1>3, <2>1, <2>2, <2>3
<1>12. ASSUME \/ \E f \in Futures : DropReleaser(f) \/ DropNotified(f)
              \/ \E n \in amounts : Release(n)
       PROVE  Goal
  BY <1>1, <1>12, ReleasingServes DEF Goal
<1> QED
  BY <1>5, <1>6, <1>7, <1>8, <1>9, <1>10, <1>11, <1>12
  DEF Next, Poll, DropFuture, Goal

(* Only acquire makes a future pending. *)
LEMMA PendingStep ==
  ASSUME IInv, Next, NEW g \in Futures, state'[g] # "Done",
         ~\E n \in amounts : Acquire(g, n)
  PROVE  state[g] # "Done"
<1>1. /\ state \in [Futures -> PollState] /\ waiters \in Seq(Futures)
      /\ \A f \in Nodes(waiters) : state[f] # "Done"
  BY DEF IInv, TypeOK, QueueHoldsWaiters, Queued
<1>2. ASSUME NEW f \in Futures, NEW n \in amounts,
             Acquire(f, n) \/ TryAcquire(f, n)
      PROVE  state[g] # "Done"
  <2>1. CASE Acquire(f, n)
    <3>1. f # g
      BY <2>1
    <3> QED
      BY <1>1, <2>1, <3>1 DEF Acquire
  <2> QED
    BY <1>2, <2>1 DEF TryAcquire
<1>3. ASSUME NEW f \in Futures, NEW w \in Wakers, PollNew(f, w) \/ PollWaiting(f, w)
      PROVE  state[g] # "Done"
  BY <1>1, <1>3 DEF PollNew, PollWaiting, Enqueue, StayWaiting
<1>4. ASSUME NEW f \in Futures, NEW w \in Wakers, PollNotified(f, w)
      PROVE  state[g] # "Done"
  <2>0. state[f] = "Notified"
    BY <1>4 DEF PollNotified
  <2>1. CASE state' = [state EXCEPT ![f] = "Done"]
    BY <1>1, <2>1
  <2>2. CASE Enqueue(f, w)
    BY <1>1, <2>0, <2>2 DEF Enqueue
  <2>3. CASE /\ is_fair
             /\ WakeupWaiters(Remove(waiters, f), [state EXCEPT ![f] = "Done"],
                              woken \ {f}, permits - required[f])
    <3> DEFINE st == [state EXCEPT ![f] = "Done"]
               q == Remove(waiters, f)
    <3>1. q \in Seq(Futures) /\ Nodes(q) = Nodes(waiters) \ {f}
      BY <2>0, <2>3, DequeueQueue DEF Queued
    <3>2. st \in [Futures -> PollState] /\ \A h \in Nodes(q) : st[h] # "Done"
      BY <1>1, <3>1 DEF PollState
    <3>3. st[g] # "Done" => state[g] # "Done"
      BY <1>1
    <3>4. WakeupWaiters(q, st, woken \ {f}, permits - required[f])
      BY <2>3
    <3> HIDE DEF st, q
    <3>5. \A h \in Futures : state'[h] # "Done" <=> st[h] # "Done"
      BY <3>1, <3>2, <3>4, WakeupPending
    <3> QED
      BY <3>3, <3>5
  <2> QED
    BY <1>4, <2>1, <2>2, <2>3 DEF PollNotified
<1>5. ASSUME NEW f \in Futures, Disarm(f) \/ DropFuture(f)
      PROVE  state[g] # "Done"
  BY <1>1, <1>5, DroppedPending
  DEF Disarm, DropFuture, DropWaiting, DropNew, DropNotified
<1>6. ASSUME NEW n, ReleasePermits(n) PROVE state[g] # "Done"
  BY <1>1, <1>6, WakeupPending DEF ReleasePermits
<1>7. ASSUME NEW f \in Futures, DropReleaser(f) PROVE state[g] # "Done"
  BY <1>6, <1>7 DEF DropReleaser
<1>8. ASSUME NEW n \in amounts, Release(n) PROVE state[g] # "Done"
  BY <1>6, <1>8 DEF Release
<1> QED
  BY <1>2, <1>3, <1>4, <1>5, <1>7, <1>8 DEF Next, Poll

(***************************************************************************)
(* No sleeping beside sufficient permits: an unfair semaphore of which     *)
(* everybody asks the same number of permits has at every moment notified  *)
(* as many waiters as its permits suffice for, or all of them.             *)
(***************************************************************************)
THEOREM PermitsAreOffered == Spec => []UniformDemandServed
<1>1. Init => UniformInv
  <2> SUFFICES ASSUME Init PROVE RequiredIsAsked /\ UniformDemandServed
    BY InitInv DEF UniformInv
  <2> QED
    BY DEF Init, RequiredIsAsked, UniformDemandServed, IsEmpty
<1>2. UniformInv /\ [Next]_vars => UniformInv'
  <2> SUFFICES ASSUME UniformInv, [Next]_vars
               PROVE  RequiredIsAsked' /\ UniformDemandServed'
    BY NextInv DEF UniformInv
  <2>1. IInv /\ IInv'
    BY NextInv DEF UniformInv
  <2>2. CASE UNCHANGED vars
    BY <2>2 DEF vars, UniformInv, RequiredIsAsked, UniformDemandServed
  <2>3. CASE Next
    <3>1. amounts' = amounts /\ is_fair' = is_fair
      BY <2>3
      DEF Next, Acquire, TryAcquire, Poll, PollNew, PollWaiting, PollNotified,
          DropReleaser, Disarm, DropFuture, DropNotified, DropWaiting, DropNew,
          Release
    <3>2. RequiredIsAsked'
      <4> SUFFICES ASSUME NEW g \in Futures, state'[g] # "Done"
                   PROVE  required'[g] \in amounts'
        BY DEF RequiredIsAsked
      <4>1. required \in [Futures -> Nat]
        BY <2>1 DEF IInv, TypeOK
      <4>2. CASE \E n \in amounts : Acquire(g, n)
        BY <3>1, <4>1, <4>2 DEF Acquire
      <4>3. CASE ~\E n \in amounts : Acquire(g, n)
        <5>1. required'[g] = required[g]
          BY <2>3, <4>1, <4>3
          DEF Next, Acquire, TryAcquire, Poll, PollNew, PollWaiting,
              PollNotified, DropReleaser, Disarm, DropFuture, DropNotified,
              DropWaiting, DropNew, Release
        <5> QED
          BY <2>1, <2>3, <3>1, <4>3, <5>1, PendingStep
          DEF UniformInv, RequiredIsAsked
      <4> QED
        BY <4>2, <4>3
    <3>3. UniformDemandServed'
      <4> SUFFICES ASSUME NEW k \in amounts \ {0}, ~is_fair, amounts = {k},
                          ~IsEmpty(waiters')
                   PROVE  permits' < k * (1 + Cardinality(Notified'))
        BY <3>1 DEF UniformDemandServed, Notified
      <4>1. k \in Nat
        BY <2>1, SemaphoreAssumption DEF IInv, TypeOK
      <4> QED
        BY <2>1, <2>3, <4>1, UniformStep
    <3> QED
      BY <3>2, <3>3
  <2> QED
    BY <2>2, <2>3
<1>3. UniformInv => UniformDemandServed
  BY DEF UniformInv
<1> QED
  BY <1>1, <1>2, <1>3, PTL DEF Spec, SafetySpec

-----------------------------------------------------------------------------
(***************************************************************************)
(* The sums behind Demand, as the recursive function that defines it.      *)
(***************************************************************************)
Demands(f, q, n) ==
  [k \in 0..n |-> IF k = 0 THEN 0 ELSE f[k - 1] + required[q[k]]]

(* There is one. *)
LEMMA DemandsExist ==
  ASSUME NEW q, NEW n \in Nat
  PROVE  \E f : f = Demands(f, q, n)
<1> DEFINE T == {m \in Nat : \E f : f = Demands(f, q, m)}
<1>1. 0 \in T
  <2> DEFINE f == [k \in 0..0 |-> 0]
             g == [k \in 0..0 |-> IF k = 0 THEN 0 ELSE f[k - 1] + required[q[k]]]
  <2>1. \A k \in 0..0 : k = 0
    OBVIOUS
  <2>2. f = g
    BY <2>1
  <2>3. g = Demands(f, q, 0)
    BY DEF Demands
  <2> HIDE DEF f, g
  <2>4. f = Demands(f, q, 0)
    BY <2>2, <2>3
  <2> QED
    BY <2>4
<1>2. ASSUME NEW m \in Nat, m \in T PROVE m + 1 \in T
  <2>1. PICK f : f = Demands(f, q, m)
    BY <1>2
  <2> DEFINE last == f[m] + required[q[m + 1]]
             g == [k \in 0..(m + 1) |-> IF k \in 0..m THEN f[k] ELSE last]
             h == [k \in 0..(m + 1) |-> IF k = 0 THEN 0
                                        ELSE g[k - 1] + required[q[k]]]
  <2>2. ASSUME NEW k \in 0..(m + 1) PROVE g[k] = h[k]
    <3>1. CASE k = 0
      <4>1. k \in 0..m /\ g[k] = f[k] /\ h[k] = 0
        BY <3>1
      <4>2. f[k] = 0
        BY <2>1, <3>1, <4>1 DEF Demands
      <4> QED
        BY <4>1, <4>2
    <3>2. CASE k # 0
      <4>1. k - 1 \in 0..m /\ k - 1 \in 0..(m + 1)
        BY <3>2
      <4>2. g[k - 1] = f[k - 1] /\ h[k] = g[k - 1] + required[q[k]]
        BY <3>2, <4>1
      <4> HIDE DEF h
      <4>3. CASE k \in 0..m
        <5>1. f[k] = f[k - 1] + required[q[k]]
          BY <2>1, <3>2, <4>3 DEF Demands
        <5>2. g[k] = f[k]
          BY <4>3
        <5> HIDE DEF g
        <5> QED
          BY <4>2, <5>1, <5>2
      <4>4. CASE k \notin 0..m
        <5>1. k - 1 = m /\ k = m + 1
          BY <4>4
        <5>2. g[k] = last
          BY <4>4
        <5> HIDE DEF g
        <5> QED
          BY <4>2, <5>1, <5>2
      <4> QED
        BY <4>3, <4>4
    <3> QED
      BY <3>1, <3>2
  <2>3. g = h
    <3>1. g = [k \in 0..(m + 1) |-> g[k]] /\ h = [k \in 0..(m + 1) |-> h[k]]
      OBVIOUS
    <3> HIDE DEF g, h
    <3> QED
      BY <2>2, <3>1
  <2> HIDE DEF g
  <2>4. h = Demands(g, q, m + 1)
    BY DEF Demands
  <2> HIDE DEF h
  <2>5. g = Demands(g, q, m + 1)
    BY <2>3, <2>4
  <2> QED
    BY <2>5
<1> HIDE DEF T
<1>3. Nat \subseteq T
  BY <1>1, <1>2, NatSetInduction
<1> QED
  BY <1>3 DEF T

(* Two of them agree as far as both go. *)
LEMMA DemandsAgree ==
  ASSUME NEW q, NEW n \in Nat, NEW N \in Nat, n <= N, NEW f, NEW g,
         f = Demands(f, q, n), g = Demands(g, q, N)
  PROVE  f[n] = g[n]
<1> DEFINE T == {k \in Nat : k <= n => f[k] = g[k]}
<1>1. 0 \in T
  <2>1. 0 \in 0..n /\ 0 \in 0..N
    OBVIOUS
  <2>2. f[0] = 0 /\ g[0] = 0
    BY <2>1 DEF Demands
  <2> QED
    BY <2>2
<1>2. ASSUME NEW k \in Nat, k \in T PROVE k + 1 \in T
  <2> SUFFICES ASSUME k + 1 <= n PROVE f[k + 1] = g[k + 1]
    OBVIOUS
  <2>1. k + 1 \in 0..n /\ k + 1 \in 0..N /\ k + 1 # 0 /\ (k + 1) - 1 = k
    OBVIOUS
  <2>2. f[k + 1] = f[k] + required[q[k + 1]]
    BY <2>1 DEF Demands
  <2>3. g[k + 1] = g[k] + required[q[k + 1]]
    BY <2>1 DEF Demands
  <2>4. f[k] = g[k]
    BY <1>2
  <2> QED
    BY <2>2, <2>3, <2>4
<1> HIDE DEF T
<1>3. Nat \subseteq T
  BY <1>1, <1>2, NatSetInduction
<1> QED
  BY <1>3 DEF T

(* What n waiters need, one after the other. *)
LEMMA DemandSteps ==
  ASSUME NEW q, NEW n \in Nat
  PROVE  Demand(q, 0) = 0 /\ Demand(q, n + 1) = Demand(q, n) + required[q[n + 1]]
<1> DEFINE at(m) == CHOOSE f : f = Demands(f, q, m)
<1>1. ASSUME NEW m \in Nat PROVE Demand(q, m) = at(m)[m]
  BY DEF Demand, Demands
<1>2. ASSUME NEW m \in Nat PROVE at(m) = Demands(at(m), q, m)
  <2>1. \E f : f = Demands(f, q, m)
    BY DemandsExist
  <2> QED
    BY <2>1
<1> HIDE DEF at
<1>3. Demand(q, 0) = 0
  <2>1. 0 \in 0..0 /\ at(0) = Demands(at(0), q, 0)
    BY <1>2
  <2>2. at(0)[0] = 0
    BY <2>1 DEF Demands
  <2> QED
    BY <1>1, <2>2
<1>4. Demand(q, n + 1) = Demand(q, n) + required[q[n + 1]]
  <2> DEFINE f == at(n)
             g == at(n + 1)
  <2>1. f = Demands(f, q, n) /\ g = Demands(g, q, n + 1)
    BY <1>2
  <2>2. Demand(q, n) = f[n] /\ Demand(q, n + 1) = g[n + 1]
    BY <1>1
  <2> HIDE DEF f, g
  <2>3. f[n] = g[n]
    <3>1. n + 1 \in Nat /\ n <= n + 1
      OBVIOUS
    <3> QED
      BY <2>1, <3>1, DemandsAgree
  <2>4. g[n + 1] = g[n] + required[q[n + 1]]
    <3>1. n + 1 \in 0..(n + 1) /\ n + 1 # 0 /\ (n + 1) - 1 = n
      OBVIOUS
    <3> QED
      BY <2>1, <3>1 DEF Demands
  <2> QED
    BY <2>2, <2>3, <2>4
<1> QED
  BY <1>3, <1>4

(* It is a natural number, and with more waiters not less. *)
LEMMA RequiredIsNat ==
  ASSUME required \in [Futures -> Nat], NEW q \in Seq(Futures),
         NEW k \in Nat, k + 1 <= Len(q)
  PROVE  required[q[k + 1]] \in Nat
<1>1. k + 1 \in 1..Len(q)
  BY LenProperties
<1>2. q[k + 1] \in Futures
  BY <1>1, ElementOfSeq
<1> QED
  BY <1>2

LEMMA DemandIsNat ==
  ASSUME required \in [Futures -> Nat], NEW q \in Seq(Futures),
         NEW j \in 0..Len(q)
  PROVE  Demand(q, j) \in Nat
<1> DEFINE T == {k \in Nat : k <= Len(q) => Demand(q, k) \in Nat}
<1>1. 0 \in T
  BY DemandSteps
<1>2. ASSUME NEW k \in Nat, k \in T PROVE k + 1 \in T
  <2> SUFFICES ASSUME k + 1 <= Len(q) PROVE Demand(q, k + 1) \in Nat
    OBVIOUS
  <2>1. Demand(q, k) \in Nat
    BY <1>2, LenProperties
  <2>2. Demand(q, k + 1) = Demand(q, k) + required[q[k + 1]]
    BY DemandSteps
  <2>3. required[q[k + 1]] \in Nat
    BY RequiredIsNat
  <2> QED
    BY <2>1, <2>2, <2>3
<1> HIDE DEF T
<1>3. Nat \subseteq T
  BY <1>1, <1>2, NatSetInduction
<1>4. j \in T /\ j <= Len(q)
  BY <1>3, LenProperties
<1> QED
  BY <1>4 DEF T

LEMMA DemandGrows ==
  ASSUME required \in [Futures -> Nat], NEW q \in Seq(Futures),
         NEW i \in Nat, NEW j \in 0..Len(q), i <= j
  PROVE  Demand(q, i) <= Demand(q, j)
<1> DEFINE T == {k \in Nat : i <= k /\ k <= Len(q) => Demand(q, i) <= Demand(q, k)}
<1>1. i <= Len(q) /\ i \in 0..Len(q) /\ Len(q) \in Nat
  BY LenProperties
<1>2. Demand(q, i) \in Nat
  BY <1>1, DemandIsNat
<1>3. 0 \in T
  <2>1. i <= 0 => i = 0
    OBVIOUS
  <2> QED
    BY <1>2, <2>1
<1>4. ASSUME NEW k \in Nat, k \in T PROVE k + 1 \in T
  <2> SUFFICES ASSUME i <= k + 1, k + 1 <= Len(q)
               PROVE  Demand(q, i) <= Demand(q, k + 1)
    OBVIOUS
  <2>1. CASE i = k + 1
    BY <1>2, <2>1
  <2>2. CASE i # k + 1
    <3>1. i <= k /\ k <= Len(q) /\ k \in 0..Len(q)
      BY <1>1, <2>2
    <3>2. Demand(q, i) <= Demand(q, k)
      BY <1>4, <3>1
    <3>3. Demand(q, k + 1) = Demand(q, k) + required[q[k + 1]]
      BY DemandSteps
    <3>4. required[q[k + 1]] \in Nat /\ Demand(q, k) \in Nat
      BY <3>1, RequiredIsNat, DemandIsNat
    <3> QED
      BY <1>2, <3>2, <3>3, <3>4
  <2> QED
    BY <2>1, <2>2
<1> HIDE DEF T
<1>5. Nat \subseteq T
  BY <1>3, <1>4, NatSetInduction
<1>6. j \in T /\ j <= Len(q)
  BY <1>1, <1>5
<1> QED
  BY <1>6 DEF T

(***************************************************************************)
(* The loop of wakeup_waiters on the queue q: left[k] permits are left     *)
(* after k waiters, and the next one is notified while they suffice.  The  *)
(* loop returns at the end of the queue, at a waiter who needs more, and   *)
(* after one waiter of a fair semaphore.                                   *)
(***************************************************************************)
Notifies(q, k, left) ==
  left[k] >= required[q[k + 1]] /\ left[k + 1] = left[k] - required[q[k + 1]]

Returns(q, n, left) ==
  n = Len(q) \/ left[n] < required[q[n + 1]] \/ (is_fair /\ n = 1)

(***************************************************************************)
(* For any queue and any requests, the loop of wakeup_waiters returns      *)
(* after the one number of waiters that StopsAfter tells.                  *)
(***************************************************************************)
THEOREM LoopStopsAfter ==
  ASSUME TypeOK, NEW q \in Seq(Futures), NEW available \in Nat,
         NEW n \in 0..Len(q), is_fair => n <= 1,
         NEW left, left[0] = available,
         \A k \in 0..(n - 1) : Notifies(q, k, left), Returns(q, n, left)
  PROVE  \A m \in 0..Len(q) : StopsAfter(q, m, available) <=> m = n
<1>1. /\ required \in [Futures -> Nat] /\ is_fair \in BOOLEAN
      /\ Len(q) \in Nat /\ n \in Nat /\ n <= Len(q)
  BY LenProperties DEF TypeOK
<1> DEFINE T == {k \in Nat : k <= n => /\ left[k] \in Nat
                                       /\ left[k] = available - Demand(q, k)}
<1>2. 0 \in T
  BY DemandSteps
<1>3. ASSUME NEW k \in Nat, k \in T PROVE k + 1 \in T
  <2> SUFFICES ASSUME k + 1 <= n
               PROVE  /\ left[k + 1] \in Nat
                      /\ left[k + 1] = available - Demand(q, k + 1)
    OBVIOUS
  <2>1. k \in 0..(n - 1) /\ k + 1 <= Len(q) /\ k \in 0..Len(q)
    BY <1>1
  <2>2. left[k] \in Nat /\ left[k] = available - Demand(q, k)
    BY <1>1, <1>3
  <2>3. left[k] >= required[q[k + 1]] /\ left[k + 1] = left[k] - required[q[k + 1]]
    BY <2>1 DEF Notifies
  <2>4. required[q[k + 1]] \in Nat /\ Demand(q, k) \in Nat
    BY <1>1, <2>1, RequiredIsNat, DemandIsNat
  <2>5. Demand(q, k + 1) = Demand(q, k) + required[q[k + 1]]
    BY DemandSteps
  <2> QED
    BY <2>2, <2>3, <2>4, <2>5
<1> HIDE DEF T
<1>4. n \in T
  BY <1>1, <1>2, <1>3, NatSetInduction
<1>5. /\ left[n] \in Nat /\ left[n] = available - Demand(q, n)
      /\ Demand(q, n) \in Nat /\ Demand(q, n) <= available
  <2>1. left[n] \in Nat /\ left[n] = available - Demand(q, n)
    BY <1>1, <1>4 DEF T
  <2>2. Demand(q, n) \in Nat
    BY <1>1, DemandIsNat
  <2> QED
    BY <2>1, <2>2
<1> SUFFICES ASSUME NEW m \in 0..Len(q)
             PROVE  StopsAfter(q, m, available) <=> m = n
  OBVIOUS
<1>6. CASE is_fair
  <2>1. q # << >> => PeekLast(q) = q[1] /\ 1 <= Len(q)
    BY <1>1 DEF PeekLast
  <2>2. q = << >> <=> Len(q) = 0
    BY <1>1
  <2>3. n = 0 \/ n = 1
    BY <1>1, <1>6
  <2>4. CASE q = << >>
    BY <1>1, <1>6, <2>2, <2>4 DEF StopsAfter, IsEmpty
  <2>5. CASE q # << >> /\ n = 0
    <3>1. available < required[q[1]] /\ required[q[1]] \in Nat
      <4>1. left[0] < required[q[0 + 1]]
        BY <2>2, <2>5 DEF Returns
      <4>2. required[q[0 + 1]] \in Nat
        BY <1>1, <2>1, <2>5, RequiredIsNat
      <4> QED
        BY <4>1, <4>2
    <3> QED
      BY <1>6, <2>1, <2>5, <3>1 DEF StopsAfter, IsEmpty
  <2>6. CASE q # << >> /\ n = 1
    <3>1. available >= required[q[1]] /\ required[q[1]] \in Nat
      <4>1. 0 \in 0..(n - 1)
        BY <2>6
      <4>2. left[0] >= required[q[0 + 1]]
        BY <4>1 DEF Notifies
      <4>3. required[q[0 + 1]] \in Nat
        BY <1>1, <2>1, <2>6, RequiredIsNat
      <4> QED
        BY <4>2, <4>3
    <3> QED
      BY <1>6, <2>1, <2>6, <3>1 DEF StopsAfter, IsEmpty
  <2> QED
    BY <2>3, <2>4, <2>5, <2>6
<1>7. CASE ~is_fair
  <2>1. ASSUME n < Len(q)
        PROVE  Demand(q, n + 1) > available /\ Demand(q, n + 1) \in Nat
    <3>1. left[n] < required[q[n + 1]]
      BY <1>1, <1>7, <2>1 DEF Returns
    <3>2. Demand(q, n + 1) = Demand(q, n) + required[q[n + 1]]
      BY <1>1, DemandSteps
    <3>3. required[q[n + 1]] \in Nat
      BY <1>1, <2>1, RequiredIsNat
    <3> QED
      BY <1>5, <3>1, <3>2, <3>3
  <2>2. StopsAfter(q, n, available)
    BY <1>5, <1>7, <2>1 DEF StopsAfter
  <2>3. ASSUME StopsAfter(q, m, available), m < n PROVE FALSE
    <3>1. m < Len(q) /\ m + 1 \in Nat /\ m + 1 <= n /\ m + 1 \in 0..Len(q)
      BY <1>1, <2>3
    <3>2. Demand(q, m + 1) > available
      BY <1>7, <2>3, <3>1 DEF StopsAfter
    <3>3. Demand(q, m + 1) <= Demand(q, n) /\ Demand(q, m + 1) \in Nat
      BY <1>1, <3>1, DemandGrows, DemandIsNat
    <3> QED
      BY <1>5, <3>2, <3>3
  <2>4. ASSUME StopsAfter(q, m, available), n < m PROVE FALSE
    <3>1. n < Len(q) /\ n + 1 \in Nat /\ n + 1 <= m
      BY <1>1, <2>4
    <3>2. Demand(q, m) <= available /\ Demand(q, m) \in Nat
      BY <1>1, <1>7, <2>4, DemandIsNat DEF StopsAfter
    <3>3. Demand(q, n + 1) <= Demand(q, m)
      BY <1>1, <3>1, DemandGrows
    <3> QED
      BY <2>1, <3>1, <3>2, <3>3
  <2> QED
    BY <1>1, <2>2, <2>3, <2>4
<1> QED
  BY <1>1, <1>6, <1>7
=============================================================================
