---------------------------- MODULE TimerProofs ----------------------------
(***************************************************************************)
(* The safety properties of the timer service, for any set of futures and  *)
(* wakers, any range of the clock, and delays of any length, in whole      *)
(* milliseconds or not.                                                    *)
(***************************************************************************)
EXTENDS Timer, TLAPS

Q == INSTANCE WaitQueueLemmas

(* What check_expirations wakes is the waker of the latest poll. *)
StoredWakerIsLatest ==
  \A f \in waiters : task[f] \in Wakers /\ task[f] = latest[f]

(* Expired nodes have reached their expiry, which is as late as wanted but *)
(* for the fractions of a millisecond that as_millis dropped.              *)
ExpiryIsReached ==
  \A f \in Futures : state[f] = "Expired" => now >= expiry[f]

ExpiryIsLateEnough ==
  \A f \in Futures :
    \/ NanosPerMilli * expiry[f] + 2 * (NanosPerMilli - 1) >= asked[f]
    \/ expiry[f] = MaxTime

IInv ==
  /\ TypeOK
  /\ HeapHoldsWaiters
  /\ StoredWakerIsLatest
  /\ ExpiryIsReached
  /\ ExpiryIsLateEnough
  /\ ExpiredIsWoken
  /\ SleepIsSafe

-----------------------------------------------------------------------------
(* as_millis drops less than a millisecond. *)
LEMMA AsMillisDrops ==
  ASSUME NEW duration \in Nat
  PROVE  /\ AsMillis(duration) \in Nat
         /\ NanosPerMilli * AsMillis(duration) <= duration
         /\ duration <= NanosPerMilli * AsMillis(duration) + (NanosPerMilli - 1)
  BY TimerAssumption DEF AsMillis

(* The clock shows timestamps, and later ones at later instants. *)
LEMMA NowIsTime ==
  ASSUME elapsed \in Instants
  PROVE  /\ elapsed \in Nat /\ now \in Time
         /\ NanosPerMilli * now <= elapsed
         /\ elapsed <= NanosPerMilli * now + (NanosPerMilli - 1)
<1>1. elapsed \in Nat /\ elapsed < NanosPerMilli * (MaxTime + 1)
  BY TimerAssumption DEF Instants
<1>2. elapsed \div NanosPerMilli <= MaxTime
  BY <1>1, TimerAssumption
<1> QED
  BY <1>1, <1>2, AsMillisDrops, TimerAssumption DEF now, AsMillis, Time

LEMMA AsMillisMonotone ==
  ASSUME NEW earlier \in Nat, NEW later \in Nat, earlier <= later
  PROVE  AsMillis(earlier) <= AsMillis(later)
  BY TimerAssumption DEF AsMillis

(***************************************************************************)
(* The sum saturates: a deadline is a timestamp, and earlier than wanted   *)
(* by no more than two dropped fractions.                                  *)
(***************************************************************************)
LEMMA DeadlineFromNowIsTime ==
  ASSUME elapsed \in Instants, NEW duration \in Nat
  PROVE  /\ DeadlineFromNow(duration) \in Time
         /\ \/ NanosPerMilli * DeadlineFromNow(duration)
                 + 2 * (NanosPerMilli - 1) >= elapsed + duration
            \/ DeadlineFromNow(duration) = MaxTime
<1> DEFINE millis == AsMillis(duration)
<1>1. now \in Nat /\ now <= MaxTime /\ millis \in Nat
  BY NowIsTime, AsMillisDrops, TimerAssumption DEF Time
<1>2. \/ DeadlineFromNow(duration) = MaxTime
      \/ DeadlineFromNow(duration) = now + millis /\ now + millis <= MaxTime
  BY <1>1, TimerAssumption DEF DeadlineFromNow
<1>3. NanosPerMilli * (now + millis) = NanosPerMilli * now + NanosPerMilli * millis
  BY <1>1, TimerAssumption
<1>4. elapsed + duration
        <= NanosPerMilli * (now + millis) + 2 * (NanosPerMilli - 1)
  <2>1. /\ elapsed \in Nat
        /\ elapsed <= NanosPerMilli * now + (NanosPerMilli - 1)
        /\ duration <= NanosPerMilli * millis + (NanosPerMilli - 1)
    BY NowIsTime, AsMillisDrops
  <2>2. NanosPerMilli * now \in Nat /\ NanosPerMilli * millis \in Nat
    BY <1>1, TimerAssumption
  <2> QED
    BY <1>3, <2>1, <2>2, TimerAssumption
<1> QED
  BY <1>1, <1>2, <1>4, TimerAssumption DEF Time

(* Whatever is stored after update_waker_ref is the caller's waker. *)
LEMMA UpdateWakerRefIsLatest ==
  ASSUME NEW stored, NEW w
  PROVE  UpdateWakerRef(stored, w) = w
  BY DEF UpdateWakerRef

(* A timer without futures. *)
LEMMA InitInv == Init => IInv
<1> SUFFICES ASSUME Init PROVE IInv
  OBVIOUS
<1> USE TimerAssumption DEF Init
<1>1. TypeOK
  <2>1. NanosPerMilli * (MaxTime + 1) \in Nat \ {0}
    OBVIOUS
  <2>2. elapsed \in Instants
    BY <2>1 DEF Instants
  <2> QED
    BY <2>2 DEF TypeOK, Time, NoTime, OptWaker, PollState
<1>2. HeapHoldsWaiters
  BY DEF HeapHoldsWaiters
<1>3. StoredWakerIsLatest /\ SleepIsSafe
  BY DEF StoredWakerIsLatest, SleepIsSafe
<1>4. ExpiryIsReached /\ ExpiredIsWoken
  BY DEF ExpiryIsReached, now, ExpiredIsWoken
<1>5. ExpiryIsLateEnough
  BY DEF ExpiryIsLateEnough
<1> QED
  BY <1>1, <1>2, <1>3, <1>4, <1>5 DEF IInv

-----------------------------------------------------------------------------
(* The clock only goes forward, so what has been reached stays reached. *)
LEMMA SetTimeInv ==
  ASSUME IInv, NEW instant \in Instants, SetTime(instant)
  PROVE  IInv'
<1> USE DEF IInv, SetTime
<1>1. TypeOK'
  BY DEF TypeOK
<1>2. HeapHoldsWaiters' /\ StoredWakerIsLatest' /\ SleepIsSafe'
  BY DEF HeapHoldsWaiters, StoredWakerIsLatest, SleepIsSafe
<1>3. ExpiryIsReached'
  <2>1. elapsed \in Nat /\ instant \in Nat
    BY TimerAssumption DEF TypeOK, Instants
  <2>2. now <= now'
    BY <2>1, AsMillisMonotone DEF now
  <2>3. now \in Int /\ now' \in Int /\ \A f \in Futures : expiry[f] \in Int
    BY <2>1, AsMillisDrops DEF now, TypeOK, Time
  <2> QED
    BY <2>2, <2>3 DEF ExpiryIsReached
<1>4. ExpiryIsLateEnough' /\ ExpiredIsWoken'
  BY DEF ExpiryIsLateEnough, ExpiredIsWoken
<1> QED
  BY <1>1, <1>2, <1>3, <1>4

(* A new future is in no heap; its slot had none. *)
LEMMA NewFutureInv ==
  ASSUME IInv, NEW f \in Futures, NEW timestamp \in Time, NEW wanted \in Nat,
         \/ NanosPerMilli * timestamp + 2 * (NanosPerMilli - 1) >= wanted
         \/ timestamp = MaxTime,
         NewFuture(f, timestamp, wanted)
  PROVE  IInv'
<1> USE DEF IInv, NewFuture
<1>0. f \notin waiters
  BY DEF HeapHoldsWaiters
<1>1. TypeOK'
  BY DEF TypeOK, PollState, OptWaker
<1>2. HeapHoldsWaiters'
  BY DEF TypeOK, HeapHoldsWaiters
<1>3. StoredWakerIsLatest' /\ SleepIsSafe'
  BY <1>0 DEF TypeOK, StoredWakerIsLatest, SleepIsSafe
<1>4. ExpiryIsReached' /\ ExpiredIsWoken'
  BY DEF TypeOK, ExpiryIsReached, now, ExpiredIsWoken
<1>5. ExpiryIsLateEnough'
  BY DEF TypeOK, ExpiryIsLateEnough
<1> QED
  BY <1>1, <1>2, <1>3, <1>4, <1>5

LEMMA DelayInv ==
  ASSUME IInv, NEW f \in Futures, NEW delay \in Delays, Delay(f, delay)
  PROVE  IInv'
<1>1. delay \in Nat /\ elapsed \in Instants /\ elapsed + delay \in Nat
  BY TimerAssumption DEF IInv, TypeOK, Instants
<1>2. /\ DeadlineFromNow(delay) \in Time
      /\ \/ NanosPerMilli * DeadlineFromNow(delay)
              + 2 * (NanosPerMilli - 1) >= elapsed + delay
         \/ DeadlineFromNow(delay) = MaxTime
  BY <1>1, DeadlineFromNowIsTime
<1> QED
  BY <1>1, <1>2, NewFutureInv DEF Delay

LEMMA DeadlineInv ==
  ASSUME IInv, NEW f \in Futures, NEW timestamp \in Time,
         Deadline(f, timestamp)
  PROVE  IInv'
<1>1. /\ NanosPerMilli * timestamp \in Nat
      /\ NanosPerMilli * timestamp + 2 * (NanosPerMilli - 1)
           >= NanosPerMilli * timestamp
  <2>1. timestamp \in Nat /\ NanosPerMilli * timestamp \in Nat
    BY TimerAssumption DEF Time
  <2> QED
    BY <2>1, TimerAssumption
<1> QED
  BY <1>1, NewFutureInv DEF Deadline

-----------------------------------------------------------------------------
(* A poll that finds the expiry reached resolves at once. *)
LEMMA PollAlreadyExpiredInv ==
  ASSUME IInv, NEW f \in Futures, PollAlreadyExpired(f)
  PROVE  IInv'
<1> USE DEF IInv, PollAlreadyExpired, Forget
<1>0. f \notin waiters
  BY DEF HeapHoldsWaiters
<1>1. TypeOK'
  BY DEF TypeOK, PollState, OptWaker
<1>2. HeapHoldsWaiters'
  BY DEF TypeOK, HeapHoldsWaiters
<1>3. StoredWakerIsLatest' /\ SleepIsSafe'
  BY <1>0 DEF TypeOK, StoredWakerIsLatest, SleepIsSafe
<1>4. ExpiryIsReached'
  BY DEF TypeOK, ExpiryIsReached, now
<1>5. ExpiryIsLateEnough'
  BY DEF ExpiryIsLateEnough
<1>6. ExpiredIsWoken'
  BY DEF TypeOK, ExpiredIsWoken
<1> QED
  BY <1>1, <1>2, <1>3, <1>4, <1>5, <1>6

(* One that does not enters the heap, after the latest answer. *)
LEMMA PollRegistersInv ==
  ASSUME IInv, NEW f \in Futures, NEW w \in Wakers, PollRegisters(f, w)
  PROVE  IInv'
<1> USE DEF IInv, PollRegisters, Remember
<1>1. TypeOK'
  BY DEF TypeOK, PollState, OptWaker
<1>2. HeapHoldsWaiters'
  BY DEF TypeOK, HeapHoldsWaiters
<1>3. StoredWakerIsLatest' /\ SleepIsSafe'
  BY DEF TypeOK, StoredWakerIsLatest, SleepIsSafe
<1>4. ExpiryIsReached'
  BY DEF TypeOK, ExpiryIsReached, now
<1>5. ExpiryIsLateEnough'
  BY DEF ExpiryIsLateEnough
<1>6. ExpiredIsWoken'
  BY DEF TypeOK, ExpiredIsWoken
<1> QED
  BY <1>1, <1>2, <1>3, <1>4, <1>5, <1>6

(* Another poll while it waits stores the waker of that poll. *)
LEMMA PollRegisteredInv ==
  ASSUME IInv, NEW f \in Futures, NEW w \in Wakers, PollRegistered(f, w)
  PROVE  IInv'
<1>0. task' = [task EXCEPT ![f] = w]
  BY UpdateWakerRefIsLatest DEF PollRegistered
<1> USE <1>0 DEF IInv, PollRegistered, Remember
<1>1. TypeOK'
  BY DEF TypeOK, OptWaker
<1>2. HeapHoldsWaiters' /\ SleepIsSafe'
  BY DEF HeapHoldsWaiters, SleepIsSafe
<1>3. StoredWakerIsLatest'
  BY DEF TypeOK, StoredWakerIsLatest
<1>4. ExpiryIsReached' /\ ExpiryIsLateEnough'
  BY DEF ExpiryIsReached, now, ExpiryIsLateEnough
<1>5. ExpiredIsWoken'
  BY DEF ExpiredIsWoken
<1> QED
  BY <1>1, <1>2, <1>3, <1>4, <1>5

(* An expired future has left the heap and resolves. *)
LEMMA PollExpiredInv ==
  ASSUME IInv, NEW f \in Futures, PollExpired(f)
  PROVE  IInv'
<1> USE DEF IInv, PollExpired, Forget
<1>0. f \notin waiters
  BY DEF HeapHoldsWaiters
<1>1. TypeOK'
  BY DEF TypeOK, OptWaker
<1>2. HeapHoldsWaiters'
  BY DEF TypeOK, HeapHoldsWaiters
<1>3. StoredWakerIsLatest' /\ SleepIsSafe'
  BY <1>0 DEF TypeOK, StoredWakerIsLatest, SleepIsSafe
<1>4. ExpiryIsReached' /\ ExpiryIsLateEnough'
  BY DEF ExpiryIsReached, now, ExpiryIsLateEnough
<1>5. ExpiredIsWoken'
  BY DEF TypeOK, ExpiredIsWoken
<1> QED
  BY <1>1, <1>2, <1>3, <1>4, <1>5

(* remove_waiter takes a registered node, and only that, out of the heap. *)
LEMMA DropFutureInv ==
  ASSUME IInv, NEW f \in Futures, DropFuture(f)
  PROVE  IInv'
<1> USE DEF IInv, DropFuture, Forget
<1>0. waiters' = waiters \ {f}
  BY DEF HeapHoldsWaiters
<1>1. TypeOK'
  BY DEF TypeOK, PollState, OptWaker
<1>2. HeapHoldsWaiters'
  BY <1>0 DEF TypeOK, HeapHoldsWaiters
<1>3. StoredWakerIsLatest' /\ SleepIsSafe'
  BY <1>0 DEF TypeOK, StoredWakerIsLatest, SleepIsSafe
<1>4. ExpiryIsReached'
  BY DEF TypeOK, ExpiryIsReached, now
<1>5. ExpiryIsLateEnough'
  BY DEF ExpiryIsLateEnough
<1>6. ExpiredIsWoken'
  BY DEF TypeOK, ExpiredIsWoken
<1> QED
  BY <1>1, <1>2, <1>3, <1>4, <1>5, <1>6

-----------------------------------------------------------------------------
(* The answer is the earliest expiry: nobody is due before it. *)
LEMMA NextExpirationInv ==
  ASSUME IInv, NextExpiration
  PROVE  IInv'
<1> USE DEF IInv, NextExpiration
<1>1. TypeOK'
  BY TimerAssumption DEF TypeOK, Time, NoTime
<1>2. HeapHoldsWaiters' /\ StoredWakerIsLatest'
  BY DEF HeapHoldsWaiters, StoredWakerIsLatest
<1>3. SleepIsSafe'
  BY DEF SleepIsSafe, Earliest, TypeOK, Time
<1>4. ExpiryIsReached' /\ ExpiryIsLateEnough' /\ ExpiredIsWoken'
  BY DEF ExpiryIsReached, now, ExpiryIsLateEnough, ExpiredIsWoken
<1> QED
  BY <1>1, <1>2, <1>3, <1>4

(* What is due expires, is woken through its latest waker, and leaves. *)
LEMMA CheckExpirationsInv ==
  ASSUME IInv, CheckExpirations
  PROVE  IInv'
<1> USE DEF IInv, CheckExpirations
<1>0. Due \subseteq Futures /\ Due \subseteq waiters
  BY DEF Due, TypeOK
<1>1. TypeOK'
  BY <1>0 DEF TypeOK, PollState, OptWaker, WokenBy
<1>2. HeapHoldsWaiters'
  BY <1>0 DEF TypeOK, HeapHoldsWaiters
<1>3. StoredWakerIsLatest' /\ SleepIsSafe'
  BY <1>0 DEF TypeOK, StoredWakerIsLatest, SleepIsSafe
<1>4. ExpiryIsReached'
  BY DEF TypeOK, ExpiryIsReached, now, Due
<1>5. ExpiryIsLateEnough'
  BY DEF ExpiryIsLateEnough
<1>6. ExpiredIsWoken'
  <2> SUFFICES ASSUME NEW f \in Futures, timer'[f], state'[f] = "Expired"
               PROVE  f \in woken'
    BY DEF ExpiredIsWoken
  <2>1. CASE f \in Due
    <3>1. timer[f] /\ latest[f] = task[f]
      BY <1>0, <2>1 DEF StoredWakerIsLatest
    <3>2. f \in WokenBy(task[f], {g \in Futures : timer[g]}, latest)
      BY <3>1 DEF WokenBy
    <3> QED
      BY <2>1, <3>2
  <2>2. CASE f \notin Due
    BY <2>2 DEF ExpiredIsWoken
  <2> QED
    BY <2>1, <2>2
<1> QED
  BY <1>1, <1>2, <1>3, <1>4, <1>5, <1>6

-----------------------------------------------------------------------------
(* The invariant is preserved by every step of every program. *)
THEOREM Invariance == Spec => []IInv
<1>1. Init => IInv
  BY InitInv
<1>2. IInv /\ [Next]_vars => IInv'
  <2> SUFFICES ASSUME IInv, [Next]_vars PROVE IInv'
    OBVIOUS
  <2>1. CASE \E instant \in Instants : SetTime(instant)
    BY <2>1, SetTimeInv
  <2>2. CASE \E f \in Futures : \E delay \in Delays : Delay(f, delay)
    BY <2>2, DelayInv
  <2>3. CASE \E f \in Futures : \E timestamp \in Time : Deadline(f, timestamp)
    BY <2>3, DeadlineInv
  <2>4. CASE \E f \in Futures : \E w \in Wakers : Poll(f, w)
    BY <2>4, PollAlreadyExpiredInv, PollRegistersInv, PollRegisteredInv,
       PollExpiredInv DEF Poll
  <2>5. CASE \E f \in Futures : DropFuture(f)
    BY <2>5, DropFutureInv
  <2>6. CASE NextExpiration
    BY <2>6, NextExpirationInv
  <2>7. CASE CheckExpirations
    BY <2>7, CheckExpirationsInv
  <2>8. CASE UNCHANGED vars
    BY <2>8 DEF vars, IInv, TypeOK, HeapHoldsWaiters, StoredWakerIsLatest,
       ExpiryIsReached, now, ExpiryIsLateEnough, ExpiredIsWoken, SleepIsSafe
  <2> QED
    BY <2>1, <2>2, <2>3, <2>4, <2>5, <2>6, <2>7, <2>8 DEF Next
<1> QED
  BY <1>1, <1>2, PTL DEF Spec, SafetySpec

(***************************************************************************)
(* For any clock and any duration, a timer goes off when the clock shows   *)
(* its deadline, and early by two dropped fractions of a millisecond at    *)
(* most: where deadline_from_now saturates, the clock is at its end.       *)
(***************************************************************************)
THEOREM OnTime == Spec => []NeverEarly
<1>1. IInv => NeverEarly
  <2> SUFFICES ASSUME IInv, NEW f \in Futures, state[f] = "Expired"
               PROVE  /\ now >= expiry[f]
                      /\ \/ elapsed + 2 * (NanosPerMilli - 1) >= asked[f]
                         \/ now = MaxTime
    BY DEF NeverEarly
  <2>1. /\ now >= expiry[f]
        /\ \/ NanosPerMilli * expiry[f] + 2 * (NanosPerMilli - 1) >= asked[f]
           \/ expiry[f] = MaxTime
    BY DEF IInv, ExpiryIsReached, ExpiryIsLateEnough
  <2>2. /\ now \in Nat /\ now <= MaxTime /\ NanosPerMilli * now <= elapsed
        /\ elapsed \in Nat /\ expiry[f] \in Nat /\ asked[f] \in Nat
    BY NowIsTime, TimerAssumption DEF IInv, TypeOK, Time
  <2>3. CASE expiry[f] = MaxTime
    BY <2>1, <2>2, <2>3, TimerAssumption
  <2>4. CASE NanosPerMilli * expiry[f] + 2 * (NanosPerMilli - 1) >= asked[f]
    <3>1. NanosPerMilli * expiry[f] <= NanosPerMilli * now
      BY <2>1, <2>2, TimerAssumption
    <3>2. NanosPerMilli * expiry[f] \in Nat /\ NanosPerMilli * now \in Nat
      BY <2>2, TimerAssumption
    <3> QED
      BY <2>1, <2>2, <2>4, <3>1, <3>2, TimerAssumption
  <2> QED
    BY <2>1, <2>3, <2>4
<1> QED
  BY <1>1, Invariance, PTL

(***************************************************************************)
(* The heap never holds a node whose future is gone, nor misses one that   *)
(* waits: what the unsafe remove and peek_min of the heap rely on.         *)
(***************************************************************************)
THEOREM HeapIsWaiters == Spec => []HeapHoldsWaiters
<1>1. IInv => HeapHoldsWaiters
  BY DEF IInv
<1> QED
  BY <1>1, Invariance, PTL

(***************************************************************************)
(* check_expirations loses no wake-up, whichever waker was polled last.    *)
(***************************************************************************)
THEOREM NoLostWakeup == Spec => []ExpiredIsWoken
<1>1. IInv => ExpiredIsWoken
  BY DEF IInv
<1> QED
  BY <1>1, Invariance, PTL

(***************************************************************************)
(* Nobody who was registered when next_expiration answered is due before   *)
(* that answer, whatever is added, cancelled or expired meanwhile.         *)
(***************************************************************************)
THEOREM SafeToSleep == Spec => []SleepIsSafe
<1>1. IInv => SleepIsSafe
  BY DEF IInv
<1> QED
  BY <1>1, Invariance, PTL

-----------------------------------------------------------------------------
(***************************************************************************)
(* The loop of check_expirations: peek_min finds a least of the rest of    *)
(* the heap; a node that is due leaves it, at one that is not the loop     *)
(* breaks.                                                                 *)
(***************************************************************************)
PeekMin(first, rest) ==
  first \in rest /\ \A g \in rest : expiry[first] <= expiry[g]

ExpiresFirst(rest, left) ==
  \E first \in rest :
    PeekMin(first, rest) /\ now >= expiry[first] /\ left = rest \ {first}

Breaks(rest) ==
  rest = {} \/ \E first \in rest : PeekMin(first, rest) /\ ~(now >= expiry[first])

(***************************************************************************)
(* However many rounds the loop of check_expirations makes and whichever   *)
(* of several least nodes it meets first, it takes the nodes that were due *)
(* and no other: Due, by which CheckExpirations stands for the loop.       *)
(***************************************************************************)
THEOREM LoopTakesDue ==
  ASSUME TypeOK, NEW rounds \in Nat, NEW rest, rest[0] = waiters,
         \A k \in 0..(rounds - 1) : ExpiresFirst(rest[k], rest[k + 1]),
         Breaks(rest[rounds])
  PROVE  waiters \ rest[rounds] = Due
<1> DEFINE Taken(S) == S \subseteq waiters /\ waiters \ S \subseteq Due
           T == {k \in Nat : k <= rounds => Taken(rest[k])}
<1>1. 0 \in T
  OBVIOUS
<1>2. ASSUME NEW k \in Nat, k \in T PROVE k + 1 \in T
  <2> SUFFICES ASSUME k + 1 <= rounds PROVE Taken(rest[k + 1])
    OBVIOUS
  <2>1. k \in 0..(rounds - 1) /\ Taken(rest[k])
    BY <1>2
  <2>2. PICK first \in rest[k] : /\ now >= expiry[first]
                                 /\ rest[k + 1] = rest[k] \ {first}
    BY <2>1 DEF ExpiresFirst
  <2>3. first \in Due
    BY <2>1, <2>2 DEF Due
  <2> QED
    BY <2>1, <2>2, <2>3
<1> HIDE DEF T
<1>3. Nat \subseteq T
  BY <1>1, <1>2, Q!NatSetInduction
<1>4. rest[rounds] \subseteq waiters /\ waiters \ rest[rounds] \subseteq Due
  BY <1>3 DEF T
<1>5. ASSUME NEW f \in rest[rounds] PROVE f \notin Due
  <2>1. PICK first \in rest[rounds] :
          PeekMin(first, rest[rounds]) /\ ~(now >= expiry[first])
    BY DEF Breaks
  <2>2. expiry[first] <= expiry[f]
    BY <2>1 DEF PeekMin
  <2>3. now \in Int /\ expiry[first] \in Int /\ expiry[f] \in Int
    BY <1>4, <2>1, NowIsTime, TimerAssumption DEF TypeOK, Time
  <2> QED
    BY <2>1, <2>2, <2>3 DEF Due
<1> QED
  BY <1>4, <1>5 DEF Due
=============================================================================
