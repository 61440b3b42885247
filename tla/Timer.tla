------------------------------- MODULE Timer -------------------------------
(***************************************************************************)
(* The timer service (src/timer/inner.rs) and its clock                    *)
(* (src/timer/clock.rs).                                                   *)
(*                                                                         *)
(* TimerState is only touched under the raw lock, and check_expirations    *)
(* wakes inside it, so every call is one step.  Time passes by itself      *)
(* between the steps.  Instants and durations count nanoseconds, of which  *)
(* the timestamps of the clock, 0..MaxTime for the range of u64, keep the  *)
(* whole milliseconds.                                                     *)
(*                                                                         *)
(* A member of Futures is a slot of the program that holds one timer       *)
(* future after the other.  The heap of waiters is seen here as the set    *)
(* of its nodes, of which peek_min finds an earliest; PairingHeap has the  *)
(* pointers.                                                               *)
(*                                                                         *)
(* A definition marked "a slip" is the code with one plausible mistake.    *)
(***************************************************************************)
EXTENDS Waking, Integers

CONSTANTS
  Futures,        \* the slots
  MaxTime,        \* the last timestamp of the clock, u64::MAX
  NanosPerMilli,  \* the length of a millisecond, which as_millis divides by
  Delays          \* the durations that programs ask for, in nanoseconds

ASSUME TimerAssumption ==
  /\ MaxTime \in Nat
  /\ NanosPerMilli \in Nat \ {0}
  /\ Delays \subseteq Nat

VARIABLES
  elapsed,     \* the time since the start of the Clock, in nanoseconds
  waiters,     \* TimerState: the nodes in the heap
  timer,       \* whether the slot has a future that has not completed
  state,       \* PollState of the slot's wait node
  expiry,      \* its timestamp
  task,        \* its stored waker
  asked,       \* the instant that the program asked for, in nanoseconds
  latest,      \* the waker of the latest poll of the slot's future
  woken,       \* the pending futures whose latest waker has been woken
  alarm,       \* the latest answer of next_expiration
  added        \* the futures registered since that answer was given

vars == <<elapsed, waiters, timer, state, expiry, task, asked, latest, woken,
          alarm, added>>

(* Duration::as_millis drops what is left over of a millisecond. *)
AsMillis(duration) == duration \div NanosPerMilli

(* Clock::now: StdClock has the milliseconds of the time since its start. *)
now == AsMillis(elapsed)

Time == 0..MaxTime

(* The instants at which the clock shows a timestamp of its range. *)
Instants == 0..(NanosPerMilli * (MaxTime + 1) - 1)

(* The value None of the Option<u64> that next_expiration returns. *)
NoTime == MaxTime + 1

Init ==
  /\ elapsed = 0
  /\ waiters = {}
  /\ timer = [f \in Futures |-> FALSE]
  /\ state = [f \in Futures |-> "Unregistered"]
  /\ expiry = [f \in Futures |-> 0]
  /\ task = [f \in Futures |-> NoWaker]
  /\ asked = [f \in Futures |-> 0]
  /\ latest = [f \in Futures |-> NoWaker]
  /\ woken = {}
  /\ alarm = NoTime
  /\ added = {}

-----------------------------------------------------------------------------
(***************************************************************************)
(* Time never goes back.  For StdClock the time of the system passes;      *)
(* MockClock::set_time stores the timestamp that a test wants, which by    *)
(* the contract of Clock is no earlier than before: an instant without     *)
(* fraction of a millisecond.                                              *)
(***************************************************************************)
SetTime(instant) ==
  /\ instant >= elapsed
  /\ elapsed' = instant
  /\ UNCHANGED <<waiters, timer, state, expiry, task, asked, latest, woken,
                 alarm, added>>

-----------------------------------------------------------------------------
(***************************************************************************)
(* deadline_from_now: the u128 of whole milliseconds is cut to a u64, and  *)
(* the sum saturates.                                                      *)
(***************************************************************************)
WrappingDeadlineFromNow(duration) ==                        \* a slip
  (now + AsMillis(duration)) % (MaxTime + 1)

DeadlineFromNow(duration) ==
  LET millis == AsMillis(duration)
      duration_ms == IF millis > MaxTime THEN MaxTime ELSE millis
  IN  IF now + duration_ms > MaxTime THEN MaxTime ELSE now + duration_ms

(* A new future, not polled yet, that waits for `timestamp'. *)
NewFuture(f, timestamp, wanted) ==
  /\ ~timer[f]
  /\ timer' = [timer EXCEPT ![f] = TRUE]
  /\ state' = [state EXCEPT ![f] = "Unregistered"]
  /\ expiry' = [expiry EXCEPT ![f] = timestamp]
  /\ task' = [task EXCEPT ![f] = NoWaker]
  /\ asked' = [asked EXCEPT ![f] = wanted]
  /\ UNCHANGED <<elapsed, waiters, latest, woken, alarm, added>>

Delay(f, delay) == NewFuture(f, DeadlineFromNow(delay), elapsed + delay)

Deadline(f, timestamp) == NewFuture(f, timestamp, NanosPerMilli * timestamp)

-----------------------------------------------------------------------------
(* The future on f has completed or is dropped. *)
Forget(f) ==
  /\ timer' = [timer EXCEPT ![f] = FALSE]
  /\ latest' = [latest EXCEPT ![f] = NoWaker]
  /\ woken' = woken \ {f}

(* The future on f is pending after a poll with waker w. *)
Remember(f, w) ==
  /\ latest' = [latest EXCEPT ![f] = w]
  /\ woken' = woken \ {f}
  /\ UNCHANGED timer

(* poll with waker w: try_wait, by the state of the wait node. *)
PollAlreadyExpired(f) ==
  /\ timer[f] /\ state[f] = "Unregistered"
  /\ now >= expiry[f]
  /\ state' = [state EXCEPT ![f] = "Expired"]
  /\ Forget(f)
  /\ UNCHANGED <<elapsed, waiters, expiry, task, asked, alarm, added>>

PollRegisters(f, w) ==
  /\ timer[f] /\ state[f] = "Unregistered"
  /\ ~(now >= expiry[f])
  /\ task' = [task EXCEPT ![f] = w]
  /\ state' = [state EXCEPT ![f] = "Registered"]
  /\ waiters' = waiters \cup {f}
  /\ Remember(f, w)
  /\ added' = added \cup {f}
  /\ UNCHANGED <<elapsed, expiry, asked, alarm>>

PollRegistered(f, w) ==
  /\ timer[f] /\ state[f] = "Registered"
  /\ task' = [task EXCEPT ![f] = UpdateWakerRef(task[f], w)]
  /\ Remember(f, w)
  /\ UNCHANGED <<elapsed, waiters, state, expiry, asked, alarm, added>>

PollExpired(f) ==
  /\ timer[f] /\ state[f] = "Expired"
  /\ Forget(f)
  /\ UNCHANGED <<elapsed, waiters, state, expiry, task, asked, alarm, added>>

Poll(f, w) ==
  \/ PollAlreadyExpired(f) \/ PollRegisters(f, w)
  \/ PollRegistered(f, w) \/ PollExpired(f)

(* Drop of a future that has not completed: remove_waiter. *)
DropStillLinked(f) ==                                       \* a slip
  /\ timer[f]
  /\ state' = [state EXCEPT ![f] = "Unregistered"]
  /\ task' = [task EXCEPT ![f] = NoWaker]
  /\ Forget(f)
  /\ UNCHANGED <<elapsed, waiters, expiry, asked, alarm, added>>

DropFuture(f) ==
  /\ timer[f]
  /\ waiters' = IF state[f] = "Registered" THEN waiters \ {f} ELSE waiters
  /\ state' = [state EXCEPT ![f] = "Unregistered"]
  /\ task' = [task EXCEPT ![f] = NoWaker]
  /\ Forget(f)
  /\ added' = added \ {f}
  /\ UNCHANGED <<elapsed, expiry, asked, alarm>>

-----------------------------------------------------------------------------
(***************************************************************************)
(* peek_min: a node with the earliest expiry, in a heap that is not empty. *)
(***************************************************************************)
LatestFirst(f) ==                                           \* a slip
  f \in waiters /\ \A g \in waiters : expiry[f] >= expiry[g]

Earliest(f) == f \in waiters /\ \A g \in waiters : expiry[f] <= expiry[g]

NextExpiration ==
  /\ \/ waiters = {} /\ alarm' = NoTime
     \/ \E f \in Futures : Earliest(f) /\ alarm' = expiry[f]
  /\ added' = {}
  /\ UNCHANGED <<elapsed, waiters, timer, state, expiry, task, asked, latest,
                 woken>>

(***************************************************************************)
(* check_expirations.  The loop takes the earliest node again and again,   *)
(* expires, wakes and removes it, until the heap is empty or the earliest  *)
(* is not due: it goes through the nodes that are due when it begins.      *)
(***************************************************************************)
Due == {f \in waiters : now >= expiry[f]}

CheckWithoutWaking ==                                       \* a slip
  /\ state' = [f \in Futures |-> IF f \in Due THEN "Expired" ELSE state[f]]
  /\ task' = [f \in Futures |-> IF f \in Due THEN NoWaker ELSE task[f]]
  /\ waiters' = waiters \ Due
  /\ added' = added \ Due
  /\ UNCHANGED <<elapsed, timer, expiry, asked, latest, woken, alarm>>

CheckExpirations ==
  /\ state' = [f \in Futures |-> IF f \in Due THEN "Expired" ELSE state[f]]
  /\ woken' = woken \cup
       UNION {WokenBy(task[f], {g \in Futures : timer[g]}, latest) : f \in Due}
  /\ task' = [f \in Futures |-> IF f \in Due THEN NoWaker ELSE task[f]]
  /\ waiters' = waiters \ Due
  /\ added' = added \ Due
  /\ UNCHANGED <<elapsed, timer, expiry, asked, latest, alarm>>

-----------------------------------------------------------------------------
Next ==
  \/ \E instant \in Instants : SetTime(instant)
  \/ \E f \in Futures :
       \/ \E delay \in Delays : Delay(f, delay)
       \/ \E timestamp \in Time : Deadline(f, timestamp)
       \/ \E w \in Wakers : Poll(f, w)
       \/ DropFuture(f)
  \/ NextExpiration
  \/ CheckExpirations

SafetySpec == Init /\ [][Next]_vars

(***************************************************************************)
(* Time passes; the executor polls a future whose waker was woken; and     *)
(* somebody drives the timer the way its documentation asks for: asks for  *)
(* the next expiration when a timer was added or the alarm went off, and   *)
(* checks the expirations when the alarm goes off.                         *)
(***************************************************************************)
Tick == elapsed + 1 \in Instants /\ SetTime(elapsed + 1)
PollWoken(f) == f \in woken /\ \E w \in Wakers : Poll(f, w)
AlarmIsOff == now >= alarm
AskAgain == (added # {} \/ AlarmIsOff) /\ NextExpiration
CheckAtAlarm == AlarmIsOff /\ CheckExpirations

Fairness ==
  /\ WF_vars(Tick)
  /\ \A f \in Futures : WF_vars(PollWoken(f))
  /\ WF_vars(AskAgain)
  /\ WF_vars(CheckAtAlarm)

Spec == SafetySpec /\ Fairness

-----------------------------------------------------------------------------
PollState == {"Unregistered", "Registered", "Expired"}

TypeOK ==
  /\ elapsed \in Instants
  /\ waiters \in SUBSET Futures
  /\ timer \in [Futures -> BOOLEAN]
  /\ state \in [Futures -> PollState]
  /\ expiry \in [Futures -> Time]
  /\ task \in [Futures -> OptWaker]
  /\ asked \in [Futures -> Nat]
  /\ latest \in [Futures -> OptWaker]
  /\ woken \in SUBSET Futures
  /\ alarm \in 0..NoTime
  /\ added \in SUBSET Futures

(***************************************************************************)
(* A future that has resolved, or that will at its next poll, has had its  *)
(* deadline shown by the clock.  The instant the program asked for may     *)
(* still be ahead, but only by the two fractions of a millisecond that     *)
(* were dropped, of the duration and of the time at which it was asked;    *)
(* or the clock has come to the end of its range, the only time to which a *)
(* longer delay can be cut.                                                *)
(***************************************************************************)
NeverEarly ==
  \A f \in Futures :
    state[f] = "Expired" =>
      /\ now >= expiry[f]
      /\ elapsed + 2 * (NanosPerMilli - 1) >= asked[f] \/ now = MaxTime

(***************************************************************************)
(* The heap holds exactly the waiting futures: none that was dropped or    *)
(* has resolved (a dangling pointer), and all that wait (a timer that is   *)
(* in no heap never goes off).                                             *)
(***************************************************************************)
HeapHoldsWaiters ==
  waiters = {f \in Futures : timer[f] /\ state[f] = "Registered"}

(***************************************************************************)
(* No lost wake-up: a future that was polled and has expired since has had *)
(* the waker of its latest poll woken.                                     *)
(***************************************************************************)
ExpiredIsWoken ==
  \A f \in Futures :
    timer[f] /\ state[f] = "Expired" => f \in woken

(***************************************************************************)
(* A driver may sleep until the time next_expiration returned: no timer    *)
(* expires before that, except those added after the answer was given.     *)
(***************************************************************************)
SleepIsSafe ==
  \A f \in waiters : f \in added \/ expiry[f] >= alarm

(***************************************************************************)
(* Every timer that is waited for goes off, or is dropped: also those      *)
(* whose delay was cut to the end of the clock's range, and those that     *)
(* come due while others are checked.                                      *)
(***************************************************************************)
TimersResolve ==
  \A f \in Futures : state[f] = "Registered" ~> ~timer[f]
=============================================================================
