----------------------------- MODULE Semaphore -----------------------------
(***************************************************************************)
(* The futures-aware semaphore (src/sync/semaphore.rs): GenericSemaphore,  *)
(* its acquire futures and its releasers.  GenericSharedSemaphore differs  *)
(* only in owning the state through an Arc and runs the same code.         *)
(*                                                                         *)
(* Every call holds the raw lock from its first to its last access, and    *)
(* wakes the waiters it notifies before it lets go of it, so a call is one *)
(* step.                                                                   *)
(*                                                                         *)
(* A member of Futures is a slot of the program that holds first an        *)
(* acquire future and then its releaser.  A releaser of zero permits does  *)
(* nothing when it is dropped, so a slot that holds one counts as unused.  *)
(*                                                                         *)
(* A definition marked "a slip" is the code with one plausible mistake.    *)
(***************************************************************************)
EXTENDS WaitQueue, Waking, FiniteSets, FiniteSetsExt

CONSTANTS
  Futures,     \* the slots
  Workloads,   \* sets of permit amounts that a program asks for
  MaxPermits   \* bound: usize::MAX, which the program's permits stay within

ASSUME SemaphoreAssumption ==
  /\ IsFiniteSet(Futures)
  /\ MaxPermits \in Nat
  /\ \A amounts \in Workloads : amounts \subseteq Nat

VARIABLES
  amounts,    \* the permit amounts this program asks for
  is_fair,    \* SemaphoreState: fixed when the semaphore is created
  permits,    \* SemaphoreState: the available permits
  waiters,    \* SemaphoreState: the wait queue, oldest waiter first
  state,      \* PollState of the slot's wait node; Done: no pending future
  task,       \* the waker stored in the slot's wait node
  required,   \* required_permits of the slot's wait node
  held,       \* the permits the slot's releaser gives back when dropped
  total,      \* the permits the program has put into circulation
  latest,     \* the waker of the latest poll of the slot's future
  woken,      \* the pending futures whose latest waker has been woken
  panicked    \* an assertion or a forced removal has failed

vars == <<amounts, is_fair, permits, waiters, state, task, required, held,
          total, latest, woken, panicked>>

PollState == {"New", "Waiting", "Notified", "Done"}

Unused(f) == state[f] = "Done" /\ held[f] = 0

Init ==
  /\ amounts \in Workloads
  /\ is_fair \in BOOLEAN
  /\ permits \in 0..MaxPermits
  /\ waiters = << >>
  /\ state = [f \in Futures |-> "Done"]
  /\ task = [f \in Futures |-> NoWaker]
  /\ required = [f \in Futures |-> 0]
  /\ held = [f \in Futures |-> 0]
  /\ total = permits
  /\ latest = [f \in Futures |-> NoWaker]
  /\ woken = {}
  /\ panicked = FALSE

-----------------------------------------------------------------------------
(***************************************************************************)
(* try_acquire_sync: whether n permits can be had at once.  Of a fair      *)
(* semaphore with waiters only zero permits can.                           *)
(***************************************************************************)
BargingAvailable(n) == permits >= n                         \* a slip

Available(n) ==
  /\ permits >= n
  /\ ~is_fair \/ IsEmpty(waiters) \/ n = 0

(***************************************************************************)
(* The permits that the n oldest waiters of q need together.               *)
(***************************************************************************)
Demand(q, n) ==
  LET demand[k \in 0..n] == IF k = 0 THEN 0 ELSE demand[k - 1] + required[q[k]]
  IN  demand[n]

(***************************************************************************)
(* The loop of wakeup_waiters ends after n waiters: a fair semaphore       *)
(* notifies at most the oldest one, an unfair one goes on while what is    *)
(* left of the available permits covers the next waiter.                   *)
(***************************************************************************)
StopsUnchecked(q, n, available) ==   \* a slip: the permits are not compared
  n = IF is_fair /\ ~IsEmpty(q) THEN 1 ELSE Len(q)

StopsShort(q, n, available) ==       \* a slip: < for <=
  IF is_fair
  THEN n = IF ~IsEmpty(q) /\ required[PeekLast(q)] < available THEN 1 ELSE 0
  ELSE /\ n > 0 => Demand(q, n) < available
       /\ n < Len(q) => Demand(q, n + 1) >= available

StopsAfter(q, n, available) ==
  IF is_fair
  THEN n = IF ~IsEmpty(q) /\ required[PeekLast(q)] <= available THEN 1 ELSE 0
  ELSE /\ Demand(q, n) <= available
       /\ n < Len(q) => Demand(q, n + 1) > available

(***************************************************************************)
(* wakeup_waiters, called with the queue q, the poll states st, the woken  *)
(* futures wk and the available permits the caller has produced.  Those    *)
(* the loop reaches become Notified, and those that were not before are    *)
(* woken; an unfair semaphore also unlinks them.                           *)
(***************************************************************************)
WakeupWaiters(q, st, wk, available) ==
  \E n \in 0..Len(q) :
    LET reached == {q[i] : i \in 1..n}
        pending == {g \in Futures : st[g] # "Done"}
    IN  /\ StopsAfter(q, n, available)
        /\ state' = [g \in Futures |-> IF g \in reached THEN "Notified"
                                       ELSE st[g]]
        /\ waiters' = IF is_fair THEN q ELSE SubSeq(q, n + 1, Len(q))
        /\ woken' = wk \cup UNION {WokenBy(task[g], pending, latest) :
                                     g \in {h \in reached : st[h] # "Notified"}}

(* SemaphoreState::release of n permits, n # 0. *)
ReleasePermits(n) ==
  /\ permits' = permits + n
  /\ WakeupWaiters(waiters, state, woken, permits + n)

(***************************************************************************)
(* The future on slot f obtains its permits and resolves to a releaser;    *)
(* auto_release is true in every future the code creates.                  *)
(***************************************************************************)
Obtain(f) ==
  /\ permits' = permits - required[f]
  /\ held' = [held EXCEPT ![f] = required[f]]
  /\ UNCHANGED <<task, latest>>

(***************************************************************************)
(* The future on slot f enters the wait queue, as its youngest member.     *)
(***************************************************************************)
Enqueue(f, w) ==
  /\ state' = [state EXCEPT ![f] = "Waiting"]
  /\ task' = [task EXCEPT ![f] = w]
  /\ waiters' = AddFront(waiters, f)
  /\ latest' = [latest EXCEPT ![f] = w]
  /\ UNCHANGED <<permits, held>>

(* The future on slot f stays in the queue; only its waker is refreshed. *)
StayWaiting(f, w) ==
  /\ task' = [task EXCEPT ![f] = UpdateWakerRef(task[f], w)]
  /\ latest' = [latest EXCEPT ![f] = w]
  /\ UNCHANGED <<permits, waiters, state, held>>

(* force_remove_waiter panics when the node is not linked. *)
RemovalPanics(f) == panicked' = (panicked \/ ~IsLinked(waiters, f))

-----------------------------------------------------------------------------
(* GenericSemaphore::acquire: a future that has not been polled yet. *)
Acquire(f, n) ==
  /\ Unused(f)
  /\ state' = [state EXCEPT ![f] = "New"]
  /\ task' = [task EXCEPT ![f] = NoWaker]
  /\ latest' = [latest EXCEPT ![f] = NoWaker]
  /\ required' = [required EXCEPT ![f] = n]
  /\ UNCHANGED <<amounts, is_fair, permits, waiters, held, total, woken,
                 panicked>>

(* GenericSemaphore::try_acquire, when it succeeds. *)
TryAcquire(f, n) ==
  /\ Unused(f)
  /\ Available(n)
  /\ permits' = permits - n
  /\ held' = [held EXCEPT ![f] = n]
  /\ UNCHANGED <<amounts, is_fair, waiters, state, task, required, total,
                 latest, woken, panicked>>

(***************************************************************************)
(* GenericSemaphoreAcquireFuture::poll with waker w, one action per state  *)
(* of the wait node (SemaphoreState::try_acquire).                         *)
(***************************************************************************)
PollNew(f, w) ==
  /\ state[f] = "New"
  /\ \/ /\ Available(required[f])
        /\ Obtain(f)
        /\ state' = [state EXCEPT ![f] = "Done"]
        /\ UNCHANGED waiters
     \/ ~Available(required[f]) /\ Enqueue(f, w)
  /\ woken' = woken \ {f}
  /\ UNCHANGED <<amounts, is_fair, required, total, panicked>>

PollWaiting(f, w) ==
  /\ state[f] = "Waiting"
  /\ \/ /\ ~is_fair /\ permits >= required[f]
        /\ RemovalPanics(f)
        /\ waiters' = Remove(waiters, f)
        /\ Obtain(f)
        /\ state' = [state EXCEPT ![f] = "Done"]
     \/ /\ is_fair \/ permits < required[f]
        /\ StayWaiting(f, w)
        /\ UNCHANGED panicked
  /\ woken' = woken \ {f}
  /\ UNCHANGED <<amounts, is_fair, required, total>>

PollNotifiedQuietly(f, w) ==         \* a slip: the next waiter is not woken
  /\ state[f] = "Notified"
  /\ \/ /\ permits >= required[f]
        /\ IF is_fair THEN RemovalPanics(f) ELSE UNCHANGED panicked
        /\ waiters' = IF is_fair THEN Remove(waiters, f) ELSE waiters
        /\ Obtain(f)
        /\ state' = [state EXCEPT ![f] = "Done"]
     \/ /\ permits < required[f]
        /\ panicked' = (panicked \/ is_fair)
        /\ Enqueue(f, w)
  /\ woken' = woken \ {f}
  /\ UNCHANGED <<amounts, is_fair, required, total>>

PollNotified(f, w) ==
  /\ state[f] = "Notified"
  /\ \/ /\ permits >= required[f] /\ is_fair
        /\ RemovalPanics(f)
        /\ Obtain(f)
        /\ WakeupWaiters(Remove(waiters, f), [state EXCEPT ![f] = "Done"],
                         woken \ {f}, permits - required[f])
     \/ /\ permits >= required[f] /\ ~is_fair
        /\ Obtain(f)
        /\ state' = [state EXCEPT ![f] = "Done"]
        /\ woken' = woken \ {f}
        /\ UNCHANGED <<waiters, panicked>>
     \/ /\ permits < required[f]
        /\ panicked' = (panicked \/ is_fair)
        /\ Enqueue(f, w)
        /\ woken' = woken \ {f}
  /\ UNCHANGED <<amounts, is_fair, required, total>>

Poll(f, w) == PollNew(f, w) \/ PollWaiting(f, w) \/ PollNotified(f, w)

(* Drop of a releaser that holds permits. *)
DropReleaser(f) ==
  /\ held[f] # 0
  /\ ReleasePermits(held[f])
  /\ held' = [held EXCEPT ![f] = 0]
  /\ UNCHANGED <<amounts, is_fair, task, required, total, latest, panicked>>

(* GenericSemaphoreReleaser::disarm: the permits leave the circulation. *)
DisarmKeepsPermits(f) ==             \* a slip: the releaser is not emptied
  /\ held[f] # 0
  /\ total - held[f] \in Nat
  /\ total' = total - held[f]
  /\ UNCHANGED <<amounts, is_fair, permits, waiters, state, task, required,
                 held, latest, woken, panicked>>

Disarm(f) ==
  /\ held[f] # 0
  /\ held' = [held EXCEPT ![f] = 0]
  /\ total' = total - held[f]
  /\ UNCHANGED <<amounts, is_fair, permits, waiters, state, task, required,
                 latest, woken, panicked>>

(***************************************************************************)
(* GenericSemaphore::release of n permits that no releaser holds.  The     *)
(* code adds without an overflow check (a TODO there): the program must    *)
(* keep the permits in circulation representable.                          *)
(***************************************************************************)
Release(n) ==
  /\ n # 0
  /\ total + n <= MaxPermits
  /\ ReleasePermits(n)
  /\ total' = total + n
  /\ UNCHANGED <<amounts, is_fair, task, required, held, latest, panicked>>

(***************************************************************************)
(* Drop of a pending future (cancellation): remove_waiter.  Only a         *)
(* notified future passes its chance on.                                   *)
(***************************************************************************)
DropNotifiedSilently(f) ==           \* a slip: the chance is not passed on
  /\ state[f] = "Notified"
  /\ waiters' = Remove(waiters, f)
  /\ state' = [state EXCEPT ![f] = "Done"]
  /\ woken' = woken \ {f}
  /\ UNCHANGED <<amounts, is_fair, permits, task, required, held, total,
                 latest, panicked>>

DropNotified(f) ==
  /\ state[f] = "Notified"
  /\ IF is_fair THEN RemovalPanics(f) ELSE UNCHANGED panicked
  /\ WakeupWaiters(IF is_fair THEN Remove(waiters, f) ELSE waiters,
                   [state EXCEPT ![f] = "Done"], woken \ {f}, permits)
  /\ UNCHANGED <<amounts, is_fair, permits, task, required, held, total, latest>>

DropWaiting(f) ==
  /\ state[f] = "Waiting"
  /\ RemovalPanics(f)
  /\ waiters' = Remove(waiters, f)
  /\ state' = [state EXCEPT ![f] = "Done"]
  /\ woken' = woken \ {f}
  /\ UNCHANGED <<amounts, is_fair, permits, task, required, held, total, latest>>

DropNew(f) ==
  /\ state[f] = "New"
  /\ state' = [state EXCEPT ![f] = "Done"]
  /\ woken' = woken \ {f}
  /\ UNCHANGED <<amounts, is_fair, permits, waiters, task, required, held,
                 total, latest, panicked>>

DropFuture(f) == DropNotified(f) \/ DropWaiting(f) \/ DropNew(f)

-----------------------------------------------------------------------------
Next ==
  \/ \E f \in Futures :
       \/ \E n \in amounts : Acquire(f, n)
       \/ \E n \in amounts : TryAcquire(f, n)
       \/ \E w \in Wakers : Poll(f, w)
       \/ DropReleaser(f) \/ Disarm(f) \/ DropFuture(f)
  \/ \E n \in amounts : Release(n)

(***************************************************************************)
(* A releaser is dropped one day, and the executor polls a future whose    *)
(* waker was woken.                                                        *)
(***************************************************************************)
PollWoken(f) == f \in woken /\ \E w \in Wakers : Poll(f, w)

Fairness ==
  \A f \in Futures : WF_vars(DropReleaser(f)) /\ WF_vars(PollWoken(f))

SafetySpec == Init /\ [][Next]_vars
Spec == SafetySpec /\ Fairness

-----------------------------------------------------------------------------
(* The types; a waiting node always holds a waker. *)
TypeOK ==
  /\ amounts \in Workloads
  /\ is_fair \in BOOLEAN
  /\ permits \in Nat
  /\ waiters \in Seq(Futures)
  /\ state \in [Futures -> PollState]
  /\ task \in [Futures -> OptWaker]
  /\ required \in [Futures -> Nat]
  /\ held \in [Futures -> Nat]
  /\ total \in Int
  /\ latest \in [Futures -> OptWaker]
  /\ woken \in SUBSET Futures
  /\ panicked \in BOOLEAN
  /\ \A f \in Futures : state[f] = "Waiting" => task[f] \in Wakers

(***************************************************************************)
(* No permit is lost or made up, whatever is acquired, cancelled, released *)
(* or disarmed: the available and the held permits are the ones in         *)
(* circulation.                                                            *)
(***************************************************************************)
PermitsConserved ==
  permits + MapThenSumSet(LAMBDA f : held[f], Futures) = total

(***************************************************************************)
(* The queue holds exactly the pending futures that count on it, once.     *)
(***************************************************************************)
Queued(f) == state[f] = "Waiting" \/ (is_fair /\ state[f] = "Notified")

QueueHoldsWaiters ==
  /\ Distinct(waiters)
  /\ Nodes(waiters) = {f \in Futures : Queued(f)}

(***************************************************************************)
(* The assertion "Fair semaphores should always be ready when notified"    *)
(* and the forced removals never fail.                                     *)
(***************************************************************************)
NeverPanics == ~panicked

(***************************************************************************)
(* No lost wake-up: the latest waker of a notified future has been woken   *)
(* since that poll.                                                        *)
(***************************************************************************)
NotifiedIsWoken == \A f \in Futures : state[f] = "Notified" => f \in woken

(***************************************************************************)
(* First come, first served: while somebody waits at a fair semaphore only *)
(* the oldest waiter obtains permits, and nobody moves ahead.              *)
(***************************************************************************)
NoOvertaking ==
  [][is_fair /\ ~IsEmpty(waiters) =>
       /\ \A f \in Futures : held'[f] > held[f] => f = PeekLast(waiters)
       /\ KeepsOrder(waiters, waiters')
    ]_vars

(***************************************************************************)
(* The oldest waiter of a fair semaphore has been notified as soon as the  *)
(* permits suffice for it: what the documentation of new says of the other *)
(* waiters once "the SemaphoreAcquireFuture which tried to acquire the     *)
(* Semaphore is dropped".  It does not hold: see OnlyCancellationStalls.   *)
(***************************************************************************)
OldestNotified ==
  is_fair /\ ~IsEmpty(waiters) /\ permits >= required[PeekLast(waiters)] =>
    state[PeekLast(waiters)] = "Notified"

(***************************************************************************)
(* What does hold: the only step after which a fair semaphore leaves an    *)
(* oldest waiter asleep that it could serve is the cancellation of an      *)
(* oldest waiter that had not been notified; the next release or           *)
(* acquisition from the queue repairs it.                                  *)
(***************************************************************************)
OnlyCancellationStalls ==
  [][OldestNotified /\ ~OldestNotified' =>
       ~IsEmpty(waiters) /\ DropWaiting(PeekLast(waiters))]_vars

(***************************************************************************)
(* An unfair semaphore of which everybody asks the same number of permits  *)
(* has notified as many waiters as its permits suffice for, or all.        *)
(***************************************************************************)
UniformDemandServed ==
  \A n \in amounts \ {0} :
    ~is_fair /\ amounts = {n} /\ ~IsEmpty(waiters) =>
      permits < n * (1 + Cardinality({f \in Futures : state[f] = "Notified"}))

(***************************************************************************)
(* A future waiting at a fair semaphore obtains its permits or is dropped, *)
(* unless so many permits are disarmed that some request exceeds the       *)
(* permits in circulation.                                                 *)
(***************************************************************************)
EveryWaiterServed ==
  \A f \in Futures :
    is_fair /\ state[f] = "Waiting" ~>
      state[f] = "Done" \/ \E n \in amounts : n > total
=============================================================================
