------------------------------- MODULE Mutex -------------------------------
(***************************************************************************)
(* The futures-aware mutex (src/sync/mutex.rs): GenericMutex, its lock     *)
(* futures and its guards.                                                 *)
(*                                                                         *)
(* Every access to MutexState happens under the raw lock, so one call is   *)
(* one step.  The exception is what makes the component subtle: unlock and *)
(* remove_waiter RETURN the waker of the next task, and the caller wakes   *)
(* it after the raw lock is released.  Between the two, any other thread   *)
(* may run: in_hand[f] is the waker the call on slot f still has to wake.  *)
(*                                                                         *)
(* A member of Futures is a slot of the program that holds first a lock    *)
(* future and then the guard it resolved to; it is reused afterwards.      *)
(*                                                                         *)
(* A definition marked "a slip" is not the code: it is the code with one   *)
(* plausible mistake, kept to show that a property notices that mistake.   *)
(***************************************************************************)
EXTENDS WaitQueue, Waking

CONSTANT Futures

VARIABLES
  is_fair,    \* MutexState: fixed when the mutex is created
  is_locked,  \* MutexState
  waiters,    \* MutexState: the wait queue, oldest waiter first
  state,      \* PollState of the slot's wait node; Done: no pending future
  task,       \* the waker stored in the slot's wait node
  guards,     \* the slots that hold a guard
  in_hand,    \* the waker a call on the slot has taken and not yet woken
  latest,     \* the waker of the latest poll of the slot's future
  woken,      \* the pending futures whose latest waker has been woken
  panicked    \* an assertion or a forced removal has failed

vars == <<is_fair, is_locked, waiters, state, task, guards, in_hand, latest,
          woken, panicked>>

PollState == {"New", "Waiting", "Notified", "Done"}

(***************************************************************************)
(* A slot is idle when no call on it is still running; an idle slot with a *)
(* pending future can be polled or dropped, an unused one can be filled.   *)
(***************************************************************************)
Idle(f) == in_hand[f] = NoWaker
Unused(f) == Idle(f) /\ state[f] = "Done" /\ f \notin guards
Pending(f) == Idle(f) /\ state[f] # "Done"

Init ==
  /\ is_fair \in BOOLEAN
  /\ is_locked = FALSE
  /\ waiters = << >>
  /\ state = [f \in Futures |-> "Done"]
  /\ task = [f \in Futures |-> NoWaker]
  /\ guards = {}
  /\ in_hand = [f \in Futures |-> NoWaker]
  /\ latest = [f \in Futures |-> NoWaker]
  /\ woken = {}
  /\ panicked = FALSE

-----------------------------------------------------------------------------
(***************************************************************************)
(* try_lock_sync succeeds: the mutex is free and, when it is fair, nobody  *)
(* waits for it.                                                           *)
(***************************************************************************)
BargingAvailable == ~is_locked                              \* a slip
HeldAvailable == ~is_fair \/ IsEmpty(waiters)                \* a slip
Available == ~is_locked /\ (~is_fair \/ IsEmpty(waiters))

(***************************************************************************)
(* return_last_waiter, called on slot f with the queue q and the poll      *)
(* states st the caller has produced so far.  The oldest waiter becomes    *)
(* Notified and its waker is handed to the caller; an unfair mutex also    *)
(* removes it from the queue.                                              *)
(***************************************************************************)
NotifyLosesWaker(f, q, st) ==                               \* a slip
  /\ waiters' = IF is_fair \/ IsEmpty(q) THEN q ELSE RemoveLast(q)
  /\ state' = [g \in Futures |-> IF ~IsEmpty(q) /\ g = PeekLast(q)
                                 THEN "Notified" ELSE st[g]]
  /\ UNCHANGED <<task, in_hand>>

ReturnLastWaiter(f, q, st) ==
  IF IsEmpty(q)
  THEN waiters' = q /\ state' = st /\ UNCHANGED <<task, in_hand>>
  ELSE /\ waiters' = IF is_fair THEN q ELSE RemoveLast(q)
       /\ state' = [st EXCEPT ![PeekLast(q)] = "Notified"]
       /\ task' = [task EXCEPT ![PeekLast(q)] = NoWaker]
       /\ in_hand' = [in_hand EXCEPT ![f] = task[PeekLast(q)]]

(***************************************************************************)
(* The future on slot f obtains the lock and resolves to a guard.          *)
(***************************************************************************)
Acquire(f) ==
  /\ is_locked' = TRUE
  /\ state' = [state EXCEPT ![f] = "Done"]
  /\ guards' = guards \cup {f}
  /\ latest' = [latest EXCEPT ![f] = NoWaker]
  /\ UNCHANGED task

(***************************************************************************)
(* The future on slot f enters the wait queue, as its youngest member.     *)
(***************************************************************************)
Enqueue(f, w) ==
  /\ state' = [state EXCEPT ![f] = "Waiting"]
  /\ task' = [task EXCEPT ![f] = w]
  /\ waiters' = AddFront(waiters, f)
  /\ latest' = [latest EXCEPT ![f] = w]
  /\ UNCHANGED <<is_locked, guards>>

(***************************************************************************)
(* The future on slot f stays in the queue; only its waker is refreshed.   *)
(***************************************************************************)
StayWaiting(f, w) ==
  /\ task' = [task EXCEPT ![f] = UpdateWakerRef(task[f], w)]
  /\ latest' = [latest EXCEPT ![f] = w]
  /\ UNCHANGED <<is_locked, waiters, state, guards>>

(***************************************************************************)
(* force_remove_waiter: a node that is not linked is a broken contract and *)
(* panics.                                                                 *)
(***************************************************************************)
RemovalPanics(f) == panicked' = (panicked \/ ~IsLinked(waiters, f))

-----------------------------------------------------------------------------
(* GenericMutex::lock: a future that has not touched the mutex yet. *)
Lock(f) ==
  /\ Unused(f)
  /\ state' = [state EXCEPT ![f] = "New"]
  /\ task' = [task EXCEPT ![f] = NoWaker]
  /\ UNCHANGED <<is_fair, is_locked, waiters, guards, in_hand, latest, woken,
                 panicked>>

(* GenericMutex::try_lock, when it succeeds; a failed call changes nothing. *)
TryLock(f) ==
  /\ Unused(f)
  /\ Available
  /\ is_locked' = TRUE
  /\ guards' = guards \cup {f}
  /\ UNCHANGED <<is_fair, waiters, state, task, in_hand, latest, woken,
                 panicked>>

(***************************************************************************)
(* GenericMutexLockFuture::poll with waker w, one action per state of the  *)
(* wait node (MutexState::try_lock).  A poll consumes an earlier wake.     *)
(***************************************************************************)
PollNew(f, w) ==
  /\ Pending(f)
  /\ state[f] = "New"
  /\ \/ Available /\ Acquire(f) /\ UNCHANGED waiters
     \/ ~Available /\ Enqueue(f, w)
  /\ woken' = woken \ {f}
  /\ UNCHANGED <<is_fair, in_hand, panicked>>

PollWaiting(f, w) ==
  /\ Pending(f)
  /\ state[f] = "Waiting"
  /\ \/ /\ ~is_fair /\ ~is_locked
        /\ RemovalPanics(f)
        /\ waiters' = Remove(waiters, f)
        /\ Acquire(f)
     \/ (is_fair \/ is_locked) /\ StayWaiting(f, w) /\ UNCHANGED panicked
  /\ woken' = woken \ {f}
  /\ UNCHANGED <<is_fair, in_hand>>

PollNotified(f, w) ==
  /\ Pending(f)
  /\ state[f] = "Notified"
  /\ \/ /\ ~is_locked /\ is_fair
        /\ RemovalPanics(f)
        /\ waiters' = Remove(waiters, f)
        /\ Acquire(f)
     \/ ~is_locked /\ ~is_fair /\ Acquire(f) /\ UNCHANGED <<waiters, panicked>>
     \/ is_locked /\ panicked' = (panicked \/ is_fair) /\ Enqueue(f, w)
  /\ woken' = woken \ {f}
  /\ UNCHANGED <<is_fair, in_hand>>

Poll(f, w) == PollNew(f, w) \/ PollWaiting(f, w) \/ PollNotified(f, w)

(***************************************************************************)
(* Drop of a guard: unlock, under the raw lock.  The waker it returns is   *)
(* woken later, by WakeInHand.                                             *)
(***************************************************************************)
DropGuard(f) ==
  /\ Idle(f)
  /\ f \in guards
  /\ guards' = guards \ {f}
  /\ is_locked' = FALSE
  /\ IF is_locked
     THEN ReturnLastWaiter(f, waiters, state)
     ELSE UNCHANGED <<waiters, state, task, in_hand>>
  /\ UNCHANGED <<is_fair, latest, woken, panicked>>

(***************************************************************************)
(* Drop of a pending future (cancellation): remove_waiter, under the raw   *)
(* lock.  A notification that the future did not use is passed on.         *)
(***************************************************************************)
ForgetFuture(f) ==
  /\ latest' = [latest EXCEPT ![f] = NoWaker]
  /\ woken' = woken \ {f}
  /\ UNCHANGED <<is_fair, is_locked, guards>>

DropNotifiedSilently(f) ==                                  \* a slip
  /\ Pending(f)
  /\ state[f] = "Notified"
  /\ waiters' = Remove(waiters, f)
  /\ state' = [state EXCEPT ![f] = "Done"]
  /\ ForgetFuture(f)
  /\ UNCHANGED <<task, in_hand, panicked>>

DropNotified(f) ==
  /\ Pending(f)
  /\ state[f] = "Notified"
  /\ IF is_fair THEN RemovalPanics(f) ELSE UNCHANGED panicked
  /\ ReturnLastWaiter(f, IF is_fair THEN Remove(waiters, f) ELSE waiters,
                      [state EXCEPT ![f] = "Done"])
  /\ ForgetFuture(f)

DropWaitingStillLinked(f) ==                                \* a slip
  /\ Pending(f)
  /\ state[f] = "Waiting"
  /\ state' = [state EXCEPT ![f] = "Done"]
  /\ ForgetFuture(f)
  /\ UNCHANGED <<waiters, task, in_hand, panicked>>

DropWaiting(f) ==
  /\ Pending(f)
  /\ state[f] = "Waiting"
  /\ RemovalPanics(f)
  /\ waiters' = Remove(waiters, f)
  /\ state' = [state EXCEPT ![f] = "Done"]
  /\ ForgetFuture(f)
  /\ UNCHANGED <<task, in_hand>>

DropNew(f) ==
  /\ Pending(f)
  /\ state[f] = "New"
  /\ state' = [state EXCEPT ![f] = "Done"]
  /\ ForgetFuture(f)
  /\ UNCHANGED <<waiters, task, in_hand, panicked>>

DropFuture(f) == DropNotified(f) \/ DropWaiting(f) \/ DropNew(f)

(***************************************************************************)
(* waker.wake() of the waker a drop returned, outside the raw lock.        *)
(***************************************************************************)
WakeInHand(f) ==
  /\ ~Idle(f)
  /\ woken' = woken \cup
        WokenBy(in_hand[f], {g \in Futures : state[g] # "Done"}, latest)
  /\ in_hand' = [in_hand EXCEPT ![f] = NoWaker]
  /\ UNCHANGED <<is_fair, is_locked, waiters, state, task, guards, latest,
                 panicked>>

-----------------------------------------------------------------------------
Next ==
  \E f \in Futures :
    \/ Lock(f) \/ TryLock(f)
    \/ \E w \in Wakers : Poll(f, w)
    \/ DropGuard(f) \/ DropFuture(f) \/ WakeInHand(f)

(***************************************************************************)
(* What the mutex may rely on: a running drop finishes, a guard is dropped *)
(* one day, and the executor polls a future whose waker was woken.         *)
(***************************************************************************)
PollWoken(f) == f \in woken /\ \E w \in Wakers : Poll(f, w)

Fairness ==
  \A f \in Futures :
    /\ WF_vars(WakeInHand(f))
    /\ WF_vars(DropGuard(f))
    /\ WF_vars(PollWoken(f))

SafetySpec == Init /\ [][Next]_vars
Spec == SafetySpec /\ Fairness

-----------------------------------------------------------------------------
(* The types; a waiting node always holds a waker. *)
TypeOK ==
  /\ is_fair \in BOOLEAN
  /\ is_locked \in BOOLEAN
  /\ waiters \in Seq(Futures)
  /\ state \in [Futures -> PollState]
  /\ task \in [Futures -> OptWaker]
  /\ guards \in SUBSET Futures
  /\ in_hand \in [Futures -> OptWaker]
  /\ latest \in [Futures -> OptWaker]
  /\ woken \in SUBSET Futures
  /\ panicked \in BOOLEAN
  /\ \A f \in Futures : state[f] = "Waiting" => task[f] \in Wakers

(***************************************************************************)
(* The guarantee the guards are handed out for: is_locked says exactly     *)
(* whether a guard exists, and there is never a second one, so the         *)
(* UnsafeCell behind Deref and DerefMut is never aliased.                  *)
(***************************************************************************)
MutualExclusion ==
  /\ is_locked <=> guards # {}
  /\ \A f, g \in guards : f = g

(***************************************************************************)
(* The intrusive queue holds exactly the futures that still exist and      *)
(* count on it, each once: it never keeps the address of a future that is  *)
(* gone.  A fair mutex keeps a notified future linked, an unfair one does  *)
(* not.                                                                    *)
(***************************************************************************)
Queued(f) == state[f] = "Waiting" \/ (is_fair /\ state[f] = "Notified")

QueueHoldsWaiters ==
  /\ Distinct(waiters)
  /\ Nodes(waiters) = {f \in Futures : Queued(f)}

(***************************************************************************)
(* "Future could not be removed from wait queue" and the debug_assert that *)
(* a notified future of a fair mutex finds it unlocked never fire.         *)
(***************************************************************************)
NeverPanics == ~panicked

(***************************************************************************)
(* No lost unlock: while the mutex is free and somebody waits, some future *)
(* has been notified and will retry.  A fair mutex has notified the oldest *)
(* waiter, and nobody else.                                                *)
(***************************************************************************)
UnlockNotLost ==
  ~is_locked /\ ~IsEmpty(waiters) =>
    \E f \in Futures : /\ state[f] = "Notified"
                       /\ is_fair => f = PeekLast(waiters)

(***************************************************************************)
(* No lost wake-up: the LATEST waker of a notified future has been woken,  *)
(* or a drop that runs at this moment is about to wake it - whatever polls *)
(* with other wakers happened between registration and notification.       *)
(***************************************************************************)
WakePending(f) ==
  \/ f \in woken
  \/ \E g \in Futures : in_hand[g] = latest[f] /\ latest[f] # NoWaker

NotifiedIsWoken ==
  \A f \in Futures : state[f] = "Notified" => WakePending(f)

(***************************************************************************)
(* Fairness of the fair mutex, as a step property: a future behind another *)
(* one in the queue neither obtains the lock nor moves ahead of it, and    *)
(* try_lock does not barge in.                                             *)
(***************************************************************************)
NoOvertaking ==
  [][is_fair /\ ~IsEmpty(waiters) =>
       /\ guards' \subseteq guards \cup {PeekLast(waiters)}
       /\ KeepsOrder(waiters, waiters')
    ]_vars

(***************************************************************************)
(* Liveness of the fair mutex: a waiting future obtains the lock or is     *)
(* dropped.                                                                *)
(***************************************************************************)
EveryWaiterServed ==
  \A f \in Futures :
    is_fair /\ state[f] = "Waiting" ~> state[f] = "Done"

(***************************************************************************)
(* Liveness of both kinds: a free mutex with waiters does not stay free,   *)
(* unless notified futures are cancelled over and over.  (One waiter of an *)
(* unfair mutex may starve; the mutex itself may not.)                     *)
(***************************************************************************)
FreeMutexIsTaken ==
  <>[][\A f \in Futures : ~DropNotified(f)]_vars =>
    (~is_locked /\ ~IsEmpty(waiters) ~> is_locked \/ IsEmpty(waiters))
=============================================================================
