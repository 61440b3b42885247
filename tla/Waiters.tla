------------------------------ MODULE Waiters ------------------------------
(***************************************************************************)
(* The wait queue of the primitives that wake everybody at once: the       *)
(* manual reset event, the oneshot channels and the state broadcast        *)
(* channel.  They differ in what is waited for; how a future enters the    *)
(* queue, changes its waker, leaves the queue and is drained from it is    *)
(* the same code in each.  All of it, the wake-ups included, happens       *)
(* inside the raw lock, so a call is one step.                             *)
(*                                                                         *)
(* A member of Futures is a slot of the program that holds one future      *)
(* after the other; "Gone" means that it holds none, or one that resolved. *)
(***************************************************************************)
EXTENDS WaitQueue, Waking

CONSTANT Futures

VARIABLES
  waiters,    \* the wait queue, oldest waiter first
  state,      \* poll state of the slot's wait node
  task,       \* the waker stored in the slot's wait node
  latest,     \* the waker of the latest poll of the slot's future
  woken,      \* the pending futures whose latest waker has been woken
  panicked    \* a forced removal has failed

waiterVars == <<waiters, state, task, latest, woken, panicked>>

(***************************************************************************)
(* The poll states of an event's node (New, Waiting, Done) and of a        *)
(* channel's (Unregistered, Registered), and those of a node in the queue. *)
(***************************************************************************)
PollState == {"New", "Waiting", "Done", "Unregistered", "Registered", "Gone"}
InQueue == {"Waiting", "Registered"}

WaitersInit ==
  /\ waiters = << >>
  /\ state = [f \in Futures |-> "Gone"]
  /\ task = [f \in Futures |-> NoWaker]
  /\ latest = [f \in Futures |-> NoWaker]
  /\ woken = {}
  /\ panicked = FALSE

-----------------------------------------------------------------------------
(* The slot is filled with a future whose node is in the initial state. *)
Create(f, initial) ==
  /\ state[f] = "Gone"
  /\ state' = [state EXCEPT ![f] = initial]
  /\ UNCHANGED <<waiters, task, latest, woken, panicked>>

(* A poll with waker w puts the node into the queue. *)
Register(f, w, registered) ==
  /\ task' = [task EXCEPT ![f] = w]
  /\ state' = [state EXCEPT ![f] = registered]
  /\ waiters' = AddFront(waiters, f)
  /\ latest' = [latest EXCEPT ![f] = w]
  /\ woken' = woken \ {f}
  /\ UNCHANGED panicked

(* A poll of a node in the queue with waker w. *)
StayRegistered(f, w) ==
  /\ state[f] \in InQueue
  /\ task' = [task EXCEPT ![f] = UpdateWakerRef(task[f], w)]
  /\ latest' = [latest EXCEPT ![f] = w]
  /\ woken' = woken \ {f}
  /\ UNCHANGED <<waiters, state, panicked>>

(* The future resolves or is dropped, and its node with it. *)
Vanish(f) ==
  /\ state' = [state EXCEPT ![f] = "Gone"]
  /\ task' = [task EXCEPT ![f] = NoWaker]
  /\ latest' = [latest EXCEPT ![f] = NoWaker]
  /\ woken' = woken \ {f}

Resolve(f) == Vanish(f) /\ UNCHANGED <<waiters, panicked>>

(* remove_waiter, from the drop of a future that has not resolved. *)
RemoveWaiter(f) ==
  /\ state[f] # "Gone"
  /\ Vanish(f)
  /\ IF state[f] \in InQueue
     THEN /\ panicked' = (panicked \/ ~IsLinked(waiters, f))
          /\ waiters' = Remove(waiters, f)
     ELSE UNCHANGED <<waiters, panicked>>

(***************************************************************************)
(* reverse_drain with a closure that wakes: the queue is emptied, every    *)
(* node's waker is taken and woken, and its state becomes `drained'.       *)
(***************************************************************************)
Drain(drained) ==
  /\ waiters' = << >>
  /\ state' = [f \in Futures |-> IF IsLinked(waiters, f) THEN drained
                                 ELSE state[f]]
  /\ task' = [f \in Futures |-> IF IsLinked(waiters, f) THEN NoWaker
                                ELSE task[f]]
  /\ woken' = woken \cup
       UNION {WokenBy(task[n], {f \in Futures : state[f] # "Gone"}, latest) :
                n \in Nodes(waiters)}
  /\ UNCHANGED <<latest, panicked>>

-----------------------------------------------------------------------------
WaitersTypeOK ==
  /\ waiters \in Seq(Futures)
  /\ state \in [Futures -> PollState]
  /\ task \in [Futures -> OptWaker]
  /\ latest \in [Futures -> OptWaker]
  /\ woken \in SUBSET Futures
  /\ panicked \in BOOLEAN

(***************************************************************************)
(* The queue holds exactly the registered futures, once each, so a removal *)
(* always finds its node.                                                  *)
(***************************************************************************)
QueueHoldsWaiters ==
  /\ ~panicked
  /\ Distinct(waiters)
  /\ Nodes(waiters) = {f \in Futures : state[f] \in InQueue}

Polled(f) == state[f] # "Gone" /\ latest[f] # NoWaker

(***************************************************************************)
(* No lost wake-up: a future that was polled and drained from the queue    *)
(* has had the waker of its latest poll woken since.                       *)
(***************************************************************************)
DrainedIsWoken ==
  \A f \in Futures : Polled(f) /\ state[f] \notin InQueue => f \in woken
=============================================================================
