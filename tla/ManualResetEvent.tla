-------------------------- MODULE ManualResetEvent --------------------------
(***************************************************************************)
(* The manual reset event (src/sync/manual_reset_event.rs) and the futures *)
(* that wait for it.  set releases everybody who waits, even when reset    *)
(* follows before they are polled again.                                   *)
(*                                                                         *)
(* A definition marked "a slip" is the code with one plausible mistake.    *)
(***************************************************************************)
EXTENDS Waiters

VARIABLE is_set   \* EventState

eventVars == <<is_set, waiterVars>>

EventInit == is_set \in BOOLEAN /\ WaitersInit

-----------------------------------------------------------------------------
(* GenericManualResetEvent::wait. *)
Wait(f) == Create(f, "New") /\ UNCHANGED is_set

(* EventState::set; setting an event that is set changes nothing. *)
SetQuietly ==                        \* a slip: the waiters stay in the queue
  /\ ~is_set
  /\ is_set' = TRUE
  /\ UNCHANGED waiterVars

Set ==
  /\ ~is_set
  /\ is_set' = TRUE
  /\ Drain("Done")

(* EventState::reset. *)
Reset ==
  /\ is_set' = FALSE
  /\ UNCHANGED waiterVars

(* EventState::try_wait, by the state of the node. *)
PollNew(f, w) ==
  /\ state[f] = "New"
  /\ IF is_set THEN Resolve(f) ELSE Register(f, w, "Waiting")
  /\ UNCHANGED is_set

PollWaiting(f, w) == StayRegistered(f, w) /\ UNCHANGED is_set

PollDoneWhileSet(f) ==               \* a slip: the event is looked at again
  /\ state[f] = "Done" /\ is_set
  /\ Resolve(f)
  /\ UNCHANGED is_set

PollDone(f) ==
  /\ state[f] = "Done"
  /\ Resolve(f)
  /\ UNCHANGED is_set

PollEvent(f, w) == PollNew(f, w) \/ PollWaiting(f, w) \/ PollDone(f)

(* Drop of a wait future. *)
DropWait(f) == RemoveWaiter(f) /\ UNCHANGED is_set

EventNext ==
  \/ Set \/ Reset
  \/ \E f \in Futures :
       Wait(f) \/ DropWait(f) \/ \E w \in Wakers : PollEvent(f, w)

(* The executor polls a future whose waker was woken. *)
PollWokenEvent(f) == f \in woken /\ \E w \in Wakers : PollEvent(f, w)

EventFairness == \A f \in Futures : WF_eventVars(PollWokenEvent(f))

EventSafetySpec == EventInit /\ [][EventNext]_eventVars
EventSpec == EventSafetySpec /\ EventFairness

-----------------------------------------------------------------------------
(***************************************************************************)
(* What try_wait relies on when it does not look at the event for a        *)
(* waiting node ("The event can't have been set, since this would change   *)
(* the waitstate inside the mutex"): nobody waits at a set event.          *)
(***************************************************************************)
WaitingMeansUnset ==
  /\ QueueHoldsWaiters
  /\ is_set => IsEmpty(waiters)

(***************************************************************************)
(* A future that was waiting when the event was set resolves or is dropped *)
(* whether or not the event is reset in the meantime.                      *)
(***************************************************************************)
SignalledResolves == \A f \in Futures : state[f] = "Done" ~> state[f] = "Gone"
=============================================================================
