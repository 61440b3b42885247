------------------------------ MODULE Waking -------------------------------
(***************************************************************************)
(* Wakers, and the contract between a future and the executor that polls   *)
(* it.  An executor may poll any live future at any moment and with any    *)
(* waker (a future moves between tasks; join! and select! poll it for      *)
(* reasons of their own).  What it promises is only that a future is       *)
(* polled again once the waker of its LATEST poll has been woken.          *)
(***************************************************************************)
CONSTANTS Wakers,   \* the wakers the executor hands to poll
          NoWaker   \* the value None of an Option<Waker>

ASSUME WakersAssumption == NoWaker \notin Wakers

OptWaker == Wakers \cup {NoWaker}

(***************************************************************************)
(* utils::update_waker_ref: a stored waker that would not wake the current *)
(* task (or None) is replaced by the one the caller passed.                *)
(***************************************************************************)
KeepWakerRef(stored, waker) == stored   \* a slip: the first waker stays

UpdateWakerRef(stored, waker) ==
  IF stored = NoWaker \/ stored # waker THEN waker ELSE stored

(***************************************************************************)
(* Waker::wake (external: the executor).  Waking a waker makes the         *)
(* executor poll again exactly those of the futures whose latest poll used *)
(* that waker; waking None is no call at all.                              *)
(***************************************************************************)
WokenBy(waker, futures, latest) == {f \in futures : latest[f] = waker}
=============================================================================
