---------------------------- MODULE FifoChannel ----------------------------
(***************************************************************************)
(* What a channel promises its users, whoever polls, cancels, wakes or     *)
(* sleeps inside it: one first-in-first-out sequence of values.  The first *)
(* `capacity' of them are in the channel for good; those behind are only   *)
(* offered, by send operations that have not completed, and can still be   *)
(* withdrawn.                                                              *)
(***************************************************************************)
EXTENDS Integers, Sequences, SequencesExt

CONSTANTS Values, NoValue, Capacities

VARIABLES
  capacity,   \* how many values the channel stores; fixed
  closed,     \* whether close was called
  items,      \* the stored and the offered values, oldest first
  received    \* the value the latest successful receive returned

vars == <<capacity, closed, items, received>>

Init ==
  /\ capacity \in Capacities
  /\ closed = FALSE
  /\ items = << >>
  /\ received = NoValue

(* A send operation offers a value, or stores it where there is room. *)
Offer(v) ==
  /\ ~closed
  /\ items' = Append(items, v)
  /\ UNCHANGED <<capacity, closed, received>>

(* A send operation is cancelled before its value was stored. *)
Withdraw(i) ==
  /\ ~closed
  /\ i > capacity
  /\ items' = RemoveAt(items, i)
  /\ UNCHANGED <<capacity, closed, received>>

(* A receive operation obtains the oldest value. *)
Deliver ==
  /\ items # << >>
  /\ received' = Head(items)
  /\ items' = Tail(items)
  /\ UNCHANGED <<capacity, closed>>

(* Closing keeps the stored values and gives the offered ones back. *)
Close ==
  /\ ~closed
  /\ closed' = TRUE
  /\ items' = SubSeq(items, 1, IF Len(items) < capacity THEN Len(items)
                               ELSE capacity)
  /\ UNCHANGED <<capacity, received>>

Next ==
  \/ \E v \in Values : Offer(v)
  \/ \E i \in 1..Len(items) : Withdraw(i)
  \/ Deliver
  \/ Close

Spec == Init /\ [][Next]_vars
=============================================================================
