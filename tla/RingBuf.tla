------------------------------ MODULE RingBuf ------------------------------
(***************************************************************************)
(* What the trait RingBuf (src/buffer/ring_buffer.rs) promises a channel:  *)
(* a queue of at most Capacity values.  FixedHeapBuf and GrowingHeapBuf    *)
(* are this with a VecDeque for the sequence; ArrayBuf implements it.      *)
(***************************************************************************)
EXTENDS Integers, Sequences

CONSTANTS Values, NoValue, Capacity

VARIABLES
  items,    \* the stored values, oldest first
  popped,   \* the value that the latest pop returned
  alive     \* whether the buffer has not been dropped

vars == <<items, popped, alive>>

Init == items = << >> /\ popped = NoValue /\ alive = TRUE

Push(value) ==
  /\ alive
  /\ Len(items) # Capacity
  /\ items' = Append(items, value)
  /\ UNCHANGED <<popped, alive>>

Pop ==
  /\ alive
  /\ items # << >>
  /\ popped' = Head(items)
  /\ items' = Tail(items)
  /\ UNCHANGED alive

(* Drop of the buffer, with what is left in it. *)
DropBuf ==
  /\ alive
  /\ alive' = FALSE
  /\ items' = << >>
  /\ UNCHANGED popped

Next == (\E value \in Values : Push(value)) \/ Pop \/ DropBuf

Spec == Init /\ [][Next]_vars
=============================================================================
