------------------------------ MODULE ArrayBuf ------------------------------
(***************************************************************************)
(* The array-backed ring buffer (src/buffer/ring_buffer.rs).  The array is *)
(* uninitialised memory; a value is moved into a cell by push and out of   *)
(* it by pop or by the drop of the buffer.  A cell that holds no value, or *)
(* whose value was moved out, holds NoValue here: to read or drop it is    *)
(* undefined behaviour, and to overwrite or forget any other cell leaks a  *)
(* value.                                                                  *)
(*                                                                         *)
(* A definition marked "a slip" is the code with one plausible mistake.    *)
(***************************************************************************)
EXTENDS Integers, Sequences

CONSTANTS Values, NoValue,
          LEN       \* the length of the array, its RealArray::LEN

ASSUME ArrayBufAssumption == NoValue \notin Values /\ LEN \in Nat

VARIABLES
  buffer, size, recv_idx, send_idx,   \* ArrayBuf
  popped,   \* the value that the latest pop returned
  alive     \* whether the buffer has not been dropped

vars == <<buffer, size, recv_idx, send_idx, popped, alive>>

(* ArrayBuf::new *)
Init ==
  /\ buffer = [c \in 0..(LEN - 1) |-> NoValue]
  /\ size = 0
  /\ recv_idx = 0
  /\ send_idx = 0
  /\ popped = NoValue
  /\ alive = TRUE

-----------------------------------------------------------------------------
NextIdx(last_idx) == IF last_idx + 1 = LEN THEN 0 ELSE last_idx + 1

CanPush == size # LEN

(* The index that n applications of next_idx, n <= LEN, lead to from recv_idx. *)
Cell(n) == IF recv_idx + n < LEN THEN recv_idx + n ELSE recv_idx + n - LEN

(* Callers push only after can_push, and pop only when the length is not 0. *)
Push(value) ==
  /\ alive
  /\ CanPush
  /\ buffer' = [buffer EXCEPT ![send_idx] = value]
  /\ send_idx' = NextIdx(send_idx)
  /\ size' = size + 1
  /\ UNCHANGED <<recv_idx, popped, alive>>

Pop ==
  /\ alive
  /\ size > 0
  /\ popped' = buffer[recv_idx]
  /\ buffer' = [buffer EXCEPT ![recv_idx] = NoValue]
  /\ recv_idx' = NextIdx(recv_idx)
  /\ size' = size - 1
  /\ UNCHANGED <<send_idx, alive>>

(* Drop: the loop drops `size' values, from recv_idx on. *)
DropFromStart ==                     \* a slip: the first cells are dropped
  /\ alive
  /\ buffer' = [c \in 0..(LEN - 1) |-> IF c < size THEN NoValue ELSE buffer[c]]
  /\ recv_idx' = Cell(size)
  /\ size' = 0
  /\ alive' = FALSE
  /\ UNCHANGED <<send_idx, popped>>

DropBuf ==
  /\ alive
  /\ buffer' = [c \in 0..(LEN - 1) |->
                  IF \E n \in 0..(size - 1) : c = Cell(n) THEN NoValue
                  ELSE buffer[c]]
  /\ recv_idx' = Cell(size)
  /\ size' = 0
  /\ alive' = FALSE
  /\ UNCHANGED <<send_idx, popped>>

Next == (\E value \in Values : Push(value)) \/ Pop \/ DropBuf

Spec == Init /\ [][Next]_vars

-----------------------------------------------------------------------------
TypeOK ==
  /\ buffer \in [0..(LEN - 1) -> Values \cup {NoValue}]
  /\ size \in 0..LEN
  /\ recv_idx \in Nat /\ (recv_idx < LEN \/ recv_idx = 0)
  /\ popped \in Values \cup {NoValue}
  /\ alive \in BOOLEAN

(***************************************************************************)
(* Memory safety of the MaybeUninit array: exactly the `size' cells from   *)
(* recv_idx on, around the end of the array, hold a value, and send_idx is *)
(* the cell after them.  So pop and drop touch only cells that were        *)
(* written, push overwrites no value, and drop leaves none behind.         *)
(***************************************************************************)
CellsHoldValues ==
  /\ send_idx = Cell(size)
  /\ \A c \in 0..(LEN - 1) :
       buffer[c] \in Values <=> \E n \in 0..(size - 1) : c = Cell(n)

(***************************************************************************)
(* The array implements the queue of the trait RingBuf.                    *)
(***************************************************************************)
Contents == [n \in 1..size |-> buffer[Cell(n - 1)]]

Queue == INSTANCE RingBuf WITH items <- Contents, Capacity <- LEN

IsRingBuf == Queue!Spec
=============================================================================
