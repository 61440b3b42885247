-------------------------- MODULE ContainerProofs --------------------------
(***************************************************************************)
(* The data structures under the primitives.  The array-backed ring buffer *)
(* is memory safe and implements a bounded queue, for every length of the  *)
(* array and every set of values; the pointers of the intrusive list are   *)
(* sound and implement a sequence of nodes, for any number of nodes; and   *)
(* those of the pairing heap are sound and implement a priority queue, for *)
(* any number of nodes and whatever data they carry.                       *)
(***************************************************************************)
EXTENDS ArrayBuf, IntrusiveList, PairingHeap, SequenceTheorems,
        FiniteSetTheorems, TLAPS

(* The ring buffer: the types, and which cells of the array hold values. *)
IInv == TypeOK /\ CellsHoldValues

-----------------------------------------------------------------------------
(* The cells that next_idx leads to from recv_idx are different cells of the *)
(* array, and the one after n cells is next to the one after n - 1.          *)
LEMMA CellProperties ==
  ASSUME TypeOK
  PROVE  /\ \A n \in 0..(LEN - 1) : Cell(n) \in 0..(LEN - 1)
         /\ \A m, n \in 0..(LEN - 1) : Cell(m) = Cell(n) => m = n
         /\ \A n \in 0..(LEN - 1) : NextIdx(Cell(n)) = Cell(n + 1)
         /\ LEN > 0 => Cell(0) = recv_idx
         /\ LEN = 0 => Cell(0) = 0
         /\ Cell(LEN) = recv_idx
<1> USE ArrayBufAssumption DEF TypeOK, Cell
<1>1. \A n \in 0..(LEN - 1) : Cell(n) \in 0..(LEN - 1)
  OBVIOUS
<1>2. \A m, n \in 0..(LEN - 1) : Cell(m) = Cell(n) => m = n
  OBVIOUS
<1>3. \A n \in 0..(LEN - 1) : NextIdx(Cell(n)) = Cell(n + 1)
  BY DEF NextIdx
<1>4. LEN > 0 => Cell(0) = recv_idx
  OBVIOUS
<1>5. LEN = 0 => Cell(0) = 0
  OBVIOUS
<1>6. Cell(LEN) = recv_idx
  OBVIOUS
<1> QED
  BY <1>1, <1>2, <1>3, <1>4, <1>5, <1>6

(* The array is uninitialised at first. *)
LEMMA InitInv == Init => IInv
  BY ArrayBufAssumption DEF Init, IInv, TypeOK, CellsHoldValues, Cell

(* push writes the cell after the stored ones, which is free. *)
LEMMA PushInv ==
  ASSUME IInv, NEW value \in Values, Push(value)
  PROVE  IInv'
<1> USE ArrayBufAssumption DEF IInv
<1>1. size \in 0..(LEN - 1) /\ send_idx = Cell(size) /\ send_idx \in 0..(LEN - 1)
  BY CellProperties DEF Push, CanPush, TypeOK, CellsHoldValues
<1>2. TypeOK'
  BY <1>1 DEF TypeOK, Push
<1>3. \A n \in Nat : Cell(n)' = Cell(n)
  BY DEF Push, Cell
<1>4. send_idx' = Cell(size)'
  BY <1>1, <1>3, CellProperties DEF Push
<1>5. ASSUME NEW c \in 0..(LEN - 1)
      PROVE  buffer'[c] \in Values <=> \E n \in 0..(size' - 1) : c = Cell(n)'
  <2>1. buffer'[c] = IF c = send_idx THEN value ELSE buffer[c]
    BY <1>1 DEF Push, TypeOK
  <2>2. (\E n \in 0..(size' - 1) : c = Cell(n)')
           <=> c = send_idx \/ \E n \in 0..(size - 1) : c = Cell(n)
    BY <1>1, <1>3 DEF Push
  <2> QED
    BY <2>1, <2>2 DEF CellsHoldValues
<1> QED
  BY <1>2, <1>4, <1>5 DEF CellsHoldValues

(* pop empties the first stored cell and moves on to the second. *)
LEMMA PopInv ==
  ASSUME IInv, Pop
  PROVE  IInv' /\ popped' \in Values
<1> USE ArrayBufAssumption DEF IInv
<1>1. size \in 1..LEN /\ recv_idx \in 0..(LEN - 1) /\ recv_idx = Cell(0)
  BY CellProperties DEF Pop, TypeOK
<1>2. popped' \in Values
  BY <1>1 DEF Pop, CellsHoldValues
<1>3. recv_idx' \in 0..(LEN - 1) /\ size' \in 0..LEN
  BY <1>1 DEF Pop, NextIdx
<1>4. TypeOK'
  BY <1>1, <1>2, <1>3 DEF TypeOK, Pop
<1>5. \A n \in 0..(LEN - 1) : Cell(n)' = Cell(n + 1)
  BY <1>1 DEF Pop, Cell, NextIdx
<1>6. send_idx' = Cell(size)'
  BY <1>1, <1>5 DEF Pop, CellsHoldValues
<1>7. ASSUME NEW c \in 0..(LEN - 1)
      PROVE  buffer'[c] \in Values <=> \E n \in 0..(size' - 1) : c = Cell(n)'
  <2>1. buffer'[c] = IF c = recv_idx THEN NoValue ELSE buffer[c]
    BY <1>1 DEF Pop, TypeOK
  <2>2. \A n \in 1..(size - 1) : Cell(n) # recv_idx
    BY <1>1, CellProperties
  <2>3. (\E n \in 0..(size' - 1) : c = Cell(n)')
           <=> \E n \in 1..(size - 1) : c = Cell(n)
    <3>1. ASSUME NEW n \in 0..(size' - 1), c = Cell(n)'
          PROVE  \E k \in 1..(size - 1) : c = Cell(k)
      <4>1. n + 1 \in 1..(size - 1) /\ c = Cell(n + 1)
        BY <1>1, <1>5, <3>1 DEF Pop
      <4> QED
        BY <4>1
    <3>2. ASSUME NEW n \in 1..(size - 1), c = Cell(n)
          PROVE  \E k \in 0..(size' - 1) : c = Cell(k)'
      <4>1. n - 1 \in 0..(size' - 1) /\ n - 1 \in 0..(LEN - 1) /\ (n - 1) + 1 = n
        BY <1>1 DEF Pop
      <4>2. c = Cell(n - 1)'
        BY <1>5, <3>2, <4>1
      <4> QED
        BY <4>1, <4>2
    <3> QED
      BY <3>1, <3>2
  <2>4. (\E n \in 0..(size - 1) : c = Cell(n))
           <=> c = recv_idx \/ \E n \in 1..(size - 1) : c = Cell(n)
    BY <1>1
  <2> QED
    BY <2>1, <2>2, <2>3, <2>4 DEF CellsHoldValues
<1> QED
  BY <1>2, <1>4, <1>6, <1>7 DEF CellsHoldValues

(* The drop empties all the stored cells. *)
LEMMA DropBufInv ==
  ASSUME IInv, DropBuf
  PROVE  IInv'
<1> USE ArrayBufAssumption DEF IInv
<1>1. Cell(size) \in Nat /\ (Cell(size) < LEN \/ Cell(size) = 0)
  BY DEF TypeOK, Cell
<1>2. TypeOK'
  <2>1. buffer' \in [0..(LEN - 1) -> Values \cup {NoValue}]
    BY DEF TypeOK, DropBuf
  <2>2. recv_idx' \in Nat /\ (recv_idx' < LEN \/ recv_idx' = 0)
    BY <1>1 DEF DropBuf
  <2>3. size' \in 0..LEN /\ popped' = popped /\ alive' = FALSE
    BY DEF DropBuf
  <2> QED
    BY <2>1, <2>2, <2>3 DEF TypeOK
<1>3. send_idx' = Cell(size)'
  BY <1>1 DEF DropBuf, Cell, CellsHoldValues, TypeOK
<1>4. \A c \in 0..(LEN - 1) : buffer'[c] \notin Values
  BY DEF DropBuf, CellsHoldValues, TypeOK
<1>5. size' = 0
  BY DEF DropBuf
<1> QED
  BY <1>2, <1>3, <1>4, <1>5 DEF CellsHoldValues

-----------------------------------------------------------------------------
(* The invariant is preserved by every call. *)
THEOREM Invariance == Spec => []IInv
<1>1. IInv /\ [Next]_vars => IInv'
  <2> SUFFICES ASSUME IInv, [Next]_vars PROVE IInv'
    OBVIOUS
  <2>1. CASE \E value \in Values : Push(value)
    BY <2>1, PushInv
  <2>2. CASE Pop
    BY <2>2, PopInv
  <2>3. CASE DropBuf
    BY <2>3, DropBufInv
  <2>4. CASE UNCHANGED vars
    BY <2>4 DEF vars, IInv, TypeOK, CellsHoldValues, Cell
  <2> QED
    BY <2>1, <2>2, <2>3, <2>4 DEF Next
<1> QED
  BY <1>1, InitInv, PTL DEF Spec

(* Exactly the stored cells of the MaybeUninit array hold a value. *)
THEOREM CellsAreSafe == Spec => []CellsHoldValues
<1>1. IInv => CellsHoldValues
  BY DEF IInv
<1> QED
  BY <1>1, Invariance, PTL

-----------------------------------------------------------------------------
(* The stored values form a sequence of values. *)
LEMMA ContentsIsSeq ==
  ASSUME IInv
  PROVE  /\ Contents \in Seq(Values)
         /\ Len(Contents) = size
         /\ \A n \in 1..size : Contents[n] = buffer[Cell(n - 1)]
<1> USE ArrayBufAssumption
<1>1. size \in Nat /\ size <= LEN
  BY DEF IInv, TypeOK
<1>2. ASSUME NEW n \in 1..size PROVE buffer[Cell(n - 1)] \in Values
  <2>1. n - 1 \in 0..(size - 1) /\ n - 1 \in 0..(LEN - 1)
    BY <1>1
  <2>2. Cell(n - 1) \in 0..(LEN - 1)
    BY <2>1, CellProperties DEF IInv
  <2> QED
    BY <2>1, <2>2 DEF IInv, CellsHoldValues
<1> QED
  BY <1>1, <1>2 DEF Contents

(* push appends its value to the queue. *)
LEMMA PushRefines ==
  ASSUME IInv, NEW value \in Values, Push(value)
  PROVE  Queue!Push(value)
<1> USE ArrayBufAssumption
<1>1. IInv'
  BY PushInv
<1>2. /\ size \in 0..(LEN - 1)
      /\ size' = size + 1
      /\ send_idx = Cell(size)
      /\ buffer' = [buffer EXCEPT ![send_idx] = value]
  BY DEF IInv, TypeOK, CellsHoldValues, Push, CanPush
<1>3. /\ Contents \in Seq(Values) /\ Len(Contents) = size
      /\ \A n \in 1..size : Contents[n] = buffer[Cell(n - 1)]
  BY ContentsIsSeq
<1>4. \A n \in Nat : Cell(n)' = Cell(n)
  BY DEF Push, Cell
<1>5. Contents' = [n \in 1..(size + 1) |-> buffer'[Cell(n - 1)]]
  BY <1>2, <1>4 DEF Contents
<1>6. \A n \in 1..size : buffer'[Cell(n - 1)] = Contents[n]
  <2> SUFFICES ASSUME NEW n \in 1..size
               PROVE  buffer'[Cell(n - 1)] = Contents[n]
    OBVIOUS
  <2>1. n - 1 \in 0..(LEN - 1) /\ n - 1 # size
    BY <1>2
  <2>2. Cell(n - 1) # send_idx /\ Cell(n - 1) \in 0..(LEN - 1)
    BY <1>2, <2>1, CellProperties DEF IInv
  <2> QED
    BY <1>2, <1>3, <2>2 DEF IInv, TypeOK
<1>7. buffer'[Cell(size)] = value
  BY <1>2, CellProperties DEF IInv, TypeOK
<1>8. Contents' = Append(Contents, value)
  <2>1. Append(Contents, value) =
          [n \in 1..(size + 1) |-> IF n <= size THEN Contents[n] ELSE value]
    <3> DEFINE a == Append(Contents, value)
    <3>1. a \in [1..(size + 1) -> Values]
      BY <1>3, AppendProperties, LenProperties
    <3>2. \A n \in 1..size : a[n] = Contents[n]
      BY <1>3, AppendProperties
    <3>3. a[size + 1] = value
      BY <1>3, AppendProperties
    <3> HIDE DEF a
    <3>4. \A n \in 1..(size + 1) : a[n] = IF n <= size THEN Contents[n] ELSE value
      BY <1>2, <3>2, <3>3
    <3>5. a = [n \in 1..(size + 1) |-> IF n <= size THEN Contents[n] ELSE value]
      BY <3>1, <3>4
    <3> QED
      BY <3>5 DEF a
  <2>2. \A n \in 1..(size + 1) :
          buffer'[Cell(n - 1)] = IF n <= size THEN Contents[n] ELSE value
    BY <1>2, <1>6, <1>7
  <2> QED
    BY <1>5, <2>1, <2>2
<1> QED
  BY <1>2, <1>3, <1>8 DEF Queue!Push, Push

(* pop returns the oldest value and leaves the others. *)
LEMMA PopRefines ==
  ASSUME IInv, Pop
  PROVE  Queue!Pop
<1> USE ArrayBufAssumption
<1>1. /\ size \in 1..LEN
      /\ size' = size - 1
      /\ recv_idx \in 0..(LEN - 1) /\ recv_idx = Cell(0)
      /\ popped' = buffer[recv_idx]
      /\ buffer' = [buffer EXCEPT ![recv_idx] = NoValue]
  BY CellProperties DEF IInv, TypeOK, Pop
<1>2. /\ Contents \in Seq(Values) /\ Len(Contents) = size
      /\ \A n \in 1..size : Contents[n] = buffer[Cell(n - 1)]
  BY ContentsIsSeq
<1>3. \A n \in 0..(LEN - 1) : Cell(n)' = Cell(n + 1)
  BY <1>1 DEF Pop, Cell, NextIdx
<1>4. Contents' = [n \in 1..(size - 1) |-> buffer'[Cell(n)]]
  <2>1. \A n \in 1..(size - 1) : Cell(n - 1)' = Cell(n)
    <3> SUFFICES ASSUME NEW n \in 1..(size - 1) PROVE Cell(n - 1)' = Cell(n)
      OBVIOUS
    <3>1. n - 1 \in 0..(LEN - 1) /\ (n - 1) + 1 = n
      BY <1>1
    <3> QED
      BY <1>3, <3>1
  <2> QED
    BY <1>1, <2>1 DEF Contents
<1>5. \A n \in 1..(size - 1) : buffer'[Cell(n)] = Contents[n + 1]
  <2> SUFFICES ASSUME NEW n \in 1..(size - 1)
               PROVE  buffer'[Cell(n)] = Contents[n + 1]
    OBVIOUS
  <2>1. n \in 0..(LEN - 1) /\ 0 \in 0..(LEN - 1) /\ n # 0
    BY <1>1
  <2>2. Cell(n) # recv_idx /\ Cell(n) \in 0..(LEN - 1)
    BY <1>1, <2>1, CellProperties DEF IInv
  <2>3. n + 1 \in 1..size /\ (n + 1) - 1 = n
    BY <1>1
  <2>4. Contents[n + 1] = buffer[Cell(n)]
    BY <1>2, <2>3
  <2> QED
    BY <1>1, <2>2, <2>4 DEF IInv, TypeOK
<1>6. Contents # << >> /\ Head(Contents) = Contents[1]
  BY <1>1, <1>2
<1>7. Tail(Contents) = [n \in 1..(size - 1) |-> Contents[n + 1]]
  <2> DEFINE a == Tail(Contents)
  <2>1. a \in [1..(size - 1) -> Values]
    BY <1>2, <1>6, HeadTailProperties, LenProperties
  <2>2. \A n \in 1..(size - 1) : a[n] = Contents[n + 1]
    BY <1>2, <1>6, HeadTailProperties
  <2> HIDE DEF a
  <2>3. a = [n \in 1..(size - 1) |-> Contents[n + 1]]
    BY <2>1, <2>2
  <2> QED
    BY <2>3 DEF a
<1>8. Contents' = Tail(Contents)
  BY <1>4, <1>5, <1>7
<1>9. popped' = Head(Contents)
  <2>1. 1 \in 1..size /\ 1 - 1 = 0
    BY <1>1
  <2>2. Contents[1] = buffer[Cell(0)]
    BY <1>2, <2>1
  <2> QED
    BY <1>1, <1>6, <2>2
<1> QED
  BY <1>6, <1>8, <1>9 DEF Queue!Pop, Pop

(* An array of no values is the empty queue. *)
LEMMA EmptyContents == size = 0 => Contents = << >>
  BY DEF Contents

LEMMA DropBufRefines == DropBuf => Queue!DropBuf
<1> SUFFICES ASSUME DropBuf PROVE Queue!DropBuf
  OBVIOUS
<1>1. size' = 0 /\ alive /\ alive' = FALSE /\ popped' = popped
  BY DEF DropBuf
<1>2. Contents' = << >>
  BY <1>1 DEF Contents
<1> QED
  BY <1>1, <1>2 DEF Queue!DropBuf

(* For every length the array implements a bounded first-in-first-out queue. *)
THEOREM ImplementsRingBuf == Spec => IsRingBuf
<1>1. Init => Queue!Init
  BY EmptyContents DEF Init, Queue!Init
<1>2. IInv /\ [Next]_vars => [Queue!Next]_(Queue!vars)
  <2> SUFFICES ASSUME IInv, [Next]_vars PROVE [Queue!Next]_(Queue!vars)
    OBVIOUS
  <2>1. CASE \E value \in Values : Push(value)
    BY <2>1, PushRefines DEF Queue!Next
  <2>2. CASE Pop
    BY <2>2, PopRefines DEF Queue!Next
  <2>3. CASE DropBuf
    BY <2>3, DropBufRefines DEF Queue!Next
  <2>4. CASE UNCHANGED vars
    BY <2>4 DEF vars, Queue!vars, Contents, Cell
  <2> QED
    BY <2>1, <2>2, <2>3, <2>4 DEF Next
<1> QED
  BY <1>1, <1>2, Invariance, PTL DEF Spec, IsRingBuf, Queue!Spec

-----------------------------------------------------------------------------
(***************************************************************************)
(* The intrusive list.  At(q, i) is what a pointer to the i-th node of the *)
(* sequence q holds, None beyond either end.                               *)
(***************************************************************************)
Q == INSTANCE WaitQueueLemmas

At(q, i) == IF i \in 1..Len(q) THEN q[i] ELSE NoNode

LEMMA AtProperties ==
  ASSUME NEW q \in Seq(ListNodes)
  PROVE  /\ Len(q) \in Nat
         /\ \A i \in 1..Len(q) : At(q, i) = q[i] /\ q[i] \in ListNodes
         /\ \A i \in Int : i \notin 1..Len(q) => At(q, i) = NoNode
         /\ \A i \in Int : At(q, i) # NoNode => i \in 1..Len(q)
         /\ \A i \in Int : At(q, i) \in ListNodes \cup {NoNode}
<1>1. Len(q) \in Nat /\ \A i \in 1..Len(q) : q[i] \in ListNodes
  BY LenProperties, ElementOfSeq
<1> QED
  BY <1>1, ListAssumption DEF At

(* A sequence of different nodes is no longer than there are nodes. *)
LEMMA DistinctLen ==
  ASSUME NEW q \in Seq(ListNodes), Q!Distinct(q)
  PROVE  /\ Cardinality(ListNodes) \in Nat
         /\ Len(q) <= Cardinality(ListNodes)
         /\ Cardinality(1..Len(q)) = Len(q)
<1> DEFINE f == [i \in 1..Len(q) |-> q[i]]
<1>1. Len(q) \in Nat
  BY LenProperties
<1>2. IsFiniteSet(ListNodes) /\ Cardinality(ListNodes) \in Nat
  BY ListAssumption, FS_CardinalityType
<1>3. f \in [1..Len(q) -> ListNodes] /\ \A i, j \in 1..Len(q) : f[i] = f[j] => i = j
  BY <1>1, ElementOfSeq DEF Q!Distinct
<1>4. f \in Injection(1..Len(q), ListNodes)
  BY <1>3 DEF Injection, IsInjective
<1>5. Cardinality(1..Len(q)) <= Cardinality(ListNodes)
  BY <1>2, <1>4, FS_Injection
<1>6. Cardinality(1..Len(q)) = Len(q)
  BY <1>1, FS_Interval
<1> QED
  BY <1>2, <1>5, <1>6

(***************************************************************************)
(* Pointers that lead from each node of q to the one behind it lead        *)
(* through q, and end there.                                               *)
(***************************************************************************)
Along(f, n, ptrs, N) ==
  [k \in 0..N |-> IF k = 0 THEN n
                  ELSE IF f[k - 1] = NoNode THEN NoNode
                  ELSE ptrs[f[k - 1]]]

Path(q, N) == [k \in 0..N |-> At(q, k + 1)]

LEMMA AlongExists ==
  ASSUME NEW q \in Seq(ListNodes), NEW n, NEW ptrs, NEW N \in Nat,
         n = At(q, 1), \A i \in 1..Len(q) : ptrs[q[i]] = At(q, i + 1)
  PROVE  Path(q, N) = Along(Path(q, N), n, ptrs, N)
<1> DEFINE g == [k \in 0..N |-> At(q, k + 1)]
<1>1. ASSUME NEW k \in 0..N
      PROVE  g[k] = IF k = 0 THEN n
                    ELSE IF g[k - 1] = NoNode THEN NoNode ELSE ptrs[g[k - 1]]
  <2>1. CASE k = 0
    BY <2>1
  <2>2. CASE k # 0
    <3>1. k - 1 \in 0..N /\ k \in Nat /\ k - 1 + 1 = k
      BY <2>2
    <3>2. g[k] = At(q, k + 1) /\ g[k - 1] = At(q, k)
      BY <3>1
    <3>3. CASE k \in 1..Len(q)
      <4>1. At(q, k) = q[k] /\ q[k] # NoNode
        BY <3>3, AtProperties, ListAssumption
      <4> QED
        BY <2>2, <3>2, <3>3, <4>1
    <3>4. CASE k \notin 1..Len(q)
      <4>1. k + 1 \notin 1..Len(q) /\ k \in Int /\ k + 1 \in Int
        BY <2>2, <3>1, <3>4, AtProperties
      <4>2. At(q, k) = NoNode /\ At(q, k + 1) = NoNode
        BY <3>4, <4>1, AtProperties
      <4> QED
        BY <2>2, <3>2, <4>2
    <3> QED
      BY <3>3, <3>4
  <2> QED
    BY <2>1, <2>2
<1> DEFINE h == [k \in 0..N |-> g[k]]
<1>2. g = h
  OBVIOUS
<1> HIDE DEF g
<1>3. h = Along(g, n, ptrs, N)
  BY <1>1 DEF Along
<1> HIDE DEF h
<1>4. g = Along(g, n, ptrs, N)
  BY <1>2, <1>3
<1> QED
  BY <1>4 DEF g, Path

LEMMA AlongUnique ==
  ASSUME NEW n, NEW ptrs, NEW N \in Nat, NEW f, NEW g,
         f = Along(f, n, ptrs, N), g = Along(g, n, ptrs, N)
  PROVE  f = g
<1> DEFINE T == {k \in Nat : k \in 0..N => f[k] = g[k]}
<1>1. /\ DOMAIN f = 0..N /\ DOMAIN g = 0..N
      /\ f = [k \in 0..N |-> f[k]] /\ g = [k \in 0..N |-> g[k]]
  BY DEF Along
<1>2. \A k \in 0..N :
        /\ f[k] = IF k = 0 THEN n
                  ELSE IF f[k - 1] = NoNode THEN NoNode ELSE ptrs[f[k - 1]]
        /\ g[k] = IF k = 0 THEN n
                  ELSE IF g[k - 1] = NoNode THEN NoNode ELSE ptrs[g[k - 1]]
  BY DEF Along
<1>3. 0 \in T
  BY <1>2
<1>4. ASSUME NEW k \in Nat, k \in T PROVE k + 1 \in T
  <2>1. SUFFICES ASSUME k + 1 \in 0..N PROVE f[k + 1] = g[k + 1]
    OBVIOUS
  <2>2. k \in 0..N /\ k + 1 # 0 /\ k + 1 - 1 = k
    BY <2>1
  <2>3. f[k] = g[k]
    BY <1>4, <2>2
  <2> QED
    BY <1>2, <2>1, <2>2, <2>3
<1>5. Nat \subseteq T
  <2> HIDE DEF T
  <2> QED
    BY <1>3, <1>4, Q!NatSetInduction
<1>6. \A k \in 0..N : f[k] = g[k]
  BY <1>5
<1> QED
  BY <1>1, <1>6

LEMMA WalkIs ==
  ASSUME NEW q \in Seq(ListNodes), Q!Distinct(q), NEW n, NEW ptrs,
         n = At(q, 1), \A i \in 1..Len(q) : ptrs[q[i]] = At(q, i + 1)
  PROVE  Walk(n, ptrs) = q
<1> DEFINE N == Cardinality(ListNodes)
           at == CHOOSE f : f = Along(f, n, ptrs, N)
           g == Path(q, N)
<1>1. N \in Nat /\ Len(q) \in Nat /\ Len(q) <= N
  BY DistinctLen, LenProperties
<1>2. Walk(n, ptrs) =
        [i \in 1..Cardinality({k \in 1..N : at[k - 1] # NoNode}) |-> at[i - 1]]
  BY DEF Walk, Along
<1> HIDE DEF N
<1>3. g = Along(g, n, ptrs, N)
  BY <1>1, AlongExists
<1>4. at = Along(at, n, ptrs, N)
  BY <1>3
<1> HIDE DEF at, g
<1>5. at = g
  BY <1>1, <1>3, <1>4, AlongUnique
<1>6. ASSUME NEW k \in 1..N PROVE at[k - 1] = At(q, k)
  <2>1. k - 1 \in 0..N /\ k - 1 + 1 = k
    BY <1>1
  <2> QED
    BY <1>5, <2>1 DEF g, Path
<1>7. {k \in 1..N : at[k - 1] # NoNode} = 1..Len(q)
  <2>1. \A k \in 1..N : At(q, k) # NoNode <=> k \in 1..Len(q)
    BY <1>1, AtProperties, ListAssumption
  <2> QED
    BY <1>1, <1>6, <2>1
<1>8. Cardinality(1..Len(q)) = Len(q)
  BY DistinctLen
<1>9. \A i \in 1..Len(q) : at[i - 1] = q[i]
  BY <1>1, <1>6, AtProperties
<1>10. Walk(n, ptrs) = [i \in 1..Len(q) |-> q[i]]
  BY <1>2, <1>7, <1>8, <1>9
<1> QED
  BY <1>10, LenProperties

(***************************************************************************)
(* The pointers hold the sequence q of different nodes, from the tail to   *)
(* the head, and those of the other nodes are cleared.                     *)
(***************************************************************************)
Represents(q) ==
  /\ q \in Seq(ListNodes)
  /\ Q!Distinct(q)
  /\ head = At(q, Len(q))
  /\ tail = At(q, 1)
  /\ prev \in [ListNodes -> ListNodes \cup {NoNode}]
  /\ next \in [ListNodes -> ListNodes \cup {NoNode}]
  /\ \A i \in 1..Len(q) : prev[q[i]] = At(q, i + 1) /\ next[q[i]] = At(q, i - 1)
  /\ \A n \in ListNodes :
       n \notin Q!Nodes(q) => prev[n] = NoNode /\ next[n] = NoNode

ListInv == ~list_panicked /\ \E q \in Seq(ListNodes) : Represents(q)

Backwards(q) == [i \in 1..Len(q) |-> q[Len(q) + 1 - i]]

LEMMA BackwardsProperties ==
  ASSUME NEW q \in Seq(ListNodes)
  PROVE  /\ Backwards(q) \in Seq(ListNodes)
         /\ Len(Backwards(q)) = Len(q)
         /\ \A i \in 1..Len(q) : Backwards(q)[i] = q[Len(q) + 1 - i]
         /\ \A i \in Int : At(Backwards(q), i) = At(q, Len(q) + 1 - i)
         /\ Q!Nodes(Backwards(q)) = Q!Nodes(q)
         /\ Q!Distinct(q) => Q!Distinct(Backwards(q))
<1> DEFINE r == Backwards(q)
<1>1. Len(q) \in Nat /\ \A i \in 1..Len(q) : q[i] \in ListNodes
  BY LenProperties, ElementOfSeq
<1>2. \A i \in 1..Len(q) : Len(q) + 1 - i \in 1..Len(q)
  BY <1>1
<1>3. /\ r \in [1..Len(q) -> ListNodes]
      /\ \A i \in 1..Len(q) : r[i] = q[Len(q) + 1 - i]
  BY <1>1, <1>2 DEF Backwards
<1> HIDE DEF r
<1>4. r \in Seq(ListNodes)
  BY <1>1, <1>3, SeqDef
<1>5. Len(r) = Len(q)
  BY <1>1, <1>3, <1>4, LenProperties
<1>6. ASSUME NEW i \in Int PROVE At(r, i) = At(q, Len(q) + 1 - i)
  <2>1. i \in 1..Len(q) <=> Len(q) + 1 - i \in 1..Len(q)
    BY <1>1
  <2> QED
    BY <1>3, <1>5, <2>1 DEF At
<1>7. Q!Nodes(r) = Q!Nodes(q)
  <2>1. \A i \in 1..Len(q) : r[i] \in Q!Nodes(q)
    BY <1>2, <1>3 DEF Q!Nodes
  <2>2. ASSUME NEW i \in 1..Len(q) PROVE q[i] \in Q!Nodes(r)
    <3>1. PICK j \in 1..Len(q) : j = Len(q) + 1 - i
      BY <1>2
    <3>2. Len(q) + 1 - j = i
      BY <1>1, <3>1
    <3>3. r[j] = q[i]
      BY <1>3, <3>2
    <3> QED
      BY <1>5, <3>3 DEF Q!Nodes
  <2> QED
    BY <1>5, <2>1, <2>2 DEF Q!Nodes
<1>8. ASSUME Q!Distinct(q) PROVE Q!Distinct(r)
  <2> SUFFICES ASSUME NEW i \in 1..Len(q), NEW j \in 1..Len(q), r[i] = r[j]
               PROVE  i = j
    BY <1>5 DEF Q!Distinct
  <2>1. q[Len(q) + 1 - i] = q[Len(q) + 1 - j]
    BY <1>3
  <2>2. Len(q) + 1 - i = Len(q) + 1 - j
    BY <1>2, <1>8, <2>1 DEF Q!Distinct
  <2> QED
    BY <1>1, <2>2
<1> QED
  BY <1>3, <1>4, <1>5, <1>6, <1>7, <1>8 DEF r

(* Reading the list in either direction. *)
LEMMA ReadsAs ==
  ASSUME NEW q, Represents(q)
  PROVE  /\ Walk(tail, prev) = q
         /\ Walk(head, next) = Backwards(q)
         /\ \A n : Linked(n) <=> n \in Q!Nodes(q)
<1>1. q \in Seq(ListNodes) /\ Q!Distinct(q)
  BY DEF Represents
<1>2. Len(q) \in Nat
  BY <1>1, LenProperties
<1>3. Walk(tail, prev) = q
  BY <1>1, WalkIs DEF Represents
<1>4. Walk(head, next) = Backwards(q)
  <2> DEFINE r == Backwards(q)
  <2>1. /\ r \in Seq(ListNodes) /\ Q!Distinct(r) /\ Len(r) = Len(q)
        /\ \A i \in 1..Len(q) : r[i] = q[Len(q) + 1 - i]
        /\ \A i \in Int : At(r, i) = At(q, Len(q) + 1 - i)
    BY <1>1, BackwardsProperties
  <2> HIDE DEF r
  <2>2. head = At(r, 1)
    <3>1. Len(q) + 1 - 1 = Len(q)
      BY <1>2
    <3> QED
      BY <2>1, <3>1 DEF Represents
  <2>3. ASSUME NEW i \in 1..Len(r) PROVE next[r[i]] = At(r, i + 1)
    <3>1. PICK j \in 1..Len(q) : j = Len(q) + 1 - i
      BY <1>2, <2>1
    <3>2. r[i] = q[j] /\ next[q[j]] = At(q, j - 1)
      BY <2>1, <3>1 DEF Represents
    <3>3. j - 1 = Len(q) + 1 - (i + 1) /\ i + 1 \in Int
      BY <1>2, <2>1, <3>1
    <3>4. At(r, i + 1) = At(q, Len(q) + 1 - (i + 1))
      BY <2>1, <3>3
    <3> QED
      BY <3>2, <3>3, <3>4
  <2>4. Walk(head, next) = r
    BY <2>1, <2>2, <2>3, WalkIs
  <2> QED
    BY <2>4 DEF r
<1>5. \A n : Linked(n) <=> n \in Q!Nodes(Backwards(q))
  BY <1>4 DEF Linked, Q!Nodes
<1> QED
  BY <1>1, <1>3, <1>4, <1>5, BackwardsProperties

(* The pointers of a linked node, and what they say of the others. *)
LEMMA ListSound ==
  ASSUME ListInv
  PROVE  ListIsSound
<1>1. PICK q \in Seq(ListNodes) : Represents(q)
  BY DEF ListInv
<1>2. /\ Len(q) \in Nat
      /\ \A i \in 1..Len(q) : At(q, i) = q[i] /\ q[i] \in ListNodes
      /\ \A i \in Int : i \notin 1..Len(q) => At(q, i) = NoNode
      /\ \A i \in Int : At(q, i) # NoNode => i \in 1..Len(q)
  BY AtProperties
<1>3. \A n : Linked(n) <=> n \in Q!Nodes(q)
  BY <1>1, ReadsAs
<1>4. \A i \in 1..Len(q) : q[i] # NoNode
  BY <1>2, ListAssumption
<1>5. head = NoNode <=> tail = NoNode
  <2>1. head = NoNode <=> Len(q) = 0
    BY <1>1, <1>2, <1>4 DEF Represents
  <2>2. tail = NoNode <=> Len(q) = 0
    BY <1>1, <1>2, <1>4 DEF Represents
  <2> QED
    BY <2>1, <2>2
<1>6. ASSUME NEW i \in 1..Len(q)
      PROVE  /\ next[q[i]] # NoNode => prev[next[q[i]]] = q[i]
             /\ prev[q[i]] # NoNode => next[prev[q[i]]] = q[i]
             /\ prev[q[i]] # NoNode \/ head = q[i]
             /\ next[q[i]] # NoNode \/ tail = q[i]
  <2>1. prev[q[i]] = At(q, i + 1) /\ next[q[i]] = At(q, i - 1)
    BY <1>1 DEF Represents
  <2>2. ASSUME next[q[i]] # NoNode PROVE prev[next[q[i]]] = q[i]
    <3>1. i - 1 \in 1..Len(q) /\ next[q[i]] = q[i - 1] /\ i - 1 + 1 = i
      BY <1>2, <2>1, <2>2
    <3>2. prev[q[i - 1]] = At(q, i - 1 + 1)
      BY <1>1, <3>1 DEF Represents
    <3> QED
      BY <1>2, <3>1, <3>2
  <2>3. ASSUME prev[q[i]] # NoNode PROVE next[prev[q[i]]] = q[i]
    <3>1. i + 1 \in 1..Len(q) /\ prev[q[i]] = q[i + 1] /\ i + 1 - 1 = i
      BY <1>2, <2>1, <2>3
    <3>2. next[q[i + 1]] = At(q, i + 1 - 1)
      BY <1>1, <3>1 DEF Represents
    <3> QED
      BY <1>2, <3>1, <3>2
  <2>4. ASSUME prev[q[i]] = NoNode PROVE head = q[i]
    <3>1. i + 1 \notin 1..Len(q)
      BY <1>2, <1>4, <2>1, <2>4
    <3>2. i = Len(q)
      BY <1>2, <3>1
    <3> QED
      BY <1>1, <1>2, <3>2 DEF Represents
  <2>5. ASSUME next[q[i]] = NoNode PROVE tail = q[i]
    <3>1. i - 1 \notin 1..Len(q)
      BY <1>2, <1>4, <2>1, <2>5
    <3>2. i = 1
      BY <1>2, <3>1
    <3> QED
      BY <1>1, <1>2, <3>2 DEF Represents
  <2> QED
    BY <2>2, <2>3, <2>4, <2>5
<1>7. ASSUME NEW n \in ListNodes, n \notin Q!Nodes(q)
      PROVE  prev[n] = NoNode /\ next[n] = NoNode /\ head # n /\ tail # n
  <2>1. prev[n] = NoNode /\ next[n] = NoNode
    BY <1>1, <1>7 DEF Represents
  <2>2. n # NoNode /\ \A i \in 1..Len(q) : n # q[i]
    BY <1>7, ListAssumption DEF Q!Nodes
  <2> QED
    BY <1>1, <2>1, <2>2 DEF Represents, At
<1>8. ASSUME NEW n \in ListNodes
      PROVE  /\ next[n] # NoNode => prev[next[n]] = n
             /\ prev[n] # NoNode => next[prev[n]] = n
             /\ Linked(n) <=> prev[n] # NoNode \/ head = n
             /\ Linked(n) <=> next[n] # NoNode \/ tail = n
  <2>1. CASE n \in Q!Nodes(q)
    <3>1. PICK i \in 1..Len(q) : n = q[i]
      BY <2>1 DEF Q!Nodes
    <3> QED
      BY <1>3, <1>6, <2>1, <3>1
  <2>2. CASE n \notin Q!Nodes(q)
    BY <1>3, <1>7, <2>2
  <2> QED
    BY <2>1, <2>2
<1> QED
  BY <1>5, <1>8 DEF ListInv, ListIsSound

-----------------------------------------------------------------------------
LEMMA EmptyRepresents ==
  ASSUME head = NoNode, tail = NoNode,
         prev = [n \in ListNodes |-> NoNode], next = [n \in ListNodes |-> NoNode]
  PROVE  Represents(<< >>)
<1>1. << >> \in Seq(ListNodes) /\ Len(<< >>) = 0 /\ Q!Distinct(<< >>)
  BY DEF Q!Distinct
<1> QED
  BY <1>1 DEF Represents, At

LEMMA AddFrontRepresents ==
  ASSUME NEW q, Represents(q), NEW n \in ListNodes, AddFront(n)
  PROVE  Represents(Append(q, n))'
<1> DEFINE p == Append(q, n)
           L == Len(q)
<1>1. /\ q \in Seq(ListNodes) /\ L \in Nat
      /\ \A i \in 1..L : At(q, i) = q[i] /\ q[i] \in ListNodes
      /\ \A i \in Int : i \notin 1..L => At(q, i) = NoNode
  BY AtProperties DEF Represents
<1>2. n \notin Q!Nodes(q)
  BY ReadsAs DEF AddFront
<1>3. /\ p \in Seq(ListNodes) /\ Len(p) = L + 1
      /\ \A i \in 1..L : p[i] = q[i]
      /\ p[L + 1] = n
      /\ Q!Nodes(p) = Q!Nodes(q) \cup {n}
      /\ Q!Distinct(p)
  <2>1. Q!Distinct(q)
    BY DEF Represents
  <2> QED
    BY <1>1, <1>2, <2>1, Q!AddFrontProperties DEF Q!AddFront
<1>4. /\ head = At(q, L) /\ tail = At(q, 1)
      /\ head \in ListNodes \cup {NoNode}
      /\ prev \in [ListNodes -> ListNodes \cup {NoNode}]
      /\ next \in [ListNodes -> ListNodes \cup {NoNode}]
      /\ \A i \in 1..L : prev[q[i]] = At(q, i + 1) /\ next[q[i]] = At(q, i - 1)
      /\ \A m \in ListNodes :
           m \notin Q!Nodes(q) => prev[m] = NoNode /\ next[m] = NoNode
  BY <1>1, AtProperties DEF Represents
<1> HIDE DEF p, L
<1>5. /\ \A i \in 1..L : At(p, i) = q[i]
      /\ At(p, L + 1) = n
      /\ \A i \in Int : i \notin 1..(L + 1) => At(p, i) = NoNode
  BY <1>1, <1>3 DEF At
<1>6. head # n /\ \A i \in 1..L : q[i] # n
  <2>1. \A i \in 1..L : q[i] # n
    BY <1>2 DEF Q!Nodes, L
  <2> QED
    BY <1>1, <1>4, <2>1, ListAssumption
<1>7. /\ next' \in [ListNodes -> ListNodes \cup {NoNode}]
      /\ \A m \in ListNodes : next'[m] = IF m = n THEN head ELSE next[m]
  BY <1>4 DEF AddFront
<1>8. /\ prev' \in [ListNodes -> ListNodes \cup {NoNode}]
      /\ \A m \in ListNodes :
           prev'[m] = IF m = head THEN n ELSE IF m = n THEN NoNode ELSE prev[m]
  <2> DEFINE e == [prev EXCEPT ![n] = NoNode]
  <2>1. /\ e \in [ListNodes -> ListNodes \cup {NoNode}]
        /\ \A m \in ListNodes : e[m] = IF m = n THEN NoNode ELSE prev[m]
    BY <1>4
  <2>2. prev' = Set(e, head, n)
    BY DEF AddFront
  <2> HIDE DEF e
  <2>3. /\ Set(e, head, n) \in [ListNodes -> ListNodes \cup {NoNode}]
        /\ \A m \in ListNodes :
             Set(e, head, n)[m] = IF m = head THEN n ELSE e[m]
    BY <1>4, <2>1, ListAssumption DEF Set
  <2> QED
    BY <2>1, <2>2, <2>3
<1>9. head' = At(p, Len(p))
  BY <1>3, <1>5 DEF AddFront
<1>10. tail' = At(p, 1)
  <2>1. CASE L = 0
    BY <1>1, <1>4, <1>5, <2>1 DEF AddFront
  <2>2. CASE L # 0
    <3>1. 1 \in 1..L
      BY <1>1, <2>2
    <3>2. tail = q[1] /\ tail # NoNode
      BY <1>1, <1>4, <3>1, ListAssumption
    <3> QED
      BY <1>5, <3>1, <3>2 DEF AddFront
  <2> QED
    BY <2>1, <2>2
<1>11. ASSUME NEW i \in 1..L
       PROVE  prev'[q[i]] = At(p, i + 1) /\ next'[q[i]] = At(p, i - 1)
  <2>1. q[i] \in ListNodes /\ q[i] # n
    BY <1>1, <1>6
  <2>2. next'[q[i]] = At(p, i - 1)
    <3>1. next'[q[i]] = At(q, i - 1)
      BY <1>4, <1>7, <2>1
    <3>2. CASE i = 1
      BY <1>1, <1>5, <3>1, <3>2
    <3>3. CASE i # 1
      <4>1. i - 1 \in 1..L
        BY <1>1, <3>3
      <4> QED
        BY <1>1, <1>5, <3>1, <4>1
    <3> QED
      BY <3>2, <3>3
  <2>3. CASE i = L
    <3>1. head = q[i]
      BY <1>1, <1>4, <2>3
    <3> QED
      BY <1>5, <1>8, <2>1, <2>2, <2>3, <3>1
  <2>4. CASE i # L
    <3>1. i + 1 \in 1..L /\ L \in 1..L
      BY <1>1, <2>4
    <3>2. head # q[i]
      <4>1. head = q[L]
        BY <1>1, <1>4, <3>1
      <4>2. Q!Distinct(q)
        BY DEF Represents
      <4> QED
        BY <2>4, <3>1, <4>1, <4>2 DEF Q!Distinct, L
    <3>3. prev'[q[i]] = At(q, i + 1)
      BY <1>4, <1>8, <2>1, <3>2
    <3> QED
      BY <1>1, <1>5, <2>2, <3>1, <3>3
  <2> QED
    BY <2>3, <2>4
<1>12. prev'[n] = At(p, L + 1 + 1) /\ next'[n] = At(p, L + 1 - 1)
  <2>1. prev'[n] = NoNode /\ next'[n] = At(q, L)
    BY <1>4, <1>6, <1>7, <1>8
  <2>2. At(p, L + 1 + 1) = NoNode
    BY <1>1, <1>5
  <2>3. L + 1 - 1 = L
    BY <1>1
  <2>4. At(p, L) = At(q, L)
    BY <1>1, <1>5
  <2> QED
    BY <2>1, <2>2, <2>3, <2>4
<1>13. \A i \in 1..Len(p) :
         prev'[p[i]] = At(p, i + 1) /\ next'[p[i]] = At(p, i - 1)
  <2>1. \A i \in 1..Len(p) : i \in 1..L \/ i = L + 1
    BY <1>1, <1>3
  <2> QED
    <3> SUFFICES ASSUME NEW i \in 1..Len(p)
                 PROVE  prev'[p[i]] = At(p, i + 1) /\ next'[p[i]] = At(p, i - 1)
      OBVIOUS
    <3>1. CASE i \in 1..L
      BY <1>3, <1>11, <3>1
    <3>2. CASE i = L + 1
      <4>1. p[i] = n
        BY <1>3, <3>2
      <4>2. i + 1 = L + 1 + 1 /\ i - 1 = L + 1 - 1
        BY <1>1, <3>2
      <4> QED
        BY <1>12, <4>1, <4>2
    <3> QED
      BY <2>1, <3>1, <3>2
<1>14. ASSUME NEW m \in ListNodes, m \notin Q!Nodes(p)
       PROVE  prev'[m] = NoNode /\ next'[m] = NoNode
  <2>1. m # n /\ m \notin Q!Nodes(q)
    BY <1>3, <1>14
  <2>2. m # head
    <3>1. \A i \in 1..L : m # q[i]
      BY <2>1 DEF Q!Nodes, L
    <3> QED
      BY <1>4, <3>1, ListAssumption DEF At, L
  <2> QED
    BY <1>4, <1>7, <1>8, <2>1, <2>2
<1> QED
  BY <1>3, <1>7, <1>8, <1>9, <1>10, <1>13, <1>14 DEF Represents, p

(* The k-th node is taken out and its neighbours are linked to each other. *)
LEMMA UnlinkRepresents ==
  ASSUME NEW q, Represents(q), NEW k \in 1..Len(q),
         NEW p \in Seq(ListNodes), Len(p) = Len(q) - 1, Q!Distinct(p),
         Q!Nodes(p) = Q!Nodes(q) \ {q[k]},
         \A i \in 1..(Len(q) - 1) : p[i] = IF i < k THEN q[i] ELSE q[i + 1],
         head' = IF k = Len(q) THEN At(q, k - 1) ELSE head,
         tail' = IF k = 1 THEN At(q, 2) ELSE tail,
         next' = [Set(next, At(q, k + 1), At(q, k - 1)) EXCEPT ![q[k]] = NoNode],
         prev' = [Set(prev, At(q, k - 1), At(q, k + 1)) EXCEPT ![q[k]] = NoNode]
  PROVE  Represents(p)'
<1> DEFINE L == Len(q)
<1>1. /\ q \in Seq(ListNodes) /\ L \in Nat /\ Q!Distinct(q)
      /\ \A i \in 1..L : At(q, i) = q[i] /\ q[i] \in ListNodes
      /\ \A i \in Int : i \notin 1..L => At(q, i) = NoNode
      /\ \A i \in Int : At(q, i) \in ListNodes \cup {NoNode}
  BY AtProperties DEF Represents
<1>2. /\ head = At(q, L) /\ tail = At(q, 1)
      /\ prev \in [ListNodes -> ListNodes \cup {NoNode}]
      /\ next \in [ListNodes -> ListNodes \cup {NoNode}]
      /\ \A i \in 1..L : prev[q[i]] = At(q, i + 1) /\ next[q[i]] = At(q, i - 1)
      /\ \A m \in ListNodes :
           m \notin Q!Nodes(q) => prev[m] = NoNode /\ next[m] = NoNode
  BY DEF Represents
<1>3. \A i, j \in 1..L : q[i] = q[j] => i = j
  BY <1>1 DEF Q!Distinct
<1>4. k \in 1..L /\ k + 1 \in Int /\ k - 1 \in Int /\ k \in Int
  BY <1>1
<1> HIDE DEF L
<1>5. /\ \A i \in 1..(L - 1) : i < k => At(p, i) = q[i] /\ p[i] = q[i]
      /\ \A i \in 1..(L - 1) : ~(i < k) => At(p, i) = q[i + 1] /\ p[i] = q[i + 1]
      /\ \A i \in Int : i \notin 1..(L - 1) => At(p, i) = NoNode
  BY <1>1, <1>4 DEF At, L
<1>6. /\ next' \in [ListNodes -> ListNodes \cup {NoNode}]
      /\ \A m \in ListNodes :
           next'[m] = IF m = q[k] THEN NoNode
                      ELSE IF m = At(q, k + 1) THEN At(q, k - 1) ELSE next[m]
  <2> DEFINE e == Set(next, At(q, k + 1), At(q, k - 1))
  <2>1. /\ e \in [ListNodes -> ListNodes \cup {NoNode}]
        /\ \A m \in ListNodes :
             e[m] = IF m = At(q, k + 1) THEN At(q, k - 1) ELSE next[m]
    <3>1. /\ At(q, k + 1) \in ListNodes \cup {NoNode}
          /\ At(q, k - 1) \in ListNodes \cup {NoNode}
      BY <1>1, <1>4
    <3> QED
      BY <1>2, <3>1, ListAssumption DEF Set
  <2>2. next' = [e EXCEPT ![q[k]] = NoNode]
    OBVIOUS
  <2> HIDE DEF e
  <2> QED
    BY <1>1, <1>4, <2>1, <2>2
<1>7. /\ prev' \in [ListNodes -> ListNodes \cup {NoNode}]
      /\ \A m \in ListNodes :
           prev'[m] = IF m = q[k] THEN NoNode
                      ELSE IF m = At(q, k - 1) THEN At(q, k + 1) ELSE prev[m]
  <2> DEFINE e == Set(prev, At(q, k - 1), At(q, k + 1))
  <2>1. /\ e \in [ListNodes -> ListNodes \cup {NoNode}]
        /\ \A m \in ListNodes :
             e[m] = IF m = At(q, k - 1) THEN At(q, k + 1) ELSE prev[m]
    <3>1. /\ At(q, k + 1) \in ListNodes \cup {NoNode}
          /\ At(q, k - 1) \in ListNodes \cup {NoNode}
      BY <1>1, <1>4
    <3> QED
      BY <1>2, <3>1, ListAssumption DEF Set
  <2>2. prev' = [e EXCEPT ![q[k]] = NoNode]
    OBVIOUS
  <2> HIDE DEF e
  <2> QED
    BY <1>1, <1>4, <2>1, <2>2
<1>8. head' = At(p, L - 1)
  <2>1. CASE k = L
    <3>1. head' = At(q, L - 1)
      BY <2>1 DEF L
    <3>2. CASE L = 1
      BY <1>1, <1>5, <3>1, <3>2
    <3>3. CASE L # 1
      <4>1. L - 1 \in 1..(L - 1) /\ L - 1 < k /\ L - 1 \in 1..L
        BY <1>1, <1>4, <2>1, <3>3
      <4> QED
        BY <1>1, <1>5, <3>1, <4>1
    <3> QED
      BY <3>2, <3>3
  <2>2. CASE k # L
    <3>1. L - 1 \in 1..(L - 1) /\ ~(L - 1 < k) /\ L - 1 + 1 = L /\ L \in 1..L
      BY <1>1, <1>4, <2>2
    <3>2. head' = q[L]
      BY <1>1, <1>2, <2>2, <3>1 DEF L
    <3> QED
      BY <1>5, <3>1, <3>2
  <2> QED
    BY <2>1, <2>2
<1>9. tail' = At(p, 1)
  <2>1. CASE L = 1
    <3>1. k = 1 /\ 2 \notin 1..L /\ 1 \notin 1..(L - 1)
      BY <1>4, <2>1
    <3> QED
      BY <1>1, <1>5, <3>1
  <2>2. CASE L # 1
    <3>1. 1 \in 1..(L - 1) /\ 1 \in 1..L /\ 2 \in 1..L /\ 1 + 1 = 2
      BY <1>1, <1>4, <2>2
    <3>2. CASE k = 1
      BY <1>1, <1>5, <3>1, <3>2
    <3>3. CASE k # 1
      <4>1. 1 < k
        BY <1>1, <1>4, <3>3
      <4> QED
        BY <1>1, <1>2, <1>5, <3>1, <3>3, <4>1
    <3> QED
      BY <3>2, <3>3
  <2> QED
    BY <2>1, <2>2
(* The neighbours of the node that was the j-th of q and is still linked. *)
<1>10. ASSUME NEW j \in 1..L, j # k
       PROVE  /\ next'[q[j]] = IF j = k + 1 THEN At(q, k - 1) ELSE At(q, j - 1)
              /\ prev'[q[j]] = IF j = k - 1 THEN At(q, k + 1) ELSE At(q, j + 1)
  <2>1. q[j] \in ListNodes /\ q[j] # q[k] /\ q[j] # NoNode
    BY <1>1, <1>3, <1>4, <1>10, ListAssumption
  <2>2. q[j] = At(q, k + 1) <=> j = k + 1
    BY <1>1, <1>3, <1>4, <2>1
  <2>3. q[j] = At(q, k - 1) <=> j = k - 1
    BY <1>1, <1>3, <1>4, <2>1
  <2> QED
    BY <1>2, <1>6, <1>7, <2>1, <2>2, <2>3
<1>11. ASSUME NEW i \in 1..(L - 1)
       PROVE  prev'[p[i]] = At(p, i + 1) /\ next'[p[i]] = At(p, i - 1)
  <2>1. CASE i < k
    <3>1. i \in 1..L /\ i # k /\ i # k + 1 /\ p[i] = q[i]
      BY <1>1, <1>4, <1>5, <2>1
    <3>2. next'[q[i]] = At(q, i - 1)
      BY <1>10, <3>1
    <3>3. At(q, i - 1) = At(p, i - 1)
      <4>1. CASE i = 1
        BY <1>1, <1>5, <4>1
      <4>2. CASE i # 1
        <5>1. i - 1 \in 1..(L - 1) /\ i - 1 \in 1..L /\ i - 1 < k
          BY <1>1, <1>4, <2>1, <4>2
        <5> QED
          BY <1>1, <1>5, <5>1
      <4> QED
        BY <4>1, <4>2
    <3>4. CASE i = k - 1
      <4>1. prev'[q[i]] = At(q, k + 1)
        BY <1>10, <3>1, <3>4
      <4>2. i + 1 = k /\ ~(i + 1 < k)
        BY <1>4, <3>4
      <4>3. At(p, k) = At(q, k + 1)
        <5>1. CASE k = L
          BY <1>1, <1>4, <1>5, <5>1
        <5>2. CASE k # L
          <6>1. k \in 1..(L - 1) /\ k + 1 \in 1..L /\ ~(k < k)
            BY <1>1, <1>4, <5>2
          <6> QED
            BY <1>1, <1>5, <6>1
        <5> QED
          BY <5>1, <5>2
      <4> QED
        BY <3>1, <3>2, <3>3, <4>1, <4>2, <4>3
    <3>5. CASE i # k - 1
      <4>1. prev'[q[i]] = At(q, i + 1)
        BY <1>10, <3>1, <3>5
      <4>2. i + 1 \in 1..(L - 1) /\ i + 1 \in 1..L /\ i + 1 < k
        BY <1>1, <1>4, <2>1, <3>5
      <4>3. At(p, i + 1) = At(q, i + 1)
        BY <1>1, <1>5, <4>2
      <4> QED
        BY <3>1, <3>2, <3>3, <4>1, <4>3
    <3> QED
      BY <3>4, <3>5
  <2>2. CASE ~(i < k)
    <3>1. /\ i + 1 \in 1..L /\ i + 1 # k /\ i + 1 # k - 1 /\ p[i] = q[i + 1]
          /\ i + 1 = k + 1 <=> i = k
      BY <1>1, <1>4, <1>5, <2>2
    <3>2. prev'[q[i + 1]] = At(q, i + 1 + 1)
      BY <1>10, <3>1
    <3>3. At(q, i + 1 + 1) = At(p, i + 1)
      <4>1. CASE i = L - 1
        <5>1. i + 1 + 1 \notin 1..L /\ i + 1 \notin 1..(L - 1)
          BY <1>1, <4>1
        <5> QED
          BY <1>1, <1>5, <5>1
      <4>2. CASE i # L - 1
        <5>1. i + 1 + 1 \in 1..L /\ i + 1 \in 1..(L - 1) /\ ~(i + 1 < k)
          BY <1>1, <1>4, <2>2, <4>2
        <5> QED
          BY <1>1, <1>5, <5>1
      <4> QED
        BY <4>1, <4>2
    <3>4. CASE i = k
      <4>1. next'[q[i + 1]] = At(q, k - 1)
        BY <1>10, <3>1, <3>4
      <4>2. At(q, k - 1) = At(p, k - 1)
        <5>1. CASE k = 1
          BY <1>1, <1>5, <5>1
        <5>2. CASE k # 1
          <6>1. k - 1 \in 1..(L - 1) /\ k - 1 \in 1..L /\ k - 1 < k
            BY <1>1, <1>4, <5>2
          <6> QED
            BY <1>1, <1>5, <6>1
        <5> QED
          BY <5>1, <5>2
      <4> QED
        BY <3>1, <3>2, <3>3, <3>4, <4>1, <4>2
    <3>5. CASE i # k
      <4>1. next'[q[i + 1]] = At(q, i + 1 - 1)
        BY <1>10, <3>1, <3>5
      <4>2. /\ i + 1 - 1 = i /\ i \in 1..L /\ i - 1 \in 1..(L - 1)
            /\ ~(i - 1 < k) /\ i - 1 + 1 = i
        BY <1>1, <1>4, <2>2, <3>5
      <4>3. At(p, i - 1) = q[i] /\ At(q, i) = q[i]
        BY <1>1, <1>5, <4>2
      <4> QED
        BY <3>1, <3>2, <3>3, <4>1, <4>2, <4>3
    <3> QED
      BY <3>4, <3>5
  <2> QED
    BY <2>1, <2>2
<1>12. ASSUME NEW m \in ListNodes, m \notin Q!Nodes(p)
       PROVE  prev'[m] = NoNode /\ next'[m] = NoNode
  <2>1. CASE m = q[k]
    BY <1>6, <1>7, <2>1
  <2>2. CASE m # q[k]
    <3>1. m \notin Q!Nodes(q)
      BY <1>12, <2>2
    <3>2. \A i \in 1..L : m # q[i]
      BY <3>1 DEF Q!Nodes, L
    <3>3. m # At(q, k + 1) /\ m # At(q, k - 1)
      BY <3>2, ListAssumption DEF At, L
    <3> QED
      BY <1>2, <1>6, <1>7, <2>2, <3>1, <3>3
  <2> QED
    BY <2>1, <2>2
<1>13. Len(p) = L - 1
  BY DEF L
<1> QED
  BY <1>6, <1>7, <1>8, <1>9, <1>11, <1>12, <1>13 DEF Represents

-----------------------------------------------------------------------------
(* Taking the k-th node out of a sequence. *)
Without(q, k, p) ==
  /\ p \in Seq(ListNodes) /\ Len(p) = Len(q) - 1 /\ Q!Distinct(p)
  /\ Q!Nodes(p) = Q!Nodes(q) \ {q[k]}
  /\ \A i \in 1..(Len(q) - 1) : p[i] = IF i < k THEN q[i] ELSE q[i + 1]

(* The pointers of the k-th node. *)
LEMMA PointersAt ==
  ASSUME NEW q, Represents(q), NEW k \in 1..Len(q)
  PROVE  /\ Len(q) \in Nat /\ q[k] \in ListNodes /\ q[k] # NoNode
         /\ prev[q[k]] = At(q, k + 1) /\ next[q[k]] = At(q, k - 1)
         /\ At(q, k + 1) = NoNode <=> k = Len(q)
         /\ At(q, k - 1) = NoNode <=> k = 1
         /\ head = q[k] <=> k = Len(q)
         /\ tail = q[k] <=> k = 1
<1>1. /\ q \in Seq(ListNodes) /\ Len(q) \in Nat /\ Q!Distinct(q)
      /\ \A i \in 1..Len(q) : At(q, i) = q[i] /\ q[i] \in ListNodes
      /\ \A i \in Int : i \notin 1..Len(q) => At(q, i) = NoNode
  BY AtProperties DEF Represents
<1>2. \A i \in 1..Len(q) : q[i] # NoNode
  BY <1>1, ListAssumption
<1>3. prev[q[k]] = At(q, k + 1) /\ next[q[k]] = At(q, k - 1)
  BY DEF Represents
<1>4. At(q, k + 1) = NoNode <=> k = Len(q)
  <2>1. k + 1 \in 1..Len(q) <=> k # Len(q)
    BY <1>1
  <2> QED
    BY <1>1, <1>2, <2>1
<1>5. At(q, k - 1) = NoNode <=> k = 1
  <2>1. k - 1 \in 1..Len(q) <=> k # 1
    BY <1>1
  <2> QED
    BY <1>1, <1>2, <2>1
<1>6. head = q[Len(q)] /\ tail = q[1] /\ 1 \in 1..Len(q) /\ Len(q) \in 1..Len(q)
  BY <1>1 DEF Represents
<1>7. /\ head = q[k] <=> k = Len(q)
      /\ tail = q[k] <=> k = 1
  BY <1>1, <1>6 DEF Q!Distinct
<1> QED
  BY <1>1, <1>2, <1>3, <1>4, <1>5, <1>7

LEMMA HeadTailAt ==
  ASSUME NEW q, Represents(q)
  PROVE  /\ q \in Seq(ListNodes) /\ Len(q) \in Nat
         /\ head = NoNode <=> Len(q) = 0
         /\ tail = NoNode <=> Len(q) = 0
         /\ Len(q) # 0 => head = q[Len(q)] /\ tail = q[1]
<1>1. /\ q \in Seq(ListNodes) /\ Len(q) \in Nat
      /\ \A i \in 1..Len(q) : q[i] \in ListNodes
  BY AtProperties DEF Represents
<1>2. Len(q) # 0 => 1 \in 1..Len(q) /\ Len(q) \in 1..Len(q)
  BY <1>1
<1>3. Len(q) = 0 => head = NoNode /\ tail = NoNode
  BY <1>1 DEF Represents, At
<1>4. Len(q) # 0 => head = q[Len(q)] /\ tail = q[1]
  BY <1>2 DEF Represents, At
<1> QED
  BY <1>1, <1>2, <1>3, <1>4, ListAssumption

(* remove_first takes the last of the sequence. *)
LEMMA RemoveFirstRepresents ==
  ASSUME NEW q, Represents(q), RemoveFirst, ~list_panicked,
         NEW p, Without(q, Len(q), p)
  PROVE  /\ Represents(p)' /\ ~list_panicked'
         /\ Len(q) \in 1..Len(q) /\ handed_out' = <<q[Len(q)]>>
<1> DEFINE k == Len(q)
<1>1. k \in 1..Len(q) /\ head = q[k]
  BY HeadTailAt DEF RemoveFirst
<1>2. /\ Len(q) \in Nat /\ q[k] \in ListNodes /\ q[k] # NoNode
      /\ prev[q[k]] = At(q, k + 1) /\ next[q[k]] = At(q, k - 1)
      /\ At(q, k + 1) = NoNode
      /\ At(q, k - 1) = NoNode <=> k = 1
      /\ tail = q[k] <=> k = 1
  BY <1>1, PointersAt
<1>3. head' = IF k = Len(q) THEN At(q, k - 1) ELSE head
  BY <1>1, <1>2 DEF RemoveFirst
<1>4. tail' = IF k = 1 THEN At(q, 2) ELSE tail
  <2>1. k = 1 => At(q, 2) = NoNode
    BY DEF At
  <2> QED
    BY <1>1, <1>2, <2>1 DEF RemoveFirst
<1>5. next' = [Set(next, At(q, k + 1), At(q, k - 1)) EXCEPT ![q[k]] = NoNode]
  BY <1>1, <1>2 DEF RemoveFirst, Set
<1>6. prev' = [Set(prev, At(q, k - 1), At(q, k + 1)) EXCEPT ![q[k]] = NoNode]
  BY <1>1, <1>2 DEF RemoveFirst
<1>7. ~list_panicked' /\ handed_out' = <<q[k]>>
  BY <1>1, <1>2 DEF RemoveFirst
<1>8. Represents(p)'
  <2> HIDE DEF k
  <2>1. Without(q, k, p)
    BY DEF k
  <2> QED
    BY <1>1, <1>3, <1>4, <1>5, <1>6, <2>1, UnlinkRepresents DEF Without
<1> QED
  BY <1>1, <1>7, <1>8

(* remove_last takes the first of the sequence. *)
LEMMA RemoveLastRepresents ==
  ASSUME NEW q, Represents(q), RemoveLast, ~list_panicked,
         NEW p, Without(q, 1, p)
  PROVE  /\ Represents(p)' /\ ~list_panicked'
         /\ 1 \in 1..Len(q) /\ handed_out' = <<q[1]>>
<1>1. 1 \in 1..Len(q) /\ tail = q[1]
  BY HeadTailAt DEF RemoveLast
<1>2. /\ Len(q) \in Nat /\ q[1] \in ListNodes /\ q[1] # NoNode
      /\ prev[q[1]] = At(q, 1 + 1) /\ next[q[1]] = At(q, 1 - 1)
      /\ At(q, 1 + 1) = NoNode <=> 1 = Len(q)
      /\ At(q, 1 - 1) = NoNode
      /\ head = q[1] <=> 1 = Len(q)
  BY <1>1, PointersAt
<1>3. head' = IF 1 = Len(q) THEN At(q, 1 - 1) ELSE head
  BY <1>1, <1>2 DEF RemoveLast
<1>4. tail' = IF 1 = 1 THEN At(q, 2) ELSE tail
  BY <1>1, <1>2 DEF RemoveLast
<1>5. next' = [Set(next, At(q, 1 + 1), At(q, 1 - 1)) EXCEPT ![q[1]] = NoNode]
  BY <1>1, <1>2 DEF RemoveLast
<1>6. prev' = [Set(prev, At(q, 1 - 1), At(q, 1 + 1)) EXCEPT ![q[1]] = NoNode]
  BY <1>1, <1>2 DEF RemoveLast, Set
<1>7. ~list_panicked' /\ handed_out' = <<q[1]>>
  BY <1>1, <1>2 DEF RemoveLast
<1>8. Represents(p)'
  BY <1>1, <1>3, <1>4, <1>5, <1>6, UnlinkRepresents DEF Without
<1> QED
  BY <1>1, <1>7, <1>8

(* remove of the k-th node of the sequence. *)
LEMMA RemoveLinkedRepresents ==
  ASSUME NEW q, Represents(q), NEW k \in 1..Len(q), RemoveLinked(q[k]),
         ~list_panicked, NEW p, Without(q, k, p)
  PROVE  Represents(p)' /\ ~list_panicked' /\ handed_out' = <<q[k]>>
<1>1. /\ Len(q) \in Nat /\ q[k] \in ListNodes /\ q[k] # NoNode
      /\ prev[q[k]] = At(q, k + 1) /\ next[q[k]] = At(q, k - 1)
      /\ At(q, k + 1) = NoNode <=> k = Len(q)
      /\ At(q, k - 1) = NoNode <=> k = 1
      /\ head = q[k] <=> k = Len(q)
      /\ tail = q[k] <=> k = 1
  BY PointersAt
<1>2. head' = IF k = Len(q) THEN At(q, k - 1) ELSE head
  BY <1>1 DEF RemoveLinked
<1>3. tail' = IF k = 1 THEN At(q, 2) ELSE tail
  BY <1>1 DEF RemoveLinked
<1>4. next' = [Set(next, At(q, k + 1), At(q, k - 1)) EXCEPT ![q[k]] = NoNode]
  BY <1>1 DEF RemoveLinked
<1>5. prev' = [Set(prev, At(q, k - 1), At(q, k + 1)) EXCEPT ![q[k]] = NoNode]
  BY <1>1 DEF RemoveLinked
<1>6. ListIsSound
  BY ListSound, HeadTailAt DEF ListInv
<1>7. ~list_panicked'
  BY <1>1, <1>6 DEF RemoveLinked, ListIsSound
<1>8. Represents(p)'
  BY <1>2, <1>3, <1>4, <1>5, UnlinkRepresents DEF Without
<1> QED
  BY <1>7, <1>8 DEF RemoveLinked

(* drain and reverse_drain hand out every node and clear it. *)
LEMMA EmptiedRepresents ==
  ASSUME NEW q, Represents(q), NEW visited, Q!Nodes(visited) = Q!Nodes(q),
         Emptied(visited)
  PROVE  Represents(<< >>)'
<1>1. head' = NoNode /\ tail' = NoNode
  BY DEF Emptied
<1>2. {visited[i] : i \in 1..Len(visited)} = Q!Nodes(q)
  BY DEF Q!Nodes
<1>3. \A n \in ListNodes :
        n \notin Q!Nodes(q) => prev[n] = NoNode /\ next[n] = NoNode
  BY DEF Represents
<1>4. /\ prev' = [n \in ListNodes |-> NoNode]
      /\ next' = [n \in ListNodes |-> NoNode]
  BY <1>2, <1>3 DEF Emptied
<1>5. << >> \in Seq(ListNodes) /\ Len(<< >>) = 0 /\ Q!Distinct(<< >>)
  BY DEF Q!Distinct
<1> QED
  BY <1>1, <1>4, <1>5 DEF Represents, At

-----------------------------------------------------------------------------
(* The sequences that remove and remove_last leave. *)
LEMMA RemoveIsWithout ==
  ASSUME NEW q \in Seq(ListNodes), Q!Distinct(q), NEW k \in 1..Len(q)
  PROVE  Without(q, k, Q!Remove(q, q[k]))
<1>1. Q!IsLinked(q, q[k])
  BY DEF Q!IsLinked
<1>2. /\ Q!Remove(q, q[k]) \in Seq(ListNodes)
      /\ Len(Q!Remove(q, q[k])) = Len(q) - 1
      /\ Q!Distinct(Q!Remove(q, q[k]))
      /\ Q!Nodes(Q!Remove(q, q[k])) = Q!Nodes(q) \ {q[k]}
  BY <1>1, Q!RemoveProperties
<1>3. PICK j \in 1..Len(q) :
        /\ q[j] = q[k]
        /\ \A i \in 1..(Len(q) - 1) :
             Q!Remove(q, q[k])[i] = IF i < j THEN q[i] ELSE q[i + 1]
  BY <1>1, Q!RemoveProperties
<1>4. j = k
  BY <1>3 DEF Q!Distinct
<1> QED
  BY <1>2, <1>3, <1>4 DEF Without

LEMMA TailIsWithout ==
  ASSUME NEW q \in Seq(ListNodes), Q!Distinct(q), 1 \in 1..Len(q)
  PROVE  Without(q, 1, Q!RemoveLast(q))
<1>1. q # << >> /\ Len(q) \in Nat
  BY EmptySeq, LenProperties
<1>2. /\ Q!RemoveLast(q) \in Seq(ListNodes)
      /\ Len(Q!RemoveLast(q)) = Len(q) - 1
      /\ \A i \in 1..(Len(q) - 1) : Q!RemoveLast(q)[i] = q[i + 1]
  BY <1>1, HeadTailProperties DEF Q!RemoveLast
<1>3. /\ Q!Distinct(Q!RemoveLast(q))
      /\ Q!Nodes(Q!RemoveLast(q)) = Q!Nodes(q) \ {Q!PeekLast(q)}
  BY <1>1, Q!RemoveLastProperties DEF Q!IsEmpty
<1>4. Q!PeekLast(q) = q[1]
  BY <1>1 DEF Q!PeekLast
<1>5. \A i \in 1..(Len(q) - 1) : ~(i < 1)
  OBVIOUS
<1> QED
  BY <1>2, <1>3, <1>4, <1>5 DEF Without

(* What the abstract list is after the step. *)
LEMMA ReadsAfter ==
  ASSUME NEW p, Represents(p)'
  PROVE  Walk(tail, prev)' = p
  BY WalkIs DEF Represents

(* The operators of NodeList are those of WaitQueue. *)
LEMMA SequenceOperators ==
  ASSUME NEW q, NEW n
  PROVE  /\ Sequence!IsLinked(q, n) <=> n \in Q!Nodes(q)
         /\ Sequence!Remove(q, n) = Q!Remove(q, n)
         /\ Sequence!RemoveLast(q) = Q!RemoveLast(q)
         /\ Sequence!AddFront(q, n) = Append(q, n)
         /\ Sequence!PeekLast(q) = Head(q)
         /\ Sequence!IsEmpty(q) <=> q = << >>
         /\ Sequence!Reversed(q) = Backwards(q)
  BY DEF Sequence!IsLinked, Q!IsLinked, Q!Nodes, Sequence!Remove, Q!Remove,
         Sequence!Position, Q!Position, Sequence!RemoveLast, Q!RemoveLast,
         Sequence!AddFront, Sequence!PeekLast, Sequence!IsEmpty,
         Sequence!Reversed, Backwards

LEMMA AddFrontRefines ==
  ASSUME ListInv, NEW n \in ListNodes, AddFront(n)
  PROVE  ListInv' /\ Sequence!Next
<1>1. PICK q \in Seq(ListNodes) : Represents(q)
  BY DEF ListInv
<1>2. Represents(Append(q, n))'
  BY <1>1, AddFrontRepresents
<1>3. Append(q, n) \in Seq(ListNodes)
  BY AppendProperties
<1>4. ListInv'
  BY <1>2, <1>3 DEF ListInv, AddFront
<1>5. Walk(tail, prev) = q /\ Walk(tail, prev)' = Append(q, n)
  BY <1>1, <1>2, ReadsAs, ReadsAfter
<1>6. n \notin Q!Nodes(q)
  BY <1>1, ReadsAs DEF AddFront
<1>7. Sequence!Add(n)
  BY <1>5, <1>6, SequenceOperators DEF Sequence!Add, AddFront
<1> QED
  BY <1>4, <1>7 DEF Sequence!Next

LEMMA RemoveFirstRefines ==
  ASSUME ListInv, RemoveFirst
  PROVE  ListInv' /\ Sequence!Next
<1>1. PICK q \in Seq(ListNodes) : Represents(q)
  BY DEF ListInv
<1>2. Q!Distinct(q) /\ Len(q) \in 1..Len(q)
  BY <1>1, HeadTailAt DEF Represents, RemoveFirst
<1> DEFINE p == Q!Remove(q, q[Len(q)])
<1>3. Without(q, Len(q), p)
  BY <1>2, RemoveIsWithout
<1> HIDE DEF p
<1>4. Represents(p)' /\ ~list_panicked' /\ handed_out' = <<q[Len(q)]>>
  BY <1>1, <1>3, RemoveFirstRepresents DEF ListInv
<1>5. ListInv'
  BY <1>3, <1>4 DEF ListInv, Without
<1>6. Walk(tail, prev) = q /\ Walk(tail, prev)' = p
  BY <1>1, <1>4, ReadsAs, ReadsAfter
<1>7. q # << >>
  BY <1>2
<1>8. Sequence!TakeFirst
  BY <1>4, <1>6, <1>7, SequenceOperators DEF Sequence!TakeFirst, p
<1> QED
  BY <1>5, <1>8 DEF Sequence!Next

LEMMA RemoveLastRefines ==
  ASSUME ListInv, RemoveLast
  PROVE  ListInv' /\ Sequence!Next
<1>1. PICK q \in Seq(ListNodes) : Represents(q)
  BY DEF ListInv
<1>2. Q!Distinct(q) /\ 1 \in 1..Len(q)
  BY <1>1, HeadTailAt DEF Represents, RemoveLast
<1> DEFINE p == Q!RemoveLast(q)
<1>3. Without(q, 1, p)
  BY <1>2, TailIsWithout
<1> HIDE DEF p
<1>4. Represents(p)' /\ ~list_panicked' /\ handed_out' = <<q[1]>>
  BY <1>1, <1>3, RemoveLastRepresents DEF ListInv
<1>5. ListInv'
  BY <1>3, <1>4 DEF ListInv, Without
<1>6. Walk(tail, prev) = q /\ Walk(tail, prev)' = p
  BY <1>1, <1>4, ReadsAs, ReadsAfter
<1>7. q # << >> /\ Head(q) = q[1]
  BY <1>2
<1>8. Sequence!TakeLast
  BY <1>4, <1>6, <1>7, SequenceOperators DEF Sequence!TakeLast, p
<1> QED
  BY <1>5, <1>8 DEF Sequence!Next

LEMMA RemoveLinkedRefines ==
  ASSUME ListInv, NEW n \in ListNodes, RemoveLinked(n)
  PROVE  ListInv' /\ Sequence!Next
<1>1. PICK q \in Seq(ListNodes) : Represents(q)
  BY DEF ListInv
<1>2. n \in Q!Nodes(q)
  <2>1. Linked(n)
    BY ListSound DEF ListIsSound, RemoveLinked, InNoList
  <2> QED
    BY <1>1, <2>1, ReadsAs
<1>3. PICK k \in 1..Len(q) : n = q[k]
  BY <1>2 DEF Q!Nodes
<1> DEFINE p == Q!Remove(q, n)
<1>4. Without(q, k, p)
  BY <1>1, <1>3, RemoveIsWithout DEF Represents
<1> HIDE DEF p
<1>5. Represents(p)' /\ ~list_panicked' /\ handed_out' = <<n>>
  BY <1>1, <1>3, <1>4, RemoveLinkedRepresents DEF ListInv
<1>6. ListInv'
  BY <1>4, <1>5 DEF ListInv, Without
<1>7. Walk(tail, prev) = q /\ Walk(tail, prev)' = p
  BY <1>1, <1>5, ReadsAs, ReadsAfter
<1>8. Sequence!Take(n)
  BY <1>2, <1>5, <1>7, SequenceOperators DEF Sequence!Take, p
<1> QED
  BY <1>6, <1>8 DEF Sequence!Next

LEMMA RemoveUnlinkedRefines ==
  ASSUME ListInv, NEW n \in ListNodes, RemoveUnlinked(n)
  PROVE  ListInv' /\ Sequence!Next
<1>1. PICK q \in Seq(ListNodes) : Represents(q)
  BY DEF ListInv
<1>2. ~Linked(n) /\ next[n] = NoNode
  BY ListSound DEF ListIsSound, RemoveUnlinked, InNoList
<1>3. n \notin Q!Nodes(q)
  BY <1>1, <1>2, ReadsAs
<1>4. Represents(q)' /\ ~list_panicked' /\ handed_out' = << >>
  BY <1>1, <1>2 DEF RemoveUnlinked, Represents, ListInv
<1>5. ListInv'
  BY <1>4 DEF ListInv
<1>6. Walk(tail, prev) = q /\ Walk(tail, prev)' = q
  BY <1>1, <1>4, ReadsAs, ReadsAfter
<1>7. Q!Remove(q, n) = q
  BY <1>3 DEF Q!Remove, Q!IsLinked, Q!Nodes
<1>8. Sequence!Take(n)
  BY <1>3, <1>4, <1>6, <1>7, SequenceOperators DEF Sequence!Take
<1> QED
  BY <1>5, <1>8 DEF Sequence!Next

LEMMA DrainRefines ==
  ASSUME ListInv, Drain \/ ReverseDrain
  PROVE  ListInv' /\ Sequence!Next
<1>1. PICK q \in Seq(ListNodes) : Represents(q)
  BY DEF ListInv
<1>2. /\ Walk(tail, prev) = q /\ Walk(head, next) = Backwards(q)
      /\ Q!Nodes(Backwards(q)) = Q!Nodes(q)
  BY <1>1, ReadsAs, BackwardsProperties
<1>3. PICK visited \in {q, Backwards(q)} : Emptied(visited)
  BY <1>2 DEF Drain, ReverseDrain
<1>4. Represents(<< >>)'
  BY <1>1, <1>2, <1>3, EmptiedRepresents
<1>5. handed_out' = visited /\ list_panicked' = list_panicked
  BY <1>3 DEF Emptied
<1>6. << >> \in Seq(ListNodes)
  OBVIOUS
<1>7. ListInv'
  BY <1>4, <1>5, <1>6 DEF ListInv
<1>8. Walk(tail, prev)' = << >>
  BY <1>4, ReadsAfter
<1>9. Sequence!TakeAll
  BY <1>2, <1>3, <1>5, <1>8, SequenceOperators DEF Sequence!TakeAll
<1> QED
  BY <1>7, <1>9 DEF Sequence!Next

LEMMA ListStep ==
  ASSUME ListInv, ListNext
  PROVE  ListInv' /\ Sequence!Next
  BY AddFrontRefines, RemoveLinkedRefines, RemoveUnlinkedRefines,
     RemoveFirstRefines, RemoveLastRefines, DrainRefines DEF ListNext, Remove

LEMMA ListInitInv ==
  ASSUME ListInit
  PROVE  ListInv /\ Sequence!Init
<1>1. Represents(<< >>)
  BY EmptyRepresents DEF ListInit
<1>2. << >> \in Seq(ListNodes)
  OBVIOUS
<1>3. Walk(tail, prev) = << >>
  BY <1>1, ReadsAs
<1> QED
  BY <1>1, <1>2, <1>3 DEF ListInit, ListInv, Sequence!Init

LEMMA ListStutter ==
  ASSUME UNCHANGED listVars
  PROVE  /\ ListInv => ListInv'
         /\ UNCHANGED Sequence!vars
<1>1. /\ head' = head /\ tail' = tail /\ prev' = prev /\ next' = next
      /\ list_panicked' = list_panicked /\ handed_out' = handed_out
  BY DEF listVars
<1>2. Walk(tail, prev)' = Walk(tail, prev)
  BY <1>1 DEF Walk
<1>3. ASSUME NEW q, Represents(q) PROVE Represents(q)'
  BY <1>1, <1>3 DEF Represents
<1> QED
  BY <1>1, <1>2, <1>3 DEF ListInv, Sequence!vars

(***************************************************************************)
(* The pointers hold a sequence of different nodes, whatever is added,     *)
(* removed and drained, and no debug_assert fails.                         *)
(***************************************************************************)
THEOREM ListInvariance == ListSpec => []ListInv
<1>1. ListInit => ListInv
  BY ListInitInv
<1>2. ListInv /\ [ListNext]_listVars => ListInv'
  BY ListStep, ListStutter
<1> QED
  BY <1>1, <1>2, PTL DEF ListSpec

(***************************************************************************)
(* For any number of nodes the list is sound: it reads the same in both    *)
(* directions and a node that has left (remove, remove_first, remove_last, *)
(* drain, reverse_drain) keeps no pointer, so remove can tell from a       *)
(* node's prev pointer and the head whether the node is in the list.       *)
(***************************************************************************)
THEOREM ListPointers == ListSpec => []ListIsSound
<1>1. ListInv => ListIsSound
  BY ListSound
<1> QED
  BY <1>1, ListInvariance, PTL

(***************************************************************************)
(* For any number of nodes the pointers implement the sequence of nodes    *)
(* that the primitives' models use as their wait queue.                    *)
(***************************************************************************)
THEOREM ImplementsNodeList == ListSpec => IsNodeList
<1>1. ListInit => Sequence!Init
  BY ListInitInv
<1>2. ListInv /\ [ListNext]_listVars => [Sequence!Next]_(Sequence!vars)
  BY ListStep, ListStutter
<1> QED
  BY <1>1, <1>2, ListInvariance, PTL DEF ListSpec, IsNodeList, Sequence!Spec

-----------------------------------------------------------------------------
(***************************************************************************)
(* The pairing heap.  In the middle of remove the children of the removed  *)
(* node are a list that no first_child points to: `open' is that node and  *)
(* `first' was its first child.  Otherwise both are None.                  *)
(***************************************************************************)
Pointers == [HeapNodes -> HeapNodes \cup {None}]

Heaps == [parent : Pointers, prev : Pointers, next : Pointers,
          first_child : Pointers, ok : BOOLEAN]

SiblingsLinked(h) ==
  \A n \in HeapNodes :
    /\ h.next[n] # None => /\ h.prev[h.next[n]] = n
                           /\ h.parent[h.next[n]] = h.parent[n]
    /\ h.prev[n] # None => h.next[h.prev[n]] = n
    /\ h.parent[n] = None => h.next[n] = None /\ h.prev[n] = None

FirstOf(h, open, first, p) == IF p = open THEN first ELSE h.first_child[p]

ChildrenListed(h, open, first) ==
  \A n \in HeapNodes :
    /\ h.first_child[n] # None => /\ h.parent[h.first_child[n]] = n
                                  /\ h.prev[h.first_child[n]] = None
    /\ h.parent[n] # None /\ h.prev[n] = None =>
         n = FirstOf(h, open, first, h.parent[n])

HeapOrdered(h) ==
  \A n \in HeapNodes : h.parent[n] # None => data[h.parent[n]] <= data[n]

(* No set of nodes is closed under the pointer: there is no cycle. *)
Founded(f) ==
  \A S \in SUBSET HeapNodes : S # {} => \E n \in S : f[n] \notin S

Forest(h, open, first) ==
  /\ h \in Heaps
  /\ h.ok
  /\ SiblingsLinked(h)
  /\ ChildrenListed(h, open, first)
  /\ HeapOrdered(h)
  /\ Founded(h.parent) /\ Founded(h.prev) /\ Founded(h.next)
  /\ open # None => h.first_child[open] = None

HeapInv ==
  /\ data \in [HeapNodes -> Nat]
  /\ Forest(heap, None, None)
  /\ root \in HeapNodes \cup {None}
  /\ root # None => heap.parent[root] = None
  /\ inserted \in SUBSET HeapNodes
  /\ \A n \in HeapNodes :
       /\ n \in inserted <=> heap.parent[n] # None \/ n = root
       /\ n \notin inserted => heap.first_child[n] = None

-----------------------------------------------------------------------------
(* Pointers that are dropped leave no cycle. *)
LEMMA FoundedCut ==
  ASSUME NEW f \in Pointers, NEW g \in Pointers, Founded(f),
         \A n \in HeapNodes : g[n] = f[n] \/ g[n] = None
  PROVE  Founded(g)
<1> SUFFICES ASSUME NEW S \in SUBSET HeapNodes, S # {}
             PROVE  \E n \in S : g[n] \notin S
  BY DEF Founded
<1>1. PICK n \in S : f[n] \notin S
  BY DEF Founded
<1>2. g[n] \notin S
  BY <1>1, HeapAssumption
<1> QED
  BY <1>2

(* A set that, with a node, has its parent. *)
ClosedUpwards(h, A) == \A n \in A : h.parent[n] \in A \cup {None}

(* What add_child assigns. *)
LEMMA AddChildFields ==
  ASSUME NEW h \in Heaps, NEW p \in HeapNodes, NEW c \in HeapNodes,
         NEW g, g = AddChild(h, p, c), NEW old, old = h.first_child[p]
  PROVE  /\ g \in Heaps
         /\ g.parent = [h.parent EXCEPT ![c] = p]
         /\ g.prev = Point(h.prev, old, c)
         /\ g.next = IF old = None THEN h.next ELSE [h.next EXCEPT ![c] = old]
         /\ g.first_child = [h.first_child EXCEPT ![p] = c]
         /\ g.ok <=> /\ h.ok
                     /\ ~SafeLesser(c, p)
                     /\ old # None => h.prev[old] = None
<1>1. h.ok \in BOOLEAN /\ old \in HeapNodes \cup {None}
  BY DEF Heaps, Pointers
<1>2. [h.parent EXCEPT ![c] = p] \in Pointers
  BY DEF Heaps, Pointers
<1>3. Point(h.prev, old, c) \in Pointers
  BY <1>1 DEF Heaps, Pointers, Point
<1>4. (IF old = None THEN h.next ELSE [h.next EXCEPT ![c] = old]) \in Pointers
  BY <1>1 DEF Heaps, Pointers
<1>5. [h.first_child EXCEPT ![p] = c] \in Pointers
  BY DEF Heaps, Pointers
<1> QED
  BY <1>1, <1>2, <1>3, <1>4, <1>5 DEF AddChild, Heaps

(* A root becomes a child of a node that is not below it. *)
LEMMA AddChildForest ==
  ASSUME data \in [HeapNodes -> Nat],
         NEW h, NEW open, NEW first, Forest(h, open, first),
         NEW p \in HeapNodes, NEW c \in HeapNodes, p # open,
         h.parent[c] = None, data[p] <= data[c],
         NEW A \in SUBSET HeapNodes, ClosedUpwards(h, A), p \in A, c \notin A,
         NEW g, g = AddChild(h, p, c)
  PROVE  /\ Forest(g, open, first)
         /\ g.parent = [h.parent EXCEPT ![c] = p]
         /\ g.first_child = [h.first_child EXCEPT ![p] = c]
         /\ \A n \in HeapNodes \ {c} : g.next[n] = h.next[n]
<1> DEFINE old == h.first_child[p]
<1> USE HeapAssumption
<1>1. h \in Heaps /\ h.ok
  BY DEF Forest
<1>2. /\ h.parent \in Pointers /\ h.prev \in Pointers
      /\ h.next \in Pointers /\ h.first_child \in Pointers
  BY <1>1 DEF Heaps
<1>3. /\ g \in Heaps
      /\ g.parent = [h.parent EXCEPT ![c] = p]
      /\ g.prev = Point(h.prev, old, c)
      /\ g.next = IF old = None THEN h.next ELSE [h.next EXCEPT ![c] = old]
      /\ g.first_child = [h.first_child EXCEPT ![p] = c]
      /\ g.ok <=> /\ h.ok
                  /\ ~SafeLesser(c, p)
                  /\ old # None => h.prev[old] = None
  BY <1>1, AddChildFields
<1>4. old \in HeapNodes \cup {None}
  BY <1>2 DEF Pointers
<1>5. /\ old # None => h.parent[old] = p /\ h.prev[old] = None /\ old # c
      /\ h.next[c] = None /\ h.prev[c] = None /\ p # c
  BY DEF Forest, ChildrenListed, SiblingsLinked
<1>6. \A n \in HeapNodes :
        /\ h.next[n] # c
        /\ h.prev[n] # c
        /\ n # p => h.first_child[n] # old \/ old = None
        /\ h.first_child[n] # c
  BY <1>5 DEF Forest, SiblingsLinked, ChildrenListed
<1> HIDE DEF old
<1>7. /\ \A n \in HeapNodes : g.parent[n] = IF n = c THEN p ELSE h.parent[n]
      /\ \A n \in HeapNodes : g.first_child[n] = IF n = p THEN c
                                                 ELSE h.first_child[n]
      /\ \A n \in HeapNodes : g.prev[n] = IF n = old THEN c ELSE h.prev[n]
      /\ \A n \in HeapNodes : g.next[n] = IF n = c THEN old ELSE h.next[n]
  <2>1. \A n \in HeapNodes : g.parent[n] = IF n = c THEN p ELSE h.parent[n]
    BY <1>2, <1>3 DEF Pointers
  <2>2. \A n \in HeapNodes : g.first_child[n] = IF n = p THEN c
                                                ELSE h.first_child[n]
    BY <1>2, <1>3 DEF Pointers
  <2>3. \A n \in HeapNodes : g.prev[n] = IF n = old THEN c ELSE h.prev[n]
    BY <1>2, <1>3, <1>4 DEF Pointers, Point
  <2>4. \A n \in HeapNodes : g.next[n] = IF n = c THEN old ELSE h.next[n]
    BY <1>2, <1>3, <1>5 DEF Pointers
  <2> QED
    BY <2>1, <2>2, <2>3, <2>4
<1>8. g.ok
  BY <1>1, <1>3, <1>5 DEF SafeLesser
<1>9. SiblingsLinked(g)
  <2> SUFFICES ASSUME NEW n \in HeapNodes
               PROVE  /\ g.next[n] # None => /\ g.prev[g.next[n]] = n
                                             /\ g.parent[g.next[n]] = g.parent[n]
                      /\ g.prev[n] # None => g.next[g.prev[n]] = n
                      /\ g.parent[n] = None => g.next[n] = None /\ g.prev[n] = None
    BY DEF SiblingsLinked
  <2>1. /\ h.next[n] # None => /\ h.prev[h.next[n]] = n
                               /\ h.parent[h.next[n]] = h.parent[n]
        /\ h.prev[n] # None => h.next[h.prev[n]] = n
        /\ h.parent[n] = None => h.next[n] = None /\ h.prev[n] = None
    BY DEF Forest, SiblingsLinked
  <2>2. h.next[n] \in HeapNodes \cup {None} /\ h.prev[n] \in HeapNodes \cup {None}
    BY <1>2 DEF Pointers
  <2>3. ASSUME g.next[n] # None
        PROVE  g.prev[g.next[n]] = n /\ g.parent[g.next[n]] = g.parent[n]
    <3>1. CASE n = c
      BY <1>4, <1>5, <1>7, <2>3, <3>1
    <3>2. CASE n # c
      <4>1. g.next[n] = h.next[n] /\ h.next[n] \in HeapNodes /\ h.next[n] # c
        BY <1>6, <1>7, <2>2, <2>3, <3>2
      <4>2. h.next[n] # old
        BY <1>5, <2>1, <4>1
      <4> QED
        BY <1>7, <2>1, <3>2, <4>1, <4>2
    <3> QED
      BY <3>1, <3>2
  <2>4. g.prev[n] # None => g.next[g.prev[n]] = n
    BY <1>4, <1>5, <1>6, <1>7, <2>1, <2>2
  <2>5. g.parent[n] = None => g.next[n] = None /\ g.prev[n] = None
    BY <1>5, <1>7, <2>1
  <2> QED
    BY <2>3, <2>4, <2>5
<1>10. ChildrenListed(g, open, first)
  <2> SUFFICES ASSUME NEW n \in HeapNodes
               PROVE  /\ g.first_child[n] # None =>
                           /\ g.parent[g.first_child[n]] = n
                           /\ g.prev[g.first_child[n]] = None
                      /\ g.parent[n] # None /\ g.prev[n] = None =>
                           n = FirstOf(g, open, first, g.parent[n])
    BY DEF ChildrenListed
  <2>1. /\ h.first_child[n] # None => /\ h.parent[h.first_child[n]] = n
                                      /\ h.prev[h.first_child[n]] = None
        /\ h.parent[n] # None /\ h.prev[n] = None =>
             n = IF h.parent[n] = open THEN first ELSE h.first_child[h.parent[n]]
    BY DEF Forest, ChildrenListed, FirstOf
  <2>2. h.first_child[n] \in HeapNodes \cup {None}
        /\ h.parent[n] \in HeapNodes \cup {None}
    BY <1>2 DEF Pointers
  <2>3. ASSUME g.first_child[n] # None
        PROVE  g.parent[g.first_child[n]] = n /\ g.prev[g.first_child[n]] = None
    <3>1. CASE n = p
      BY <1>5, <1>7, <3>1
    <3>2. CASE n # p
      BY <1>6, <1>7, <2>1, <2>2, <2>3, <3>2
    <3> QED
      BY <3>1, <3>2
  <2>4. ASSUME g.parent[n] # None, g.prev[n] = None
        PROVE  n = IF g.parent[n] = open THEN first ELSE g.first_child[g.parent[n]]
    <3>1. CASE n = c
      BY <1>7, <3>1
    <3>2. CASE n # c
      <4>1. g.parent[n] = h.parent[n] /\ h.prev[n] = None /\ n # old
        BY <1>7, <2>4, <3>2
      <4>2. h.parent[n] # p
        BY <2>1, <2>4, <4>1 DEF old
      <4> QED
        BY <1>7, <2>1, <2>2, <2>4, <4>1, <4>2
    <3> QED
      BY <3>1, <3>2
  <2> QED
    BY <2>3, <2>4 DEF FirstOf
<1>11. HeapOrdered(g)
  BY <1>7 DEF HeapOrdered, Forest
<1>12. Founded(g.parent)
  <2> SUFFICES ASSUME NEW S \in SUBSET HeapNodes, S # {},
                      \A n \in S : g.parent[n] \in S
               PROVE  FALSE
    BY DEF Founded
  <2>1. PICK n \in S : h.parent[n] \notin S
    BY DEF Forest, Founded
  <2>2. p \in S
    BY <1>7, <2>1
  <2>3. PICK m \in S \cap A : h.parent[m] \notin S \cap A
    <3>1. S \cap A # {} /\ S \cap A \in SUBSET HeapNodes
      BY <2>2
    <3> QED
      BY <3>1 DEF Forest, Founded
  <2>4. m # c /\ g.parent[m] = h.parent[m] /\ h.parent[m] \in A \cup {None}
    BY <1>7, <2>3 DEF ClosedUpwards
  <2> QED
    BY <2>3, <2>4
<1>13. Founded(g.prev)
  <2> SUFFICES ASSUME NEW S \in SUBSET HeapNodes, S # {},
                      \A n \in S : g.prev[n] \in S
               PROVE  FALSE
    BY DEF Founded
  <2>1. PICK n \in S : h.prev[n] \notin S
    BY DEF Forest, Founded
  <2>2. n = old /\ c \in S
    BY <1>7, <2>1
  <2> QED
    BY <1>5, <1>7, <2>2
<1>14. Founded(g.next)
  <2> SUFFICES ASSUME NEW S \in SUBSET HeapNodes, S # {},
                      \A n \in S : g.next[n] \in S
               PROVE  FALSE
    BY DEF Founded
  <2>1. PICK n \in S : h.next[n] \notin S
    BY DEF Forest, Founded
  <2>2. n = c /\ old \in S \ {c}
    BY <1>5, <1>7, <2>1
  <2>3. PICK m \in S \ {c} : h.next[m] \notin S \ {c}
    <3>1. S \ {c} # {} /\ S \ {c} \in SUBSET HeapNodes
      BY <2>2
    <3> QED
      BY <3>1 DEF Forest, Founded
  <2> QED
    BY <1>6, <1>7, <2>3
<1>15. open # None => g.first_child[open] = None
  BY <1>2, <1>3 DEF Forest, Pointers
<1> QED
  BY <1>3, <1>7, <1>8, <1>9, <1>10, <1>11, <1>12, <1>13, <1>14, <1>15 DEF Forest

(* A child that is the only one of its parent. *)
LEMMA OnlyChild ==
  ASSUME NEW h, NEW open, NEW first, Forest(h, open, first),
         NEW n \in HeapNodes, h.next[n] = None, h.prev[n] = None,
         h.parent[n] # None
  PROVE  \A m \in HeapNodes : h.parent[m] = h.parent[n] => m = n
<1> DEFINE S == {m \in HeapNodes : h.parent[m] = h.parent[n] /\ m # n}
<1> SUFFICES ASSUME S # {} PROVE FALSE
  OBVIOUS
<1>1. PICK m \in S : h.prev[m] \notin S
  BY DEF Forest, Founded
<1>2. h.prev[m] \in HeapNodes \cup {None}
  BY DEF Forest, Heaps, Pointers
<1>3. CASE h.prev[m] = None
  BY <1>3 DEF Forest, ChildrenListed
<1>4. CASE h.prev[m] \in HeapNodes
  BY <1>1, <1>4, HeapAssumption DEF Forest, SiblingsLinked
<1> QED
  BY <1>2, <1>3, <1>4

(* What merge_children assigns when it takes the last child of its list. *)
LEMMA TakeLastFields ==
  ASSUME NEW h \in Heaps, NEW n \in HeapNodes, NEW p,
         NEW g, g = TakeLast(h, n, p)
  PROVE  /\ g \in Heaps
         /\ g.parent = [h.parent EXCEPT ![n] = None]
         /\ g.prev = [h.prev EXCEPT ![n] = None]
         /\ g.next = Point(h.next, h.prev[n], None)
         /\ g.first_child = h.first_child
         /\ g.ok <=> /\ h.ok
                     /\ h.parent[n] = p
                     /\ h.next[n] = None
                     /\ h.prev[n] # None => h.next[h.prev[n]] = n
<1> DEFINE f == Orphan(h, n, p)
<1>1. /\ f \in Heaps
      /\ f.parent = [h.parent EXCEPT ![n] = None]
      /\ f.prev = h.prev /\ f.next = h.next /\ f.first_child = h.first_child
      /\ f.ok <=> h.ok /\ h.parent[n] = p
  <2>1. [h.parent EXCEPT ![n] = None] \in Pointers
    BY DEF Heaps, Pointers
  <2> QED
    BY <2>1 DEF Orphan, Check, Heaps
<1>2. g = UnlinkPrev(f, n)
  BY DEF TakeLast
<1> HIDE DEF f
<1>3. h.prev[n] \in HeapNodes \cup {None}
  BY DEF Heaps, Pointers
<1>4. [f.prev EXCEPT ![n] = None] \in Pointers
  BY <1>1 DEF Heaps, Pointers
<1>5. Point(f.next, f.prev[n], None) \in Pointers
  BY <1>1, <1>3 DEF Heaps, Pointers, Point
<1> QED
  BY <1>1, <1>2, <1>4, <1>5 DEF UnlinkPrev, Heaps

LEMMA TakeLastForest ==
  ASSUME NEW h, NEW open \in HeapNodes, NEW first, Forest(h, open, first),
         NEW n \in HeapNodes, h.parent[n] = open, h.next[n] = None,
         NEW g, g = TakeLast(h, n, open)
  PROVE  /\ Forest(g, open, first)
         /\ g.parent = [h.parent EXCEPT ![n] = None]
         /\ g.first_child = h.first_child
         /\ h.prev[n] # None =>
              /\ h.prev[n] \in HeapNodes /\ h.prev[n] # n
              /\ g.parent[h.prev[n]] = open /\ g.next[h.prev[n]] = None
         /\ h.prev[n] = None => \A m \in HeapNodes : g.parent[m] # open
<1> USE HeapAssumption
<1>1. h \in Heaps /\ h.ok
  BY DEF Forest
<1>2. /\ h.parent \in Pointers /\ h.prev \in Pointers
      /\ h.next \in Pointers /\ h.first_child \in Pointers
  BY <1>1 DEF Heaps
<1>3. /\ g \in Heaps
      /\ g.parent = [h.parent EXCEPT ![n] = None]
      /\ g.prev = [h.prev EXCEPT ![n] = None]
      /\ g.next = Point(h.next, h.prev[n], None)
      /\ g.first_child = h.first_child
      /\ g.ok <=> /\ h.ok
                  /\ h.parent[n] = open
                  /\ h.next[n] = None
                  /\ h.prev[n] # None => h.next[h.prev[n]] = n
  BY <1>1, TakeLastFields
<1> DEFINE b == h.prev[n]
<1>4. b \in HeapNodes \cup {None}
  BY <1>2 DEF Pointers
<1>5. /\ b # None => h.next[b] = n /\ b # n /\ h.parent[b] = open
      /\ g.ok
  BY <1>1, <1>3, <1>4 DEF Forest, SiblingsLinked
<1> HIDE DEF b
<1>6. /\ \A m \in HeapNodes : g.parent[m] = IF m = n THEN None ELSE h.parent[m]
      /\ \A m \in HeapNodes : g.prev[m] = IF m = n THEN None ELSE h.prev[m]
      /\ \A m \in HeapNodes : g.next[m] = IF m = b THEN None ELSE h.next[m]
  <2>1. \A m \in HeapNodes : g.parent[m] = IF m = n THEN None ELSE h.parent[m]
    BY <1>2, <1>3 DEF Pointers
  <2>2. \A m \in HeapNodes : g.prev[m] = IF m = n THEN None ELSE h.prev[m]
    BY <1>2, <1>3 DEF Pointers
  <2>3. \A m \in HeapNodes : g.next[m] = IF m = b THEN None ELSE h.next[m]
    BY <1>2, <1>3, <1>4 DEF Pointers, Point, b
  <2> QED
    BY <2>1, <2>2, <2>3
<1>7. SiblingsLinked(g)
  <2> SUFFICES ASSUME NEW m \in HeapNodes
               PROVE  /\ g.next[m] # None => /\ g.prev[g.next[m]] = m
                                             /\ g.parent[g.next[m]] = g.parent[m]
                      /\ g.prev[m] # None => g.next[g.prev[m]] = m
                      /\ g.parent[m] = None => g.next[m] = None /\ g.prev[m] = None
    BY DEF SiblingsLinked
  <2>1. /\ h.next[m] # None => /\ h.prev[h.next[m]] = m
                               /\ h.parent[h.next[m]] = h.parent[m]
        /\ h.prev[m] # None => h.next[h.prev[m]] = m
        /\ h.parent[m] = None => h.next[m] = None /\ h.prev[m] = None
    BY DEF Forest, SiblingsLinked
  <2>2. h.next[m] \in HeapNodes \cup {None} /\ h.prev[m] \in HeapNodes \cup {None}
    BY <1>2 DEF Pointers
  <2>3. m # b => h.next[m] # n
    BY <2>1 DEF b
  <2>4. g.next[m] # None => /\ g.prev[g.next[m]] = m
                            /\ g.parent[g.next[m]] = g.parent[m]
    BY <1>6, <2>1, <2>2, <2>3
  <2>5. g.prev[m] # None => g.next[g.prev[m]] = m
    BY <1>5, <1>6, <2>1, <2>2
  <2>6. g.parent[m] = None => g.next[m] = None /\ g.prev[m] = None
    BY <1>6, <2>1
  <2> QED
    BY <2>4, <2>5, <2>6
<1>8. ChildrenListed(g, open, first)
  <2> SUFFICES ASSUME NEW m \in HeapNodes
               PROVE  /\ g.first_child[m] # None =>
                           /\ g.parent[g.first_child[m]] = m
                           /\ g.prev[g.first_child[m]] = None
                      /\ g.parent[m] # None /\ g.prev[m] = None =>
                           m = FirstOf(g, open, first, g.parent[m])
    BY DEF ChildrenListed
  <2>1. /\ h.first_child[m] # None => /\ h.parent[h.first_child[m]] = m
                                      /\ h.prev[h.first_child[m]] = None
        /\ h.parent[m] # None /\ h.prev[m] = None =>
             m = IF h.parent[m] = open THEN first ELSE h.first_child[h.parent[m]]
    BY DEF Forest, ChildrenListed, FirstOf
  <2>2. h.first_child[m] \in HeapNodes \cup {None}
    BY <1>2 DEF Pointers
  <2>3. h.first_child[m] # n
    <3>1. h.first_child[open] = None
      BY DEF Forest
    <3> QED
      BY <2>1, <3>1
  <2>4. g.first_child[m] # None => /\ g.parent[g.first_child[m]] = m
                                   /\ g.prev[g.first_child[m]] = None
    BY <1>3, <1>6, <2>1, <2>2, <2>3
  <2>5. g.parent[m] # None /\ g.prev[m] = None =>
          m = FirstOf(g, open, first, g.parent[m])
    BY <1>3, <1>6, <2>1 DEF FirstOf
  <2> QED
    BY <2>4, <2>5
<1>9. HeapOrdered(g)
  BY <1>6 DEF HeapOrdered, Forest
<1>10. Founded(g.parent) /\ Founded(g.prev) /\ Founded(g.next)
  <2>1. g.parent \in Pointers /\ g.prev \in Pointers /\ g.next \in Pointers
    BY <1>3 DEF Heaps
  <2>2. Founded(h.parent) /\ Founded(h.prev) /\ Founded(h.next)
    BY DEF Forest
  <2>3. Founded(g.parent)
    BY <1>2, <1>6, <2>1, <2>2, FoundedCut
  <2>4. Founded(g.prev)
    BY <1>2, <1>6, <2>1, <2>2, FoundedCut
  <2>5. Founded(g.next)
    BY <1>2, <1>6, <2>1, <2>2, FoundedCut
  <2> QED
    BY <2>3, <2>4, <2>5
<1>11. g.first_child[open] = None
  BY <1>3 DEF Forest
<1>12. Forest(g, open, first)
  BY <1>3, <1>5, <1>7, <1>8, <1>9, <1>10, <1>11 DEF Forest
<1>13. b # None => b \in HeapNodes /\ b # n /\ g.parent[b] = open /\ g.next[b] = None
  BY <1>4, <1>5, <1>6
<1>14. b = None => \A m \in HeapNodes : g.parent[m] # open
  <2>1. b = None => \A m \in HeapNodes : h.parent[m] = open => m = n
    BY OnlyChild DEF b
  <2> QED
    BY <1>6, <2>1
<1> QED
  BY <1>3, <1>12, <1>13, <1>14 DEF b

(* A debug_assert that holds. *)
LEMMA CheckHolds ==
  ASSUME NEW h \in Heaps, h.ok, NEW a \in BOOLEAN, a
  PROVE  Check(h, a) = h
  BY DEF Check, Heaps

(* meld, of two roots. *)
LEMMA MeldForest ==
  ASSUME data \in [HeapNodes -> Nat],
         NEW h, NEW open, NEW first, Forest(h, open, first),
         NEW l \in HeapNodes, NEW r \in HeapNodes, l # r, l # open, r # open,
         h.parent[l] = None, h.parent[r] = None,
         NEW g, g = Meld(h, l, r), NEW t, t = MeldRoot(l, r)
  PROVE  \E c \in {l, r} :
           /\ t \in {l, r} /\ c # t
           /\ Forest(g, open, first)
           /\ g.parent = [h.parent EXCEPT ![c] = t]
           /\ g.first_child = [h.first_child EXCEPT ![t] = c]
           /\ \A n \in HeapNodes \ {c} : g.next[n] = h.next[n]
<1>1. PICK c \in {l, r} : /\ t \in {l, r} /\ c # t /\ data[t] <= data[c]
                          /\ c = IF t = l THEN r ELSE l
  BY DEF MeldRoot, SafeLesser
<1>2. h \in Heaps /\ h.ok
  BY DEF Forest
<1>3. IsRoot(h, l) /\ IsRoot(h, r)
  BY DEF IsRoot, Forest, SiblingsLinked
<1>4. Check(h, IsRoot(h, l) /\ IsRoot(h, r)) = h
  BY <1>2, <1>3, CheckHolds
<1>5. g = AddChild(h, t, c)
  BY <1>1, <1>4 DEF Meld
<1>6. ClosedUpwards(h, {t})
  BY <1>1 DEF ClosedUpwards
<1>7. t \in HeapNodes /\ c \in HeapNodes /\ t # open /\ h.parent[c] = None
  BY <1>1
<1>8. PICK A \in SUBSET HeapNodes : ClosedUpwards(h, A) /\ t \in A /\ c \notin A
  BY <1>1, <1>6, <1>7
<1>9. /\ Forest(g, open, first)
      /\ g.parent = [h.parent EXCEPT ![c] = t]
      /\ g.first_child = [h.first_child EXCEPT ![t] = c]
      /\ \A n \in HeapNodes \ {c} : g.next[n] = h.next[n]
  BY <1>1, <1>5, <1>7, <1>8, AddChildForest
<1> QED
  BY <1>1, <1>9

-----------------------------------------------------------------------------
(***************************************************************************)
(* merge_children has begun with the pointers h0.  X are the roots that it *)
(* has made of the children, and all that it has changed is among them.    *)
(***************************************************************************)
Loose(h, h0, open, first, X) ==
  /\ Forest(h, open, first)
  /\ X \subseteq HeapNodes
  /\ \A n \in HeapNodes :
       IF h0.parent[n] = open THEN h.parent[n] = None <=> n \in X
       ELSE /\ n \notin X
            /\ h.parent[n] = h0.parent[n]
            /\ h.first_child[n] = h0.first_child[n]

ChildrenOf(h, p) == {n \in HeapNodes : h.parent[n] = p}

(* It takes the last child. *)
LEMMA TakeKeepsChildren ==
  ASSUME NEW h, NEW open \in HeapNodes, NEW first, Forest(h, open, first),
         NEW n \in HeapNodes, h.parent[n] = open, h.next[n] = None,
         NEW g, g = TakeLast(h, n, open)
  PROVE  /\ ChildrenOf(g, open) = ChildrenOf(h, open) \ {n}
         /\ h.prev[n] # None =>
              /\ h.prev[n] \in HeapNodes /\ h.prev[n] # n
              /\ g.parent[h.prev[n]] = open /\ g.next[h.prev[n]] = None
         /\ h.prev[n] = None => ChildrenOf(g, open) = {}
<1>1. /\ g.parent = [h.parent EXCEPT ![n] = None]
      /\ h.prev[n] # None =>
           /\ h.prev[n] \in HeapNodes /\ h.prev[n] # n
           /\ g.parent[h.prev[n]] = open /\ g.next[h.prev[n]] = None
      /\ h.prev[n] = None => \A m \in HeapNodes : g.parent[m] # open
  BY TakeLastForest
<1>2. h.parent \in Pointers
  BY DEF Forest, Heaps
<1>3. \A m \in HeapNodes : g.parent[m] = IF m = n THEN None ELSE h.parent[m]
  BY <1>1, <1>2 DEF Pointers
<1>4. ChildrenOf(g, open) = ChildrenOf(h, open) \ {n}
  BY <1>3, HeapAssumption DEF ChildrenOf
<1> QED
  BY <1>1, <1>4 DEF ChildrenOf

LEMMA TakeLoose ==
  ASSUME NEW h, NEW h0, NEW open \in HeapNodes, NEW first, NEW X,
         Loose(h, h0, open, first, X),
         NEW n \in HeapNodes, h.parent[n] = open, h.next[n] = None,
         NEW g, g = TakeLast(h, n, open),
         NEW Y, \A m : m \in Y <=> m = n \/ m \in X
  PROVE  Loose(g, h0, open, first, Y)
<1> USE HeapAssumption
<1>1. Forest(h, open, first) /\ h.parent \in Pointers
  BY DEF Loose, Forest, Heaps
<1>2. /\ Forest(g, open, first)
      /\ g.parent = [h.parent EXCEPT ![n] = None]
      /\ g.first_child = h.first_child
  BY <1>1, TakeLastForest
<1>3. \A m \in HeapNodes : g.parent[m] = IF m = n THEN None ELSE h.parent[m]
  BY <1>1, <1>2 DEF Pointers
<1>4. h0.parent[n] = open
  BY DEF Loose
<1> QED
  BY <1>2, <1>3, <1>4 DEF Loose

(* It melds two of the roots, and leaves the children alone that it has left. *)
LEMMA MeldKeepsChildren ==
  ASSUME data \in [HeapNodes -> Nat],
         NEW h, NEW open \in HeapNodes, NEW first, Forest(h, open, first),
         NEW l \in HeapNodes, NEW r \in HeapNodes, l # r, l # open, r # open,
         h.parent[l] = None, h.parent[r] = None,
         NEW g, g = Meld(h, l, r)
  PROVE  /\ ChildrenOf(g, open) = ChildrenOf(h, open)
         /\ \A n \in ChildrenOf(h, open) : g.next[n] = h.next[n]
<1> DEFINE t == MeldRoot(l, r)
<1>1. PICK c \in {l, r} :
        /\ t \in {l, r} /\ c # t
        /\ Forest(g, open, first)
        /\ g.parent = [h.parent EXCEPT ![c] = t]
        /\ g.first_child = [h.first_child EXCEPT ![t] = c]
        /\ \A n \in HeapNodes \ {c} : g.next[n] = h.next[n]
  BY MeldForest
<1> HIDE DEF t
<1>2. h.parent \in Pointers
  BY DEF Forest, Heaps
<1>3. \A n \in HeapNodes : g.parent[n] = IF n = c THEN t ELSE h.parent[n]
  BY <1>1, <1>2 DEF Pointers
<1>4. ChildrenOf(g, open) = ChildrenOf(h, open)
  BY <1>1, <1>3, HeapAssumption DEF ChildrenOf
<1>5. \A n \in ChildrenOf(h, open) : g.next[n] = h.next[n]
  BY <1>1, HeapAssumption DEF ChildrenOf
<1> QED
  BY <1>4, <1>5

LEMMA MeldLoose ==
  ASSUME data \in [HeapNodes -> Nat],
         NEW h, NEW h0, NEW open \in HeapNodes, NEW first, NEW X,
         h0.parent[open] # open,
         Loose(h, h0, open, first, X),
         NEW l \in X, NEW r \in X, l # r,
         NEW g, g = Meld(h, l, r), NEW t, t = MeldRoot(l, r),
         NEW Y, \A n : n \in Y <=> n = t \/ (n \in X /\ n # l /\ n # r)
  PROVE  Loose(g, h0, open, first, Y)
<1> USE HeapAssumption
<1>1. Forest(h, open, first) /\ h.parent \in Pointers /\ h.first_child \in Pointers
  BY DEF Loose, Forest, Heaps
<1>2. /\ l \in HeapNodes /\ r \in HeapNodes /\ h0.parent[l] = open
      /\ h0.parent[r] = open /\ h.parent[l] = None /\ h.parent[r] = None
      /\ l # open /\ r # open
  BY DEF Loose
<1>3. PICK c \in {l, r} :
        /\ t \in {l, r} /\ c # t
        /\ Forest(g, open, first)
        /\ g.parent = [h.parent EXCEPT ![c] = t]
        /\ g.first_child = [h.first_child EXCEPT ![t] = c]
        /\ \A n \in HeapNodes \ {c} : g.next[n] = h.next[n]
  BY <1>1, <1>2, MeldForest
<1>4. /\ \A n \in HeapNodes : g.parent[n] = IF n = c THEN t ELSE h.parent[n]
      /\ \A n \in HeapNodes : g.first_child[n] = IF n = t THEN c
                                                 ELSE h.first_child[n]
  BY <1>1, <1>3 DEF Pointers
<1>5. Y \subseteq HeapNodes /\ \A n : n \in Y <=> n \in X /\ n # c
  BY <1>2, <1>3 DEF Loose
<1>6. ASSUME NEW n \in HeapNodes
      PROVE  IF h0.parent[n] = open THEN g.parent[n] = None <=> n \in Y
             ELSE /\ n \notin Y
                  /\ g.parent[n] = h0.parent[n]
                  /\ g.first_child[n] = h0.first_child[n]
  BY <1>2, <1>3, <1>4, <1>5 DEF Loose
<1> QED
  BY <1>3, <1>5, <1>6 DEF Loose

(* It melds a root into the current one, if there is one already. *)
LEMMA MaybeMeldKeepsChildren ==
  ASSUME data \in [HeapNodes -> Nat],
         NEW h, NEW open \in HeapNodes, NEW first, Forest(h, open, first),
         NEW current \in HeapNodes \cup {None}, NEW x \in HeapNodes, x # current,
         current # open, x # open,
         current # None => h.parent[current] = None, h.parent[x] = None,
         NEW g, g = MaybeMeld(h, current, x)
  PROVE  /\ MaybeMeldRoot(current, x) \in HeapNodes
         /\ ChildrenOf(g, open) = ChildrenOf(h, open)
         /\ \A n \in ChildrenOf(h, open) : g.next[n] = h.next[n]
<1>1. MaybeMeldRoot(current, x) \in HeapNodes
  BY DEF MaybeMeldRoot, MeldRoot
<1>2. CASE current = None
  BY <1>1, <1>2 DEF MaybeMeld
<1>3. CASE current # None
  <2>1. g = Meld(h, current, x) /\ current \in HeapNodes /\ h.parent[current] = None
    BY <1>3 DEF MaybeMeld
  <2>2. /\ ChildrenOf(g, open) = ChildrenOf(h, open)
        /\ \A n \in ChildrenOf(h, open) : g.next[n] = h.next[n]
    BY <2>1, MeldKeepsChildren
  <2> QED
    BY <1>1, <2>2
<1> QED
  BY <1>2, <1>3

LEMMA MaybeMeldLoose ==
  ASSUME data \in [HeapNodes -> Nat],
         NEW h, NEW h0, NEW open \in HeapNodes, NEW first,
         h0.parent[open] # open,
         NEW X, Loose(h, h0, open, first, X),
         NEW current, NEW x, x # current, x # None,
         \A n : n \in X <=> n # None /\ (n = current \/ n = x),
         NEW g, g = MaybeMeld(h, current, x),
         NEW t, t = MaybeMeldRoot(current, x),
         NEW Y, \A n : n \in Y <=> n = t
  PROVE  Loose(g, h0, open, first, Y)
<1>1. CASE current = None
  <2>1. g = h /\ t = x
    BY <1>1 DEF MaybeMeld, MaybeMeldRoot
  <2>2. X = Y
    BY <1>1, <2>1
  <2> QED
    BY <2>1, <2>2
<1>2. CASE current # None
  <2>1. g = Meld(h, current, x) /\ t = MeldRoot(current, x)
    BY <1>2 DEF MaybeMeld, MaybeMeldRoot
  <2>2. current \in X /\ x \in X /\ current # x
    BY <1>2
  <2>3. \A n : n \in Y <=> n = t \/ (n \in X /\ n # current /\ n # x)
    OBVIOUS
  <2> QED
    BY <2>1, <2>2, <2>3, MeldLoose
<1> QED
  BY <1>1, <1>2

(***************************************************************************)
(* What holds between two rounds of the loop.                              *)
(***************************************************************************)
Merging(loop, h0, open, first) ==
  /\ Loose(loop.heap, h0, open, first, {loop.current} \ {None})
  /\ loop.node \in HeapNodes \cup {None}
  /\ loop.current \in HeapNodes \cup {None}
  /\ IF loop.node # None
     THEN loop.heap.parent[loop.node] = open /\ loop.heap.next[loop.node] = None
     ELSE loop.current # None /\ ChildrenOf(loop.heap, open) = {}

LEMMA RoundMerges ==
  ASSUME data \in [HeapNodes -> Nat],
         NEW h0, NEW open \in HeapNodes, NEW first, h0.parent[open] # open,
         NEW loop, Merging(loop, h0, open, first), loop.node # None,
         NEW done, done = MergeRound(loop, open)
  PROVE  /\ Merging(done, h0, open, first)
         /\ ChildrenOf(done.heap, open)
              \subseteq ChildrenOf(loop.heap, open) \ {loop.node}
<1> USE HeapAssumption
<1> DEFINE h == loop.heap
           n == loop.node
           current == loop.current
           left == h.prev[n]
           single == TakeLast(h, n, open)
           pair == TakeLast(single, left, open)
           both == Meld(pair, left, n)
           merged == MeldRoot(left, n)
<1>1. /\ n \in HeapNodes /\ current \in HeapNodes \cup {None}
      /\ h.parent[n] = open /\ h.next[n] = None
      /\ Loose(h, h0, open, first, {current} \ {None})
  BY DEF Merging
<1>2. IF left = None
      THEN /\ done.heap = MaybeMeld(single, current, n)
           /\ done.node = None
           /\ done.current = MaybeMeldRoot(current, n)
      ELSE /\ done.heap = MaybeMeld(both, current, merged)
           /\ done.node = single.prev[left]
           /\ done.current = MaybeMeldRoot(current, merged)
  BY DEF MergeRound
<1> HIDE DEF h, n, current, left, single
<1>3. PICK X : X = {current} \ {None}
  OBVIOUS
<1>4. Loose(h, h0, open, first, X) /\ Forest(h, open, first)
      /\ \A m : m \in X <=> m # None /\ m = current
  BY <1>1, <1>3 DEF Loose
<1>5. /\ ChildrenOf(single, open) = ChildrenOf(h, open) \ {n}
      /\ left # None =>
           /\ left \in HeapNodes /\ left # n
           /\ single.parent[left] = open /\ single.next[left] = None
      /\ left = None => ChildrenOf(single, open) = {}
  <2>1. /\ ChildrenOf(single, open) = ChildrenOf(h, open) \ {n}
        /\ h.prev[n] # None =>
             /\ h.prev[n] \in HeapNodes /\ h.prev[n] # n
             /\ single.parent[h.prev[n]] = open /\ single.next[h.prev[n]] = None
        /\ h.prev[n] = None => ChildrenOf(single, open) = {}
    <3>1. single = TakeLast(h, n, open)
      BY DEF single
    <3> QED
      BY <1>1, <1>4, <3>1, TakeKeepsChildren
  <2> QED
    BY <2>1 DEF left
<1>6. n # current /\ h0.parent[n] = open /\ n # open /\ current # open
      /\ (current # None => h.parent[current] = None /\ h0.parent[current] = open)
  BY <1>1, <1>4 DEF Loose
<1>7. PICK W : \A m : m \in W <=> m = n \/ m \in X
  <2>1. \A m : m \in X \cup {n} <=> m = n \/ m \in X
    OBVIOUS
  <2> QED
    BY <2>1
<1>8. Loose(single, h0, open, first, W)
  BY <1>1, <1>4, <1>7, TakeLoose DEF single
<1>9. PICK Y : \A m : m \in Y <=> m = done.current
  <2>1. \A m : m \in {done.current} <=> m = done.current
    OBVIOUS
  <2> QED
    BY <2>1
<1>10. CASE left = None
  <2>1. done.heap = MaybeMeld(single, current, n) /\ done.node = None
        /\ done.current = MaybeMeldRoot(current, n)
    BY <1>2, <1>10
  <2>2. /\ Forest(single, open, first) /\ single.parent[n] = None
        /\ current # None => single.parent[current] = None
    BY <1>1, <1>4, <1>6, <1>7, <1>8 DEF Loose
  <2>3. /\ done.current \in HeapNodes
        /\ ChildrenOf(done.heap, open) = ChildrenOf(single, open)
    BY <1>1, <1>6, <2>1, <2>2, MaybeMeldKeepsChildren
  <2>4. \A m : m \in W <=> m # None /\ (m = current \/ m = n)
    BY <1>1, <1>4, <1>7
  <2>5. Loose(done.heap, h0, open, first, Y)
    <3>1. n # None
      BY <1>1
    <3> QED
      BY <1>6, <1>8, <1>9, <2>1, <2>4, <3>1, MaybeMeldLoose
  <2>6. Y = {done.current} \ {None}
    BY <1>9, <2>3
  <2>7. Merging(done, h0, open, first)
    BY <1>5, <1>10, <2>1, <2>3, <2>5, <2>6 DEF Merging
  <2> QED
    BY <1>5, <2>3, <2>7 DEF h, n
<1>11. CASE left # None
  <2> HIDE DEF pair
  <2>1. Forest(single, open, first)
    BY <1>8 DEF Loose
  <2>2. /\ ChildrenOf(pair, open) = ChildrenOf(single, open) \ {left}
        /\ single.prev[left] # None =>
             /\ single.prev[left] \in HeapNodes
             /\ pair.parent[single.prev[left]] = open
             /\ pair.next[single.prev[left]] = None
        /\ single.prev[left] = None => ChildrenOf(pair, open) = {}
    BY <1>5, <1>11, <2>1, TakeKeepsChildren DEF pair
  <2>3. PICK Z : \A m : m \in Z <=> m = left \/ m \in W
    <3>1. \A m : m \in W \cup {left} <=> m = left \/ m \in W
      OBVIOUS
    <3> QED
      BY <3>1
  <2>4. Loose(pair, h0, open, first, Z)
    BY <1>5, <1>8, <1>11, <2>3, TakeLoose DEF pair
  <2>5. /\ left # n /\ left # current /\ left # open /\ h0.parent[left] = open
        /\ left \in Z /\ n \in Z
    BY <1>1, <1>4, <1>5, <1>7, <1>8, <1>11, <2>3 DEF Loose
  <2>6. /\ Forest(pair, open, first)
        /\ pair.parent[left] = None /\ pair.parent[n] = None
    BY <1>1, <1>5, <1>6, <1>11, <2>4, <2>5 DEF Loose
  <2> HIDE DEF both, merged
  <2>7. merged \in {left, n} /\ merged \in HeapNodes
    BY <1>1, <1>5, <1>11 DEF merged, MeldRoot
  <2>8. /\ ChildrenOf(both, open) = ChildrenOf(pair, open)
        /\ \A m \in ChildrenOf(pair, open) : both.next[m] = pair.next[m]
    BY <1>1, <1>5, <1>6, <1>11, <2>5, <2>6, MeldKeepsChildren DEF both
  <2>9. PICK V : \A m : m \in V <=> m = merged \/ (m \in Z /\ m # left /\ m # n)
    <3>1. \A m : m \in {merged} \cup (Z \ {left, n})
                   <=> m = merged \/ (m \in Z /\ m # left /\ m # n)
      OBVIOUS
    <3> QED
      BY <3>1
  <2>10. Loose(both, h0, open, first, V)
    BY <2>4, <2>5, <2>9, MeldLoose DEF both, merged
  <2>11. done.heap = MaybeMeld(both, current, merged)
         /\ done.node = single.prev[left]
         /\ done.current = MaybeMeldRoot(current, merged)
    BY <1>2, <1>11
  <2>12. merged # current /\ merged # open
    BY <1>6, <2>5, <2>7
  <2>13. \A m : m \in V <=> m # None /\ (m = current \/ m = merged)
    BY <1>4, <1>6, <1>7, <2>3, <2>5, <2>7, <2>9
  <2>14. /\ Forest(both, open, first) /\ both.parent[merged] = None
         /\ current # None => both.parent[current] = None
    BY <1>1, <1>6, <2>5, <2>7, <2>10, <2>13 DEF Loose
  <2>15. /\ done.current \in HeapNodes
         /\ ChildrenOf(done.heap, open) = ChildrenOf(both, open)
         /\ \A m \in ChildrenOf(both, open) : done.heap.next[m] = both.next[m]
    BY <1>1, <1>6, <2>7, <2>11, <2>12, <2>14, MaybeMeldKeepsChildren
  <2>16. Loose(done.heap, h0, open, first, Y)
    <3>1. merged # None
      BY <2>7
    <3> QED
      BY <1>9, <2>10, <2>11, <2>12, <2>13, <3>1, MaybeMeldLoose
  <2>17. Y = {done.current} \ {None}
    BY <1>9, <2>15
  <2>18. Merging(done, h0, open, first)
    <3>1. CASE done.node = None
      <4>1. ChildrenOf(done.heap, open) = {}
        BY <2>2, <2>8, <2>11, <2>15, <3>1
      <4> QED
        BY <2>15, <2>16, <2>17, <3>1, <4>1 DEF Merging
    <3>2. CASE done.node # None
      <4>1. done.node \in ChildrenOf(pair, open) /\ pair.next[done.node] = None
        BY <2>2, <2>11, <3>2 DEF ChildrenOf
      <4>2. done.node \in ChildrenOf(done.heap, open)
            /\ done.heap.next[done.node] = None
        BY <2>8, <2>15, <4>1
      <4> QED
        BY <2>15, <2>16, <2>17, <3>2, <4>2 DEF Merging, ChildrenOf
    <3> QED
      BY <3>1, <3>2
  <2> QED
    BY <1>5, <2>2, <2>8, <2>15, <2>18 DEF h, n
<1> QED
  BY <1>10, <1>11

(* last_child stops at a child without a next sibling. *)
LEMMA LastChildIs ==
  ASSUME NEW h, NEW open, NEW first, Forest(h, open, first),
         NEW c \in HeapNodes, NEW last, last = LastChild(h, c)
  PROVE  last \in HeapNodes /\ h.parent[last] = h.parent[c] /\ h.next[last] = None
<1> USE HeapAssumption
<1> DEFINE F == Following(h, c)
           C == {m \in HeapNodes : h.parent[m] = h.parent[c]}
<1>1. h.next \in Pointers
  BY DEF Forest, Heaps
<1>2. F \in SUBSET HeapNodes /\ c \in F
  BY DEF Following
<1>3. ASSUME NEW n \in F PROVE h.next[n] \in F \cup {None}
  <2>1. h.next[n] \in HeapNodes \cup {None}
    BY <1>1, <1>2 DEF Pointers
  <2> SUFFICES ASSUME NEW S \in SUBSET HeapNodes, c \in S,
                      \A m \in S : h.next[m] \in S \cup {None}
               PROVE  h.next[n] \in S \cup {None}
    BY <2>1 DEF Following
  <2>2. n \in S
    BY DEF Following
  <2> QED
    BY <2>2
<1>4. F \subseteq C
  <2>1. \A m \in C : h.next[m] \in C \cup {None}
    BY <1>1 DEF Forest, SiblingsLinked, Pointers
  <2>2. C \in SUBSET HeapNodes /\ c \in C
    OBVIOUS
  <2> HIDE DEF C
  <2> QED
    BY <2>1, <2>2 DEF Following
<1> HIDE DEF F
<1>5. \E n \in F : h.next[n] \notin F
  BY <1>2 DEF Forest, Founded
<1>6. \E n \in F : h.next[n] = None
  BY <1>3, <1>5
<1>7. last = CHOOSE n \in F : h.next[n] = None
  BY DEF LastChild, F
<1>8. last \in F /\ h.next[last] = None
  BY <1>6, <1>7
<1> QED
  BY <1>4, <1>8

(***************************************************************************)
(* The rounds of the loop, as the function that MergeChildren defines.     *)
(***************************************************************************)
Rounds(f, start, p, N) ==
  [k \in 0..N |-> IF k = 0 THEN start ELSE MergeRound(f[k - 1], p)]

LEMMA RoundsExist ==
  ASSUME NEW start, NEW p, NEW N \in Nat
  PROVE  \E f : f = Rounds(f, start, p, N)
<1> DEFINE T == {n \in Nat : \E f : f = Rounds(f, start, p, n)}
<1>1. 0 \in T
  <2> DEFINE f == [k \in 0..0 |-> start]
             g == [k \in 0..0 |-> IF k = 0 THEN start ELSE MergeRound(f[k - 1], p)]
  <2>1. \A k \in 0..0 : k = 0
    OBVIOUS
  <2>2. f = g
    BY <2>1
  <2>3. g = Rounds(f, start, p, 0)
    BY DEF Rounds
  <2> HIDE DEF f, g
  <2>4. f = Rounds(f, start, p, 0)
    BY <2>2, <2>3
  <2> QED
    BY <2>4
<1>2. ASSUME NEW n \in Nat, n \in T PROVE n + 1 \in T
  <2>1. PICK f : f = Rounds(f, start, p, n)
    BY <1>2
  <2> DEFINE g == [k \in 0..(n + 1) |-> IF k \in 0..n THEN f[k]
                                        ELSE MergeRound(f[n], p)]
             h == [k \in 0..(n + 1) |-> IF k = 0 THEN start
                                        ELSE MergeRound(g[k - 1], p)]
  <2>2. ASSUME NEW k \in 0..(n + 1) PROVE g[k] = h[k]
    <3>1. CASE k = 0
      <4>1. k \in 0..n /\ g[k] = f[k] /\ h[k] = start
        BY <3>1
      <4>2. f[k] = start
        BY <2>1, <3>1, <4>1 DEF Rounds
      <4> QED
        BY <4>1, <4>2
    <3>2. CASE k # 0
      <4>1. k - 1 \in 0..n /\ k - 1 \in 0..(n + 1)
        BY <3>2
      <4>2. g[k - 1] = f[k - 1] /\ h[k] = MergeRound(g[k - 1], p)
        BY <3>2, <4>1
      <4> HIDE DEF h
      <4>3. CASE k \in 0..n
        <5>1. f[k] = MergeRound(f[k - 1], p)
          BY <2>1, <3>2, <4>3 DEF Rounds
        <5>2. g[k] = f[k]
          BY <4>3
        <5> HIDE DEF g
        <5> QED
          BY <4>2, <5>1, <5>2
      <4>4. CASE k \notin 0..n
        <5>1. k - 1 = n
          BY <4>4
        <5>2. g[k] = MergeRound(f[n], p)
          BY <4>4
        <5> HIDE DEF g
        <5> QED
          BY <4>2, <5>1, <5>2
      <4> QED
        BY <4>3, <4>4
    <3> QED
      BY <3>1, <3>2
  <2>3. g = h
    <3>1. g = [k \in 0..(n + 1) |-> g[k]] /\ h = [k \in 0..(n + 1) |-> h[k]]
      OBVIOUS
    <3> HIDE DEF g, h
    <3> QED
      BY <2>2, <3>1
  <2> HIDE DEF g
  <2>4. h = Rounds(g, start, p, n + 1)
    BY DEF Rounds
  <2> HIDE DEF h
  <2>5. g = Rounds(g, start, p, n + 1)
    BY <2>3, <2>4
  <2> QED
    BY <2>5
<1> HIDE DEF T
<1>3. Nat \subseteq T
  BY <1>1, <1>2, Q!NatSetInduction
<1> QED
  BY <1>3 DEF T

(* Of fewer nodes there are fewer. *)
LEMMA FewerNodes ==
  ASSUME NEW S \in SUBSET HeapNodes, NEW n \in S, NEW R, R \subseteq S \ {n}
  PROVE  /\ Cardinality(R) \in Nat /\ Cardinality(S) \in Nat
         /\ Cardinality(R) + 1 <= Cardinality(S)
<1>1. IsFiniteSet(S)
  BY FS_Subset, HeapAssumption
<1>2. IsFiniteSet(S \ {n}) /\ Cardinality(S \ {n}) = Cardinality(S) - 1
  BY <1>1, FS_RemoveElement
<1>3. IsFiniteSet(R) /\ Cardinality(R) <= Cardinality(S \ {n})
  BY <1>2, FS_Subset
<1>4. Cardinality(R) \in Nat /\ Cardinality(S) \in Nat
  BY <1>1, <1>3, FS_CardinalityType
<1> QED
  BY <1>2, <1>3, <1>4

(* The loop ends: what it returns is one tree of all the children. *)
LEMMA MergeChildrenDone ==
  ASSUME data \in [HeapNodes -> Nat],
         NEW h, NEW open \in HeapNodes, NEW first \in HeapNodes,
         Forest(h, open, first), h.parent[first] = open,
         NEW r, r = MergeChildren(h, first)
  PROVE  Merging(r, h, open, first) /\ r.node = None
<1> USE HeapAssumption
<1> DEFINE N == Cardinality(HeapNodes)
           start == MergeStart(h, first)
           at == CHOOSE f : f = Rounds(f, start, open, N)
<1>1. N \in Nat
  BY FS_CardinalityType
<1>2. r = at[N]
  BY DEF MergeChildren, Rounds
<1> HIDE DEF N
<1>3. at = Rounds(at, start, open, N)
  <2>1. \E f : f = Rounds(f, start, open, N)
    BY <1>1, RoundsExist
  <2> HIDE DEF start
  <2> QED
    BY <2>1
<1> HIDE DEF at
<1>4. h.parent[open] # open
  <2>1. {open} \in SUBSET HeapNodes /\ {open} # {}
    OBVIOUS
  <2>2. \E n \in {open} : h.parent[n] \notin {open}
    BY <2>1 DEF Forest, Founded
  <2> QED
    BY <2>2
<1>5. start.heap = h /\ start.current = None /\ start.node \in HeapNodes
      /\ h.parent[start.node] = open /\ h.next[start.node] = None
  <2>1. h \in Heaps /\ h.ok
    BY DEF Forest
  <2>2. Check(h, h.parent[first] # None) = h
    <3>1. (h.parent[first] # None) \in BOOLEAN /\ h.parent[first] # None
      OBVIOUS
    <3> QED
      BY <2>1, <3>1, CheckHolds
  <2>3. start.heap = h /\ start.current = None
        /\ start.node = LastChild(h, first)
    BY <2>2 DEF MergeStart
  <2> HIDE DEF start
  <2> QED
    BY <2>3, LastChildIs
<1> HIDE DEF start
<1>6. Merging(start, h, open, first)
  <2>1. {start.current} \ {None} = {}
    BY <1>5
  <2>2. Loose(h, h, open, first, {})
    BY DEF Loose
  <2> QED
    BY <1>5, <2>1, <2>2 DEF Merging
<1> DEFINE T == {k \in Nat : k <= N =>
                   /\ Merging(at[k], h, open, first)
                   /\ at[k].node # None =>
                        Cardinality(ChildrenOf(at[k].heap, open)) + k <= N}
<1>7. 0 \in T
  <2>1. at[0] = start
    BY <1>1, <1>3 DEF Rounds
  <2>2. ChildrenOf(h, open) \subseteq HeapNodes
    BY DEF ChildrenOf
  <2>3. Cardinality(ChildrenOf(h, open)) <= N
        /\ Cardinality(ChildrenOf(h, open)) \in Nat
    BY <2>2, FS_Subset, FS_CardinalityType DEF N
  <2> QED
    BY <1>1, <1>5, <1>6, <2>1, <2>3
<1>8. ASSUME NEW k \in Nat, k \in T PROVE k + 1 \in T
  <2> SUFFICES ASSUME k + 1 <= N
               PROVE  /\ Merging(at[k + 1], h, open, first)
                      /\ at[k + 1].node # None =>
                           Cardinality(ChildrenOf(at[k + 1].heap, open)) + (k + 1) <= N
    OBVIOUS
  <2>1. /\ Merging(at[k], h, open, first)
        /\ at[k].node # None =>
             Cardinality(ChildrenOf(at[k].heap, open)) + k <= N
    BY <1>1, <1>8
  <2>2. at[k + 1] = MergeRound(at[k], open)
    <3>1. k + 1 \in 0..N /\ k + 1 # 0 /\ (k + 1) - 1 = k
      BY <1>1
    <3> QED
      BY <1>3, <3>1 DEF Rounds
  <2>3. CASE at[k].node = None
    BY <2>1, <2>2, <2>3 DEF MergeRound
  <2>4. CASE at[k].node # None
    <3>1. /\ Merging(at[k + 1], h, open, first)
          /\ ChildrenOf(at[k + 1].heap, open)
               \subseteq ChildrenOf(at[k].heap, open) \ {at[k].node}
      <4> DEFINE loop == at[k]
                 done == at[k + 1]
      <4>1. /\ Merging(loop, h, open, first) /\ loop.node # None
            /\ done = MergeRound(loop, open)
        BY <2>1, <2>2, <2>4
      <4> HIDE DEF loop, done
      <4>2. /\ Merging(done, h, open, first)
            /\ ChildrenOf(done.heap, open)
                 \subseteq ChildrenOf(loop.heap, open) \ {loop.node}
        BY <1>4, <4>1, RoundMerges
      <4> QED
        BY <4>2 DEF loop, done
    <3>2. ChildrenOf(at[k].heap, open) \in SUBSET HeapNodes
          /\ at[k].node \in ChildrenOf(at[k].heap, open)
      BY <2>1, <2>4 DEF Merging, ChildrenOf
    <3>3. /\ Cardinality(ChildrenOf(at[k + 1].heap, open)) \in Nat
          /\ Cardinality(ChildrenOf(at[k].heap, open)) \in Nat
          /\ Cardinality(ChildrenOf(at[k + 1].heap, open)) + 1
               <= Cardinality(ChildrenOf(at[k].heap, open))
      BY <3>1, <3>2, FewerNodes
    <3> QED
      BY <1>1, <2>1, <2>4, <3>1, <3>3
  <2> QED
    BY <2>3, <2>4
<1> HIDE DEF T
<1>9. N \in T
  BY <1>1, <1>7, <1>8, Q!NatSetInduction
<1>10. Merging(r, h, open, first)
       /\ (r.node # None => Cardinality(ChildrenOf(r.heap, open)) + N <= N)
  BY <1>1, <1>2, <1>9 DEF T
<1>11. r.node = None
  <2> SUFFICES ASSUME r.node # None PROVE FALSE
    OBVIOUS
  <2>1. r.node \in ChildrenOf(r.heap, open)
        /\ ChildrenOf(r.heap, open) \in SUBSET HeapNodes
    BY <1>10 DEF Merging, ChildrenOf
  <2>2. {} \subseteq ChildrenOf(r.heap, open) \ {r.node}
    OBVIOUS
  <2>3. /\ Cardinality(ChildrenOf(r.heap, open)) \in Nat
        /\ Cardinality({}) \in Nat
        /\ Cardinality({}) + 1 <= Cardinality(ChildrenOf(r.heap, open))
    BY <2>1, <2>2, FewerNodes
  <2> QED
    BY <1>1, <1>10, <2>3
<1> QED
  BY <1>10, <1>11

(* What the first half of remove assigns. *)
LEMMA UnlinkFields ==
  ASSUME NEW h \in Heaps, NEW n \in HeapNodes, h.parent[n] # None,
         NEW g, g = Unlink(h, n)
  PROVE  /\ g \in Heaps
         /\ g.ok <=> h.ok
         /\ g.parent = [h.parent EXCEPT ![n] = None]
         /\ \A m \in HeapNodes :
              /\ g.prev[m] = IF m = n THEN None
                             ELSE IF m = h.next[n] THEN h.prev[n] ELSE h.prev[m]
              /\ g.next[m] = IF m = n THEN None
                             ELSE IF m = h.prev[n] THEN h.next[n] ELSE h.next[m]
              /\ g.first_child[m] =
                   IF h.prev[n] = None /\ m = h.parent[n] THEN h.next[n]
                   ELSE h.first_child[m]
<1> USE HeapAssumption
<1> DEFINE p == h.parent[n]
           a == h.next[n]
           b == h.prev[n]
<1>1. /\ h.parent \in Pointers /\ h.prev \in Pointers
      /\ h.next \in Pointers /\ h.first_child \in Pointers
      /\ a \in HeapNodes \cup {None} /\ b \in HeapNodes \cup {None}
      /\ p \in HeapNodes
  BY DEF Heaps, Pointers
<1> DEFINE parents == [h.parent EXCEPT ![n] = None]
           prevs == [Point(h.prev, a, b) EXCEPT ![n] = None]
           nexts == [Point(h.next, b, a) EXCEPT ![n] = None]
           firsts == IF b # None THEN h.first_child
                     ELSE [h.first_child EXCEPT ![p] = a]
<1>2. parents \in Pointers
  BY <1>1 DEF Pointers
<1>3. prevs \in Pointers
      /\ \A m \in HeapNodes :
           prevs[m] = IF m = n THEN None ELSE IF m = a THEN b ELSE h.prev[m]
  BY <1>1 DEF Pointers, Point
<1>4. nexts \in Pointers
      /\ \A m \in HeapNodes :
           nexts[m] = IF m = n THEN None ELSE IF m = b THEN a ELSE h.next[m]
  BY <1>1 DEF Pointers, Point
<1>5. firsts \in Pointers
      /\ \A m \in HeapNodes :
           firsts[m] = IF b = None /\ m = p THEN a ELSE h.first_child[m]
  BY <1>1 DEF Pointers
<1>6. g = [h EXCEPT !.parent = parents, !.prev = prevs, !.next = nexts,
                    !.first_child = firsts]
  BY DEF Unlink
<1> HIDE DEF parents, prevs, nexts, firsts
<1>7. /\ g \in Heaps /\ (g.ok <=> h.ok) /\ g.parent = parents
      /\ g.prev = prevs /\ g.next = nexts /\ g.first_child = firsts
  BY <1>2, <1>3, <1>4, <1>5, <1>6 DEF Heaps
<1>8. g \in Heaps /\ (g.ok <=> h.ok) /\ g.parent = [h.parent EXCEPT ![n] = None]
  BY <1>7 DEF parents
<1>9. \A m \in HeapNodes :
        /\ g.prev[m] = IF m = n THEN None ELSE IF m = a THEN b ELSE h.prev[m]
        /\ g.next[m] = IF m = n THEN None ELSE IF m = b THEN a ELSE h.next[m]
        /\ g.first_child[m] = IF b = None /\ m = p THEN a ELSE h.first_child[m]
  BY <1>3, <1>4, <1>5, <1>7
<1> QED
  BY <1>8, <1>9

(* No cycle comes from a pointer that skips a node. *)
LEMMA FoundedSkip ==
  ASSUME NEW f \in Pointers, NEW g \in Pointers, Founded(f),
         NEW n \in HeapNodes, NEW a, NEW b, b = f[n],
         \A m \in HeapNodes :
           g[m] = IF m = n THEN None ELSE IF m = a THEN b ELSE f[m],
         a # None => f[a] = n,
         \A m \in HeapNodes : f[m] = n => m = a
  PROVE  Founded(g)
<1> USE HeapAssumption
<1> SUFFICES ASSUME NEW S \in SUBSET HeapNodes, S # {},
                    \A m \in S : g[m] \in S
             PROVE  FALSE
  BY DEF Founded
<1>1. n \notin S
  OBVIOUS
<1>2. CASE a \in S
  <2>1. b \in S
    BY <1>1, <1>2
  <2>2. S \cup {n} \in SUBSET HeapNodes /\ S \cup {n} # {}
    OBVIOUS
  <2>3. PICK m \in S \cup {n} : f[m] \notin S \cup {n}
    BY <2>2 DEF Founded
  <2> QED
    BY <1>1, <2>1, <2>3
<1>3. CASE a \notin S
  <2>1. PICK m \in S : f[m] \notin S
    BY DEF Founded
  <2> QED
    BY <1>1, <1>3, <2>1
<1> QED
  BY <1>2, <1>3

(* A child is taken out of the children of its parent. *)
LEMMA UnlinkForest ==
  ASSUME NEW h, Forest(h, None, None), NEW n \in HeapNodes, h.parent[n] # None,
         NEW g, g = Unlink(h, n)
  PROVE  /\ Forest(g, None, None)
         /\ g.parent = [h.parent EXCEPT ![n] = None]
         /\ g.first_child[n] = h.first_child[n]
         /\ \A m \in HeapNodes : h.first_child[m] = None => g.first_child[m] = None
<1> USE HeapAssumption
<1> DEFINE p == h.parent[n]
           a == h.next[n]
           b == h.prev[n]
<1>1. h \in Heaps /\ h.ok
  BY DEF Forest
<1>2. /\ h.parent \in Pointers /\ h.prev \in Pointers
      /\ h.next \in Pointers /\ h.first_child \in Pointers
      /\ a \in HeapNodes \cup {None} /\ b \in HeapNodes \cup {None}
      /\ p \in HeapNodes
  BY <1>1 DEF Heaps, Pointers
<1>3. /\ g \in Heaps
      /\ g.ok <=> h.ok
      /\ g.parent = [h.parent EXCEPT ![n] = None]
      /\ \A m \in HeapNodes :
           /\ g.prev[m] = IF m = n THEN None ELSE IF m = a THEN b ELSE h.prev[m]
           /\ g.next[m] = IF m = n THEN None ELSE IF m = b THEN a ELSE h.next[m]
           /\ g.first_child[m] = IF b = None /\ m = p THEN a ELSE h.first_child[m]
  BY <1>1, UnlinkFields
<1>4. \A m \in HeapNodes : g.parent[m] = IF m = n THEN None ELSE h.parent[m]
  BY <1>2, <1>3 DEF Pointers
<1>5. /\ p # n
      /\ a # None => a # n /\ h.prev[a] = n /\ h.parent[a] = p
      /\ b # None => b # n /\ h.next[b] = n /\ h.parent[b] = p
      /\ b = None => h.first_child[p] = n
  <2>1. {n} \in SUBSET HeapNodes /\ {n} # {}
    OBVIOUS
  <2>2. h.parent[n] # n /\ h.prev[n] # n /\ h.next[n] # n
    BY <2>1 DEF Forest, Founded
  <2>3. b = None => h.first_child[p] = n
    BY <1>2 DEF Forest, ChildrenListed, FirstOf
  <2>4. /\ a # None => h.prev[a] = n /\ h.parent[a] = p
        /\ b # None => h.next[b] = n /\ h.parent[b] = p
    BY <1>2 DEF Forest, SiblingsLinked
  <2> QED
    BY <2>2, <2>3, <2>4
<1>6. /\ \A m \in HeapNodes : h.prev[m] = n => m = a
      /\ \A m \in HeapNodes : h.next[m] = n => m = b
      /\ \A m \in HeapNodes : h.first_child[m] = n => m = p /\ b = None
  BY DEF Forest, SiblingsLinked, ChildrenListed
<1> HIDE DEF a, b, p
<1>7. SiblingsLinked(g)
  <2> SUFFICES ASSUME NEW m \in HeapNodes
               PROVE  /\ g.next[m] # None => /\ g.prev[g.next[m]] = m
                                             /\ g.parent[g.next[m]] = g.parent[m]
                      /\ g.prev[m] # None => g.next[g.prev[m]] = m
                      /\ g.parent[m] = None => g.next[m] = None /\ g.prev[m] = None
    BY DEF SiblingsLinked
  <2>1. /\ h.next[m] # None => /\ h.prev[h.next[m]] = m
                               /\ h.parent[h.next[m]] = h.parent[m]
        /\ h.prev[m] # None => h.next[h.prev[m]] = m
        /\ h.parent[m] = None => h.next[m] = None /\ h.prev[m] = None
    BY DEF Forest, SiblingsLinked
  <2>2. h.next[m] \in HeapNodes \cup {None} /\ h.prev[m] \in HeapNodes \cup {None}
    BY <1>2 DEF Pointers
  <2>3. ASSUME g.next[m] # None
        PROVE  g.prev[g.next[m]] = m /\ g.parent[g.next[m]] = g.parent[m]
    <3>1. m # n
      BY <1>3, <2>3
    <3>2. CASE m = b
      BY <1>2, <1>3, <1>4, <1>5, <2>3, <3>1, <3>2
    <3>3. CASE m # b
      <4>1. g.next[m] = h.next[m] /\ h.next[m] # n /\ h.next[m] # a
        BY <1>3, <1>5, <1>6, <2>1, <2>2, <2>3, <3>1, <3>3
      <4> QED
        BY <1>3, <1>4, <2>1, <2>2, <2>3, <3>1, <4>1
    <3> QED
      BY <3>2, <3>3
  <2>4. ASSUME g.prev[m] # None PROVE g.next[g.prev[m]] = m
    <3>1. m # n
      BY <1>3, <2>4
    <3>2. CASE m = a
      BY <1>2, <1>3, <1>5, <2>4, <3>1, <3>2
    <3>3. CASE m # a
      <4>1. g.prev[m] = h.prev[m] /\ h.prev[m] # n /\ h.prev[m] # b
        BY <1>3, <1>5, <1>6, <2>1, <2>2, <2>4, <3>1, <3>3
      <4> QED
        BY <1>3, <2>1, <2>2, <2>4, <4>1
    <3> QED
      BY <3>2, <3>3
  <2>5. g.parent[m] = None => g.next[m] = None /\ g.prev[m] = None
    BY <1>2, <1>3, <1>4, <1>5, <2>1
  <2> QED
    BY <2>3, <2>4, <2>5
<1>8. ChildrenListed(g, None, None)
  <2> SUFFICES ASSUME NEW m \in HeapNodes
               PROVE  /\ g.first_child[m] # None =>
                           /\ g.parent[g.first_child[m]] = m
                           /\ g.prev[g.first_child[m]] = None
                      /\ g.parent[m] # None /\ g.prev[m] = None =>
                           m = FirstOf(g, None, None, g.parent[m])
    BY DEF ChildrenListed
  <2>1. /\ h.first_child[m] # None => /\ h.parent[h.first_child[m]] = m
                                      /\ h.prev[h.first_child[m]] = None
        /\ h.parent[m] # None /\ h.prev[m] = None =>
             m = h.first_child[h.parent[m]]
    BY DEF Forest, ChildrenListed, FirstOf
  <2>2. h.first_child[m] \in HeapNodes \cup {None}
        /\ h.parent[m] \in HeapNodes \cup {None}
    BY <1>2 DEF Pointers
  <2>3. ASSUME g.first_child[m] # None
        PROVE  g.parent[g.first_child[m]] = m /\ g.prev[g.first_child[m]] = None
    <3>1. CASE b = None /\ m = p
      BY <1>2, <1>3, <1>4, <1>5, <2>3, <3>1
    <3>2. CASE ~(b = None /\ m = p)
      <4>1. g.first_child[m] = h.first_child[m] /\ h.first_child[m] # n
            /\ h.first_child[m] # a
        BY <1>3, <1>5, <1>6, <2>1, <2>3, <3>2
      <4> QED
        BY <1>3, <1>4, <2>1, <2>2, <2>3, <4>1
    <3> QED
      BY <3>1, <3>2
  <2>4. ASSUME g.parent[m] # None, g.prev[m] = None
        PROVE  m = g.first_child[g.parent[m]]
    <3>1. m # n /\ g.parent[m] = h.parent[m]
      BY <1>4, <2>4
    <3>2. CASE m = a
      BY <1>2, <1>3, <1>5, <2>4, <3>1, <3>2
    <3>3. CASE m # a
      <4>1. m = h.first_child[h.parent[m]]
        BY <1>3, <2>1, <2>4, <3>1, <3>3
      <4>2. ~(b = None /\ h.parent[m] = p)
        BY <1>5, <3>1, <4>1
      <4> QED
        BY <1>3, <2>2, <2>4, <3>1, <4>1, <4>2
    <3> QED
      BY <3>2, <3>3
  <2> QED
    BY <2>3, <2>4 DEF FirstOf
<1>9. HeapOrdered(g)
  BY <1>4 DEF HeapOrdered, Forest
<1>10. Founded(g.parent) /\ Founded(g.prev) /\ Founded(g.next)
  <2>1. g.parent \in Pointers /\ g.prev \in Pointers /\ g.next \in Pointers
    BY <1>3 DEF Heaps
  <2>2. Founded(h.parent) /\ Founded(h.prev) /\ Founded(h.next)
    BY DEF Forest
  <2>3. Founded(g.parent)
    BY <1>2, <1>4, <2>1, <2>2, FoundedCut
  <2>4. a = h.next[n] /\ b = h.prev[n]
    BY DEF a, b
  <2>5. Founded(g.prev)
    <3> DEFINE old == h.prev
               new == g.prev
    <3>1. /\ old \in Pointers /\ new \in Pointers /\ Founded(old)
          /\ b = old[n]
          /\ a # None => old[a] = n
      BY <1>2, <1>5, <2>1, <2>2, <2>4
    <3>2. /\ \A m \in HeapNodes :
               new[m] = IF m = n THEN None ELSE IF m = a THEN b ELSE old[m]
          /\ \A m \in HeapNodes : old[m] = n => m = a
      BY <1>3, <1>6
    <3> HIDE DEF old, new
    <3>3. Founded(new)
      BY <3>1, <3>2, FoundedSkip
    <3> QED
      BY <3>3 DEF new
  <2>6. Founded(g.next)
    <3> DEFINE old == h.next
               new == g.next
    <3>1. /\ old \in Pointers /\ new \in Pointers /\ Founded(old)
          /\ a = old[n]
          /\ b # None => old[b] = n
      BY <1>2, <1>5, <2>1, <2>2, <2>4
    <3>2. /\ \A m \in HeapNodes :
               new[m] = IF m = n THEN None ELSE IF m = b THEN a ELSE old[m]
          /\ \A m \in HeapNodes : old[m] = n => m = b
      BY <1>3, <1>6
    <3> HIDE DEF old, new
    <3>3. Founded(new)
      BY <3>1, <3>2, FoundedSkip
    <3> QED
      BY <3>3 DEF new
  <2> QED
    BY <2>3, <2>5, <2>6
<1>11. Forest(g, None, None)
  BY <1>1, <1>3, <1>7, <1>8, <1>9, <1>10 DEF Forest
<1>12. g.first_child[n] = h.first_child[n]
  BY <1>3, <1>5
<1>13. \A m \in HeapNodes : h.first_child[m] = None => g.first_child[m] = None
  BY <1>3, <1>5
<1> QED
  BY <1>3, <1>11, <1>12, <1>13

(* first_child.take() of the removed node. *)
Childless(h, n) == [h EXCEPT !.first_child = [@ EXCEPT ![n] = None]]

LEMMA OpenForest ==
  ASSUME NEW h, Forest(h, None, None), NEW n \in HeapNodes,
         NEW g, g = Childless(h, n),
         NEW first, first = h.first_child[n]
  PROVE  /\ Forest(g, n, first)
         /\ g.parent = h.parent
         /\ g.first_child = [h.first_child EXCEPT ![n] = None]
         /\ first = None => g = h
<1> USE HeapAssumption
<1>1. h \in Heaps /\ h.ok /\ h.first_child \in Pointers /\ h.parent \in Pointers
  BY DEF Forest, Heaps
<1>2. [h.first_child EXCEPT ![n] = None] \in Pointers
  BY <1>1 DEF Pointers
<1>3. /\ g \in Heaps /\ g.ok = h.ok /\ g.parent = h.parent /\ g.prev = h.prev
      /\ g.next = h.next /\ g.first_child = [h.first_child EXCEPT ![n] = None]
  BY <1>1, <1>2 DEF Heaps, Childless
<1>4. \A m \in HeapNodes :
        g.first_child[m] = IF m = n THEN None ELSE h.first_child[m]
  BY <1>1, <1>3 DEF Pointers
<1>5. first = None => g = h
  <2>1. ASSUME first = None PROVE [h.first_child EXCEPT ![n] = None] = h.first_child
    BY <1>1, <2>1 DEF Pointers
  <2> QED
    BY <1>1, <2>1 DEF Heaps, Childless
<1>6. SiblingsLinked(g)
  BY <1>3 DEF Forest, SiblingsLinked
<1>7. ChildrenListed(g, n, first)
  <2>1. \A m \in HeapNodes : h.parent[m] \in HeapNodes \cup {None}
    BY <1>1 DEF Pointers
  <2> QED
    BY <1>3, <1>4, <2>1 DEF Forest, ChildrenListed, FirstOf
<1>8. HeapOrdered(g)
  BY <1>3 DEF Forest, HeapOrdered
<1>9. Founded(g.parent) /\ Founded(g.prev) /\ Founded(g.next)
  BY <1>3 DEF Forest
<1>10. Forest(g, n, first)
  BY <1>1, <1>3, <1>4, <1>6, <1>7, <1>8, <1>9 DEF Forest
<1> QED
  BY <1>3, <1>5, <1>10

(* The list of children is used up. *)
LEMMA CloseForest ==
  ASSUME NEW h, NEW open \in HeapNodes, NEW first, Forest(h, open, first),
         ChildrenOf(h, open) = {}
  PROVE  Forest(h, None, None)
<1>1. \A m \in HeapNodes : h.parent[m] # open
  BY DEF ChildrenOf
<1>2. ChildrenListed(h, None, None)
  BY <1>1 DEF Forest, ChildrenListed, FirstOf
<1> QED
  BY <1>2 DEF Forest

(* The nodes that are not below a child are closed upwards. *)
LEMMA NotBelow ==
  ASSUME NEW h, NEW open, NEW first, Forest(h, open, first),
         NEW n \in HeapNodes, NEW p, p = h.parent[n], p # None
  PROVE  \E A \in SUBSET HeapNodes : ClosedUpwards(h, A) /\ p \in A /\ n \notin A
<1> USE HeapAssumption
<1> DEFINE Below(S) == /\ n \in S
                       /\ \A m \in HeapNodes : h.parent[m] \in S => m \in S
           D == {m \in HeapNodes : \A S \in SUBSET HeapNodes : Below(S) => m \in S}
<1>1. \A m \in HeapNodes : h.parent[m] \in HeapNodes \cup {None}
  BY DEF Forest, Heaps, Pointers
<1>2. D \in SUBSET HeapNodes /\ n \in D
  OBVIOUS
<1>3. ASSUME NEW m \in HeapNodes, h.parent[m] \in D PROVE m \in D
  BY <1>3
<1>4. \A S \in SUBSET HeapNodes : Below(S) => D \subseteq S
  OBVIOUS
<1> HIDE DEF D
<1>5. ASSUME NEW m \in D, m # n PROVE h.parent[m] \in D
  <2> SUFFICES ASSUME h.parent[m] \notin D PROVE FALSE
    OBVIOUS
  <2>1. D \ {m} \in SUBSET HeapNodes /\ Below(D \ {m})
    BY <1>2, <1>3, <1>5
  <2>2. D \subseteq D \ {m}
    BY <1>4, <2>1
  <2> QED
    BY <2>2
<1>6. p \notin D
  <2> SUFFICES ASSUME p \in D PROVE FALSE
    OBVIOUS
  <2>1. PICK m \in D : h.parent[m] \notin D
    BY <1>2 DEF Forest, Founded
  <2> QED
    BY <1>5, <2>1
<1> DEFINE A == HeapNodes \ D
<1>7. A \in SUBSET HeapNodes /\ p \in A /\ n \notin A
  BY <1>1, <1>2, <1>6
<1>8. ClosedUpwards(h, A)
  BY <1>1, <1>3 DEF ClosedUpwards
<1> HIDE DEF A
<1> QED
  BY <1>7, <1>8

(* A parent has a first child. *)
LEMMA ParentHasChild ==
  ASSUME NEW h, Forest(h, None, None), NEW n \in HeapNodes, h.parent[n] # None
  PROVE  h.first_child[h.parent[n]] # None
<1> DEFINE p == h.parent[n]
           C == ChildrenOf(h, p)
<1> USE HeapAssumption
<1>1. C \in SUBSET HeapNodes /\ C # {}
  BY DEF ChildrenOf
<1>2. PICK m \in C : h.prev[m] \notin C
  <2> HIDE DEF C
  <2> QED
    BY <1>1 DEF Forest, Founded
<1>3. m \in HeapNodes /\ h.parent[m] = p /\ h.prev[m] \in HeapNodes \cup {None}
  BY DEF ChildrenOf, Forest, Heaps, Pointers
<1>4. h.prev[m] = None
  <2> SUFFICES ASSUME h.prev[m] \in HeapNodes PROVE FALSE
    BY <1>3
  <2>1. h.next[h.prev[m]] = m
    BY <1>3 DEF Forest, SiblingsLinked
  <2>2. h.parent[h.prev[m]] = p
    BY <1>3, <2>1 DEF Forest, SiblingsLinked
  <2> QED
    BY <1>2, <2>2 DEF ChildrenOf
<1> QED
  BY <1>3, <1>4 DEF Forest, ChildrenListed, FirstOf

-----------------------------------------------------------------------------
(* The heap is empty at first. *)
LEMMA HeapInitInv == HeapInit => HeapInv
<1> SUFFICES ASSUME HeapInit PROVE HeapInv
  OBVIOUS
<1> USE HeapAssumption
<1>1. data \in [HeapNodes -> Nat]
  BY DEF HeapInit
<1>2. /\ heap \in Heaps /\ heap.ok
      /\ heap.parent = NoPointers /\ heap.prev = NoPointers
      /\ heap.next = NoPointers /\ heap.first_child = NoPointers
  BY DEF HeapInit, Heaps, Pointers, NoPointers
<1>3. \A n \in HeapNodes : NoPointers[n] = None
  BY DEF NoPointers
<1>4. Founded(NoPointers)
  BY <1>3 DEF Founded
<1>5. SiblingsLinked(heap) /\ ChildrenListed(heap, None, None) /\ HeapOrdered(heap)
  BY <1>2, <1>3 DEF SiblingsLinked, ChildrenListed, HeapOrdered
<1>6. Forest(heap, None, None)
  BY <1>2, <1>4, <1>5 DEF Forest
<1> QED
  BY <1>1, <1>2, <1>3, <1>6 DEF HeapInv, HeapInit

(* insert melds the root and the new node. *)
LEMMA HeapInsertInv ==
  ASSUME HeapInv, NEW n \in HeapNodes, HeapInsert(n)
  PROVE  HeapInv'
<1> USE HeapAssumption
<1>1. /\ data \in [HeapNodes -> Nat] /\ data' = data
      /\ Forest(heap, None, None) /\ heap \in Heaps /\ heap.ok
      /\ heap.parent \in Pointers /\ heap.first_child \in Pointers
  BY DEF HeapInv, Forest, Heaps, HeapInsert
<1>2. /\ n \notin inserted /\ heap.parent[n] = None /\ n # root
      /\ heap.first_child[n] = None
      /\ inserted' = inserted \cup {n} /\ inserted' \in SUBSET HeapNodes
  BY DEF HeapInv, HeapInsert
<1>3. Check(heap, IsRoot(heap, n) /\ heap.first_child[n] = None) = heap
  <2>1. IsRoot(heap, n)
    BY <1>2 DEF IsRoot, HeapInv, Forest, SiblingsLinked
  <2> QED
    BY <1>1, <1>2, <2>1, CheckHolds
<1>4. heap' = MaybeMeld(heap, root, n) /\ root' = MaybeMeldRoot(root, n)
  BY <1>3 DEF HeapInsert
<1>5. CASE root = None
  <2>1. heap' = heap /\ root' = n
    BY <1>4, <1>5 DEF MaybeMeld, MaybeMeldRoot
  <2>2. Forest(heap, None, None)'
    BY <1>1, <2>1 DEF Forest, SiblingsLinked, ChildrenListed, HeapOrdered, FirstOf
  <2> QED
    BY <1>1, <1>2, <1>5, <2>1, <2>2 DEF HeapInv
<1>6. CASE root # None
  <2>1. heap' = Meld(heap, root, n) /\ root' = MeldRoot(root, n)
        /\ root \in HeapNodes /\ heap.parent[root] = None
    BY <1>4, <1>6 DEF MaybeMeld, MaybeMeldRoot, HeapInv
  <2> DEFINE g == Meld(heap, root, n)
             t == MeldRoot(root, n)
  <2>2. PICK c \in {root, n} :
          /\ t \in {root, n} /\ c # t
          /\ Forest(g, None, None)
          /\ g.parent = [heap.parent EXCEPT ![c] = t]
          /\ g.first_child = [heap.first_child EXCEPT ![t] = c]
    <3>1. root # n /\ root # None /\ n # None
      BY <1>2, <1>6
    <3> QED
      BY <1>1, <1>2, <2>1, <3>1, MeldForest
  <2> HIDE DEF g, t
  <2>3. heap' = g /\ root' = t
    BY <2>1 DEF g, t
  <2>4. Forest(heap, None, None)'
    BY <1>1, <2>2, <2>3
      DEF Forest, SiblingsLinked, ChildrenListed, HeapOrdered, FirstOf
  <2>5. \A m \in HeapNodes :
          /\ heap'.parent[m] = IF m = c THEN t ELSE heap.parent[m]
          /\ heap'.first_child[m] = IF m = t THEN c ELSE heap.first_child[m]
    BY <1>1, <2>2, <2>3 DEF Pointers
  <2>6. root' \in HeapNodes /\ heap'.parent[root'] = None
    BY <1>2, <2>1, <2>2, <2>3, <2>5
  <2>7. \A m \in HeapNodes :
          /\ m \in inserted' <=> heap'.parent[m] # None \/ m = root'
          /\ m \notin inserted' => heap'.first_child[m] = None
    BY <1>2, <2>1, <2>2, <2>3, <2>5 DEF HeapInv
  <2> QED
    BY <1>1, <1>2, <2>4, <2>6, <2>7 DEF HeapInv
<1> QED
  BY <1>5, <1>6

(* remove: the node is alone, then its children are one tree. *)
LEMMA AloneForest ==
  ASSUME HeapInv, NEW n \in inserted, NEW g, g = Alone(n)
  PROVE  /\ Forest(g, None, None)
         /\ \A m \in HeapNodes :
              g.parent[m] = IF m = n THEN None ELSE heap.parent[m]
         /\ g.first_child[n] = heap.first_child[n]
         /\ \A m \in HeapNodes :
              heap.first_child[m] = None => g.first_child[m] = None
         /\ heap.parent[n] = None => g = heap /\ root = n
<1> USE HeapAssumption
<1>1. /\ Forest(heap, None, None) /\ heap \in Heaps /\ heap.ok
      /\ heap.parent \in Pointers /\ n \in HeapNodes
  BY DEF HeapInv, Forest, Heaps
<1>2. CASE heap.parent[n] = None
  <2>1. heap.next[n] = None /\ heap.prev[n] = None /\ root = n
    BY <1>1, <1>2 DEF HeapInv, Forest, SiblingsLinked
  <2>2. Check(heap, heap.next[n] = None /\ heap.prev[n] = None /\ root = n) = heap
    BY <1>1, <2>1, CheckHolds
  <2>3. g = heap
    BY <1>2, <2>2 DEF Alone
  <2> QED
    BY <1>1, <1>2, <2>1, <2>3
<1>3. CASE heap.parent[n] # None
  <2>1. g = Unlink(heap, n)
    BY <1>3 DEF Alone
  <2>2. /\ Forest(g, None, None)
        /\ g.parent = [heap.parent EXCEPT ![n] = None]
        /\ g.first_child[n] = heap.first_child[n]
        /\ \A m \in HeapNodes :
             heap.first_child[m] = None => g.first_child[m] = None
    BY <1>1, <1>3, <2>1, UnlinkForest
  <2>3. \A m \in HeapNodes : g.parent[m] = IF m = n THEN None ELSE heap.parent[m]
    BY <1>1, <2>2 DEF Pointers
  <2> QED
    BY <1>3, <2>2, <2>3
<1> QED
  BY <1>2, <1>3

(* Then its list of children is taken, if it has one. *)
LEMMA OpenedForest ==
  ASSUME HeapInv, NEW n \in inserted,
         NEW g, g = Childless(Alone(n), n)
  PROVE  /\ Forest(g, n, heap.first_child[n])
         /\ heap.first_child[n] = None => Forest(g, None, None)
         /\ Alone(n).first_child[n] = heap.first_child[n]
         /\ \A m \in HeapNodes :
              g.parent[m] = IF m = n THEN None ELSE heap.parent[m]
         /\ \A m \in HeapNodes :
              m = n \/ heap.first_child[m] = None => g.first_child[m] = None
<1> DEFINE f == Alone(n)
           first == heap.first_child[n]
<1>1. n \in HeapNodes
  BY DEF HeapInv
<1>2. /\ Forest(f, None, None)
      /\ \A m \in HeapNodes : f.parent[m] = IF m = n THEN None ELSE heap.parent[m]
      /\ f.first_child[n] = first
      /\ \A m \in HeapNodes : heap.first_child[m] = None => f.first_child[m] = None
  BY AloneForest
<1>3. g = Childless(f, n) /\ first = f.first_child[n]
  BY <1>2
<1> HIDE DEF f, first
<1>4. /\ Forest(g, n, first)
      /\ g.parent = f.parent
      /\ g.first_child = [f.first_child EXCEPT ![n] = None]
      /\ first = None => g = f
  BY <1>1, <1>2, <1>3, OpenForest
<1>5. f.first_child \in Pointers
  BY <1>2 DEF Forest, Heaps
<1>6. \A m \in HeapNodes :
        m = n \/ heap.first_child[m] = None => g.first_child[m] = None
  BY <1>2, <1>4, <1>5 DEF Pointers
<1>7. first = None => Forest(g, None, None)
  BY <1>2, <1>4
<1> QED
  BY <1>2, <1>4, <1>6, <1>7 DEF f, first

(* The children become one tree. *)
LEMMA MergedForest ==
  ASSUME data \in [HeapNodes -> Nat],
         NEW g, NEW n \in HeapNodes, NEW first \in HeapNodes,
         Forest(g, n, first), g.parent[first] = n,
         NEW r, r = MergeChildren(g, first)
  PROVE  /\ r.current \in HeapNodes
         /\ Forest(r.heap, None, None)
         /\ \A m \in HeapNodes :
              IF g.parent[m] = n THEN r.heap.parent[m] = None <=> m = r.current
              ELSE /\ m # r.current
                   /\ r.heap.parent[m] = g.parent[m]
                   /\ r.heap.first_child[m] = g.first_child[m]
<1> USE HeapAssumption
<1>1. Merging(r, g, n, first) /\ r.node = None
  BY MergeChildrenDone
<1>2. /\ r.current \in HeapNodes /\ ChildrenOf(r.heap, n) = {}
      /\ Loose(r.heap, g, n, first, {r.current} \ {None})
  BY <1>1 DEF Merging
<1>3. Forest(r.heap, None, None)
  <2>1. Forest(r.heap, n, first)
    BY <1>2 DEF Loose
  <2> QED
    BY <1>2, <2>1, CloseForest
<1> QED
  BY <1>2, <1>3 DEF Loose

LEMMA ChildrenMerged ==
  ASSUME HeapInv, NEW n \in HeapNodes,
         NEW g, NEW first \in HeapNodes, Forest(g, n, first),
         heap.parent[first] = n,
         \A m \in HeapNodes : g.parent[m] = IF m = n THEN None ELSE heap.parent[m],
         \A m \in HeapNodes :
           m = n \/ heap.first_child[m] = None => g.first_child[m] = None,
         NEW r, r = MergeChildren(g, first)
  PROVE  /\ Forest(r.heap, None, None)
         /\ r.current \in HeapNodes /\ heap.parent[r.current] = n
         /\ r.heap.parent[r.current] = None
         /\ r.heap.parent[n] = None /\ r.heap.first_child[n] = None
         /\ \A m \in HeapNodes \ {n, r.current} :
              r.heap.parent[m] = None <=> heap.parent[m] = None
         /\ \A m \in HeapNodes \ {n} :
              heap.parent[m] # n => r.heap.parent[m] = heap.parent[m]
         /\ \A m \in HeapNodes :
              heap.parent[m] # n /\ heap.first_child[m] = None =>
                r.heap.first_child[m] = None
<1> USE HeapAssumption
<1>1. data \in [HeapNodes -> Nat] /\ Founded(heap.parent)
  BY DEF HeapInv, Forest
<1>2. heap.parent[n] # n
  <2>1. {n} \in SUBSET HeapNodes /\ {n} # {}
    OBVIOUS
  <2>2. \E m \in {n} : heap.parent[m] \notin {n}
    BY <1>1, <2>1 DEF Founded
  <2> QED
    BY <2>2
<1>3. g.parent[first] = n
  BY <1>1, <1>2
<1>4. r.current \in HeapNodes
  BY <1>1, <1>3, MergedForest
<1>5. Forest(r.heap, None, None)
  BY <1>1, <1>3, MergedForest
<1>6. \A m \in HeapNodes :
        IF g.parent[m] = n THEN r.heap.parent[m] = None <=> m = r.current
        ELSE /\ m # r.current
             /\ r.heap.parent[m] = g.parent[m]
             /\ r.heap.first_child[m] = g.first_child[m]
  BY <1>1, <1>3, MergedForest
<1>7. g.parent[r.current] = n /\ r.current # n /\ g.parent[n] = None
  BY <1>2, <1>4, <1>6
<1> QED
  BY <1>2, <1>4, <1>5, <1>6, <1>7

(* The pointers that an operation leaves are those of the next state. *)
LEMMA ForestKept ==
  ASSUME NEW g, Forest(g, None, None), heap' = g, data' = data
  PROVE  Forest(heap, None, None)'
  BY DEF Forest, SiblingsLinked, ChildrenListed, HeapOrdered, FirstOf

(* The tree of the children is put where the node was. *)
LEMMA PutBackForest ==
  ASSUME HeapInv, NEW n \in HeapNodes, NEW p, p = heap.parent[n], p # None,
         NEW h, Forest(h, None, None),
         NEW c \in HeapNodes, heap.parent[c] = n, h.parent[c] = None,
         \A m \in HeapNodes \ {n} :
           heap.parent[m] # n => h.parent[m] = heap.parent[m],
         NEW g, g = AddChild(h, p, c)
  PROVE  /\ Forest(g, None, None)
         /\ p \in HeapNodes /\ p # n /\ heap.first_child[p] # None
         /\ \A m \in HeapNodes :
              /\ g.parent[m] = IF m = c THEN p ELSE h.parent[m]
              /\ g.first_child[m] = IF m = p THEN c ELSE h.first_child[m]
<1> USE HeapAssumption
<1>1. /\ data \in [HeapNodes -> Nat] /\ Forest(heap, None, None)
      /\ p \in HeapNodes
  BY DEF HeapInv, Forest, Heaps, Pointers
<1>2. heap.first_child[p] # None
  BY <1>1, ParentHasChild
<1>3. PICK A \in SUBSET HeapNodes :
        ClosedUpwards(heap, A) /\ p \in A /\ n \notin A
  BY <1>1, NotBelow
<1>4. ClosedUpwards(h, A)
  <2>1. \A m \in A : m \in HeapNodes \ {n} /\ heap.parent[m] # n
    BY <1>3 DEF ClosedUpwards
  <2> QED
    BY <1>3, <2>1 DEF ClosedUpwards
<1>5. c \notin A
  BY <1>3 DEF ClosedUpwards
<1>6. data[p] <= data[c]
  <2>1. data[p] <= data[n] /\ data[n] <= data[c]
    BY <1>1 DEF Forest, HeapOrdered
  <2>2. data[p] \in Nat /\ data[n] \in Nat /\ data[c] \in Nat
    BY <1>1
  <2> QED
    BY <2>1, <2>2
<1>7. /\ Forest(g, None, None)
      /\ g.parent = [h.parent EXCEPT ![c] = p]
      /\ g.first_child = [h.first_child EXCEPT ![p] = c]
  <2>1. Forest(g, None, None)
    BY <1>1, <1>3, <1>4, <1>5, <1>6, AddChildForest
  <2>2. /\ g.parent = [h.parent EXCEPT ![c] = p]
        /\ g.first_child = [h.first_child EXCEPT ![p] = c]
    BY <1>1, <1>3, <1>4, <1>5, <1>6, AddChildForest
  <2> QED
    BY <2>1, <2>2
<1>8. h.parent \in Pointers /\ h.first_child \in Pointers
  BY DEF Forest, Heaps
<1>9. \A m \in HeapNodes :
        /\ g.parent[m] = IF m = c THEN p ELSE h.parent[m]
        /\ g.first_child[m] = IF m = p THEN c ELSE h.first_child[m]
  BY <1>7, <1>8 DEF Pointers
<1> QED
  BY <1>1, <1>2, <1>3, <1>7, <1>9

LEMMA HeapRemoveInv ==
  ASSUME HeapInv, NEW n \in HeapNodes, HeapRemove(n)
  PROVE  HeapInv'
<1> USE HeapAssumption
<1> DEFINE p == heap.parent[n]
           first == Alone(n).first_child[n]
           g == Childless(Alone(n), n)
           r == MergeChildren(g, first)
<1>1. /\ n \in inserted /\ inserted' = inserted \ {n}
      /\ inserted' \in SUBSET HeapNodes
      /\ data' = data /\ data \in [HeapNodes -> Nat] /\ data' \in [HeapNodes -> Nat]
  BY DEF HeapRemove, HeapInv
<1>2. IF first = None
      THEN heap' = g /\ root' = IF p = None THEN None ELSE root
      ELSE IF p # None
      THEN heap' = AddChild(r.heap, p, r.current) /\ root' = root
      ELSE heap' = r.heap /\ root' = r.current
  BY DEF HeapRemove, Childless
<1>3. /\ Forest(g, n, first)
      /\ first = None => Forest(g, None, None)
      /\ first = heap.first_child[n]
      /\ \A m \in HeapNodes : g.parent[m] = IF m = n THEN None ELSE heap.parent[m]
      /\ \A m \in HeapNodes :
           m = n \/ heap.first_child[m] = None => g.first_child[m] = None
  <2>1. g = Childless(Alone(n), n)
    OBVIOUS
  <2> HIDE DEF g
  <2>2. /\ Forest(g, n, heap.first_child[n])
        /\ heap.first_child[n] = None => Forest(g, None, None)
        /\ Alone(n).first_child[n] = heap.first_child[n]
    BY <1>1, <2>1, OpenedForest
  <2>3. \A m \in HeapNodes : g.parent[m] = IF m = n THEN None ELSE heap.parent[m]
    BY <1>1, <2>1, OpenedForest
  <2>4. \A m \in HeapNodes :
          m = n \/ heap.first_child[m] = None => g.first_child[m] = None
    BY <1>1, <2>1, OpenedForest
  <2> QED
    BY <2>2, <2>3, <2>4
<1>4. r = MergeChildren(g, first)
  OBVIOUS
<1> HIDE DEF first, g, r
<1>5. /\ p = None <=> n = root
      /\ root \in HeapNodes \cup {None}
      /\ root # None => heap.parent[root] = None
      /\ \A m \in HeapNodes :
           /\ m \in inserted <=> heap.parent[m] # None \/ m = root
           /\ m \notin inserted => heap.first_child[m] = None
  BY <1>1 DEF HeapInv
<1>6. CASE first = None
  <2>1. Forest(heap, None, None)'
    BY <1>1, <1>2, <1>3, <1>6, ForestKept
  <2>2. heap' = g /\ root' = IF p = None THEN None ELSE root
    BY <1>2, <1>6
  <2>3. root' \in HeapNodes \cup {None} /\ (root' # None => heap'.parent[root'] = None)
    BY <1>3, <1>5, <2>2
  <2>4. \A m \in HeapNodes :
          /\ m \in inserted' <=> heap'.parent[m] # None \/ m = root'
          /\ m \notin inserted' => heap'.first_child[m] = None
    BY <1>1, <1>3, <1>5, <2>2
  <2> QED
    BY <1>1, <2>1, <2>3, <2>4 DEF HeapInv
<1>7. CASE first # None
  <2>1. first \in HeapNodes /\ heap.parent[first] = n
    BY <1>3, <1>7 DEF HeapInv, Forest, Heaps, Pointers, ChildrenListed
  <2>2. /\ Forest(r.heap, None, None)
        /\ r.current \in HeapNodes /\ heap.parent[r.current] = n
        /\ r.heap.parent[r.current] = None
        /\ r.heap.parent[n] = None /\ r.heap.first_child[n] = None
        /\ \A m \in HeapNodes \ {n, r.current} :
             r.heap.parent[m] = None <=> heap.parent[m] = None
        /\ \A m \in HeapNodes \ {n} :
             heap.parent[m] # n => r.heap.parent[m] = heap.parent[m]
        /\ \A m \in HeapNodes :
             heap.parent[m] # n /\ heap.first_child[m] = None =>
               r.heap.first_child[m] = None
    BY <1>3, <1>4, <2>1, ChildrenMerged
  <2>3. CASE p = None
    <3>1. heap' = r.heap /\ root' = r.current
      BY <1>2, <1>7, <2>3
    <3>2. Forest(heap, None, None)'
      BY <1>1, <2>2, <3>1, ForestKept
    <3>3. root' \in HeapNodes /\ heap'.parent[root'] = None
      BY <2>2, <3>1
    <3>4. \A m \in HeapNodes :
            /\ m \in inserted' <=> heap'.parent[m] # None \/ m = root'
            /\ m \notin inserted' => heap'.first_child[m] = None
      BY <1>1, <1>5, <2>2, <2>3, <3>1
    <3> QED
      BY <1>1, <3>2, <3>3, <3>4 DEF HeapInv
  <2>4. CASE p # None
    <3> DEFINE h == r.heap
               c == r.current
               k == AddChild(h, p, c)
    <3>1. /\ Forest(k, None, None)
          /\ p \in HeapNodes /\ p # n /\ heap.first_child[p] # None
          /\ \A m \in HeapNodes :
               /\ k.parent[m] = IF m = c THEN p ELSE h.parent[m]
               /\ k.first_child[m] = IF m = p THEN c ELSE h.first_child[m]
      <4>1. /\ Forest(h, None, None)
            /\ c \in HeapNodes /\ heap.parent[c] = n /\ h.parent[c] = None
            /\ \A m \in HeapNodes \ {n} :
                 heap.parent[m] # n => h.parent[m] = heap.parent[m]
            /\ k = AddChild(h, p, c)
            /\ p = heap.parent[n]
        BY <2>2
      <4> HIDE DEF h, c, k, p
      <4> QED
        BY <2>4, <4>1, PutBackForest
    <3>2. heap' = k /\ root' = root
      BY <1>2, <1>7, <2>4
    <3> HIDE DEF k
    <3>3. Forest(heap, None, None)'
      BY <1>1, <3>1, <3>2, ForestKept
    <3>4. root' \in HeapNodes \cup {None} /\ (root' # None => heap'.parent[root'] = None)
      BY <1>5, <2>2, <2>4, <3>1, <3>2
    <3>5. \A m \in HeapNodes :
            /\ m \in inserted' <=> heap'.parent[m] # None \/ m = root'
            /\ m \notin inserted' => heap'.first_child[m] = None
      BY <1>1, <1>5, <2>2, <2>4, <3>1, <3>2
    <3> QED
      BY <1>1, <3>3, <3>4, <3>5 DEF HeapInv
  <2> QED
    BY <2>3, <2>4
<1> QED
  BY <1>6, <1>7

-----------------------------------------------------------------------------
(* The parent of a node of the heap is in the heap. *)
LEMMA ParentIsInserted ==
  ASSUME HeapInv, NEW n \in HeapNodes, heap.parent[n] # None
  PROVE  heap.parent[n] \in inserted
<1>1. heap.parent[n] \in HeapNodes
  BY DEF HeapInv, Forest, Heaps, Pointers
<1>2. heap.first_child[heap.parent[n]] # None
  BY ParentHasChild DEF HeapInv
<1> QED
  BY <1>1, <1>2 DEF HeapInv

(* What can be reached from the root is what was inserted and not removed. *)
LEMMA TreeIsInserted ==
  ASSUME HeapInv
  PROVE  Tree = inserted
<1> USE HeapAssumption
<1>1. /\ inserted \in SUBSET HeapNodes /\ Forest(heap, None, None)
      /\ heap.parent \in Pointers /\ heap.prev \in Pointers
      /\ heap.next \in Pointers /\ heap.first_child \in Pointers
      /\ \A n \in HeapNodes : n \in inserted <=> heap.parent[n] # None \/ n = root
      /\ root \in HeapNodes \cup {None}
  BY DEF HeapInv, Forest, Heaps
<1>2. Tree \subseteq inserted
  <2>1. root \in inserted \cup {None}
    BY <1>1
  <2>2. ASSUME NEW m \in inserted
        PROVE  {heap.next[m], heap.first_child[m]} \subseteq inserted \cup {None}
    <3>1. m \in HeapNodes /\ heap.next[m] \in HeapNodes \cup {None}
          /\ heap.first_child[m] \in HeapNodes \cup {None}
      BY <1>1 DEF Pointers
    <3>2. heap.next[m] # None => heap.parent[heap.next[m]] = heap.parent[m]
                                 /\ heap.parent[m] # None
      BY <1>1, <3>1 DEF Forest, SiblingsLinked
    <3>3. heap.first_child[m] # None => heap.parent[heap.first_child[m]] = m
      BY <1>1, <3>1 DEF Forest, ChildrenListed
    <3> QED
      BY <1>1, <3>1, <3>2, <3>3
  <2> QED
    BY <1>1, <2>1, <2>2 DEF Tree
<1>3. inserted \subseteq Tree
  <2> SUFFICES ASSUME NEW S \in SUBSET HeapNodes,
                      root \in S \cup {None},
                      \A m \in S : {heap.next[m], heap.first_child[m]}
                                     \subseteq S \cup {None},
                      inserted \ S # {}
               PROVE  FALSE
    BY <1>1 DEF Tree
  <2>1. inserted \ S \in SUBSET HeapNodes
    BY <1>1
  <2>2. PICK m \in inserted \ S : heap.parent[m] \notin inserted \ S
    BY <1>1, <2>1 DEF Forest, Founded
  <2>3. m \in HeapNodes /\ heap.parent[m] # None
    BY <1>1, <2>2
  <2> DEFINE p == heap.parent[m]
             C == {x \in HeapNodes : heap.parent[x] = p /\ x \notin S}
  <2>4. p \in S
    BY <2>2, <2>3, ParentIsInserted
  <2>5. C \in SUBSET HeapNodes /\ C # {}
    BY <2>2, <2>3
  <2>6. PICK x \in C : heap.prev[x] \notin C
    <3> HIDE DEF C
    <3> QED
      BY <1>1, <2>5 DEF Forest, Founded
  <2>7. x \in HeapNodes /\ x \notin S /\ heap.parent[x] = p
        /\ heap.prev[x] \in HeapNodes \cup {None}
    BY <1>1, <2>6 DEF Pointers
  <2>8. CASE heap.prev[x] = None
    <3>1. heap.first_child[p] = x
      BY <1>1, <2>3, <2>7, <2>8 DEF Forest, ChildrenListed, FirstOf
    <3> QED
      BY <2>4, <2>7, <3>1
  <2>9. CASE heap.prev[x] \in HeapNodes
    <3>1. heap.next[heap.prev[x]] = x
      BY <1>1, <2>7, <2>9 DEF Forest, SiblingsLinked
    <3>2. heap.parent[heap.prev[x]] = p
      BY <1>1, <2>7, <2>9, <3>1 DEF Forest, SiblingsLinked
    <3>3. heap.prev[x] \in S
      BY <2>6, <2>9, <3>2
    <3> QED
      BY <2>7, <3>1, <3>3
  <2> QED
    BY <2>7, <2>8, <2>9
<1> QED
  BY <1>2, <1>3

(* The data does not grow on the way up to the root. *)
LEMMA RootIsLeast ==
  ASSUME HeapInv
  PROVE  IF inserted = {} THEN root = None
         ELSE root \in inserted /\ \A m \in inserted : data[root] <= data[m]
<1> USE HeapAssumption
<1>1. /\ inserted \in SUBSET HeapNodes /\ Forest(heap, None, None)
      /\ data \in [HeapNodes -> Nat] /\ root \in HeapNodes \cup {None}
      /\ \A n \in HeapNodes : n \in inserted <=> heap.parent[n] # None \/ n = root
  BY DEF HeapInv
<1>2. inserted = {} => root = None
  BY <1>1
<1>3. inserted # {} => root \in inserted
  <2> SUFFICES ASSUME inserted # {}, root \notin inserted PROVE FALSE
    OBVIOUS
  <2>1. PICK n \in inserted : heap.parent[n] \notin inserted
    BY <1>1 DEF Forest, Founded
  <2> QED
    BY <1>1, <2>1, ParentIsInserted
<1>4. ASSUME root \in inserted PROVE \A m \in inserted : data[root] <= data[m]
  <2> DEFINE U == {m \in inserted : ~(data[root] <= data[m])}
  <2> SUFFICES ASSUME U # {} PROVE FALSE
    OBVIOUS
  <2>1. U \in SUBSET HeapNodes
    BY <1>1
  <2>2. PICK m \in U : heap.parent[m] \notin U
    <3> HIDE DEF U
    <3> QED
      BY <1>1, <2>1 DEF Forest, Founded
  <2>3. m \in HeapNodes /\ root \in HeapNodes /\ m # root
    BY <1>1, <1>4, <2>2
  <2>4. heap.parent[m] # None /\ heap.parent[m] \in inserted
    BY <1>1, <2>2, <2>3, ParentIsInserted
  <2>5. data[heap.parent[m]] <= data[m] /\ heap.parent[m] \in HeapNodes
    BY <1>1, <2>3, <2>4 DEF Forest, HeapOrdered
  <2>6. data[root] <= data[heap.parent[m]]
    BY <2>2, <2>4
  <2>7. data[root] \in Nat /\ data[m] \in Nat /\ data[heap.parent[m]] \in Nat
    BY <1>1, <2>3, <2>5
  <2> QED
    BY <2>2, <2>5, <2>6, <2>7
<1> QED
  BY <1>2, <1>3, <1>4

(***************************************************************************)
(* What insert and remove rest on: the pointers are a forest in heap       *)
(* order, of one tree whose root is the heap's and of nodes alone.         *)
(***************************************************************************)
THEOREM HeapInvariance == HeapSpec => []HeapInv
<1>1. HeapInit => HeapInv
  BY HeapInitInv
<1>2. HeapInv /\ [HeapNext]_heapVars => HeapInv'
  <2> SUFFICES ASSUME HeapInv, [HeapNext]_heapVars PROVE HeapInv'
    OBVIOUS
  <2>1. ASSUME NEW n \in HeapNodes, HeapInsert(n) PROVE HeapInv'
    BY <2>1, HeapInsertInv
  <2>2. ASSUME NEW n \in HeapNodes, HeapRemove(n) PROVE HeapInv'
    BY <2>2, HeapRemoveInv
  <2>3. CASE UNCHANGED heapVars
    BY <2>3 DEF heapVars, HeapInv, Forest, SiblingsLinked, ChildrenListed,
                HeapOrdered, FirstOf
  <2> QED
    BY <2>1, <2>2, <2>3 DEF HeapNext
<1> QED
  BY <1>1, <1>2, PTL DEF HeapSpec

(***************************************************************************)
(* For any number of nodes and whatever their data, the pointers of the    *)
(* heap are sound after every insert and remove, and no debug_assert of    *)
(* the source fails.                                                       *)
(***************************************************************************)
THEOREM HeapPointers == HeapSpec => []HeapIsSound
<1>1. HeapInv => HeapIsSound
  BY HeapAssumption DEF HeapInv, HeapIsSound, Forest, SiblingsLinked, ChildrenListed,
     HeapOrdered, FirstOf
<1> QED
  BY <1>1, HeapInvariance, PTL

(* What a reader of the heap sees: all that is inserted, and a least of it. *)
ReadsInserted ==
  /\ Tree = inserted
  /\ IF inserted = {} THEN root = None
     ELSE root \in inserted /\ \A m \in inserted : data[root] <= data[m]

(* A step of the heap is one of the priority queue. *)
LEMMA HeapStepRefines ==
  ASSUME ReadsInserted, ReadsInserted', HeapNext
  PROVE  Abstract!Next
<1>1. Tree = inserted /\ Tree' = inserted'
  BY DEF ReadsInserted
<1>2. Abstract!Peek
  <2>1. IF inserted' = {} THEN root' = None
        ELSE root' \in inserted' /\ \A m \in inserted' : data'[root'] <= data'[m]
    BY DEF ReadsInserted
  <2>2. data' = data
    BY DEF HeapNext, HeapInsert, HeapRemove
  <2> QED
    BY <1>1, <2>1, <2>2 DEF Abstract!Peek, Abstract!IsLeast
<1>3. ASSUME NEW n \in HeapNodes, HeapInsert(n) PROVE Abstract!Insert(n)
  BY <1>1, <1>2, <1>3 DEF HeapInsert, Abstract!Insert
<1>4. ASSUME NEW n \in HeapNodes, HeapRemove(n) PROVE Abstract!Remove(n)
  BY <1>1, <1>2, <1>4 DEF HeapRemove, Abstract!Remove
<1> QED
  BY <1>3, <1>4 DEF HeapNext, Abstract!Next

(***************************************************************************)
(* For any number of nodes and whatever their data, insert and remove      *)
(* change what can be reached from the root by just their node (the merge  *)
(* of the children loses none), and peek_min returns a least of the rest.  *)
(***************************************************************************)
THEOREM ImplementsPriorityQueue == HeapSpec => IsPriorityQueue
<1>1. HeapInv => ReadsInserted
  BY TreeIsInserted, RootIsLeast DEF ReadsInserted
<1>2. HeapInit => Abstract!Init
  <2> SUFFICES ASSUME HeapInit PROVE Abstract!Init
    OBVIOUS
  <2>1. ReadsInserted
    BY <1>1, HeapInitInv
  <2> QED
    BY <2>1, HeapAssumption DEF ReadsInserted, HeapInit, Abstract!Init
<1>3. ReadsInserted /\ ReadsInserted' /\ [HeapNext]_heapVars
        => [Abstract!Next]_(Abstract!vars)
  <2>1. CASE UNCHANGED heapVars
    BY <2>1 DEF heapVars, Tree, Abstract!vars
  <2> QED
    BY <2>1, HeapStepRefines
<1> QED
  BY <1>1, <1>2, <1>3, HeapInvariance, PTL
    DEF HeapSpec, IsPriorityQueue, Abstract!Spec
=============================================================================
