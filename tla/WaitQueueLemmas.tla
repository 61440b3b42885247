--------------------------- MODULE WaitQueueLemmas ---------------------------
(***************************************************************************)
(* What the wait queue's operations do to its nodes and to their order,    *)
(* for queues of any length; and the induction over naturals that several  *)
(* of the proofs need.                                                     *)
(***************************************************************************)
EXTENDS WaitQueue, SequenceTheorems, FiniteSetTheorems, TLAPS

(* Being linked is being among the nodes. *)
LEMMA IsLinkedNodes ==
  ASSUME NEW q, NEW node
  PROVE  IsLinked(q, node) <=> node \in Nodes(q)
  BY DEF IsLinked, Nodes

(* A queue with no node is the empty sequence, and conversely. *)
LEMMA EmptyNodes ==
  ASSUME NEW S, NEW q \in Seq(S)
  PROVE  IsEmpty(q) <=> Nodes(q) = {}
<1>1. Len(q) \in Nat /\ (q = << >> <=> Len(q) = 0)
  BY EmptySeq, LenProperties
<1>2. Len(q) # 0 => q[1] \in Nodes(q)
  BY <1>1 DEF Nodes
<1> QED
  BY <1>1, <1>2 DEF Nodes, IsEmpty

(* add_front: the new node comes last, after all the others. *)
LEMMA AddFrontProperties ==
  ASSUME NEW S, NEW q \in Seq(S), NEW node \in S
  PROVE  /\ AddFront(q, node) \in Seq(S)
         /\ Len(AddFront(q, node)) = Len(q) + 1
         /\ \A i \in 1..Len(q) : AddFront(q, node)[i] = q[i]
         /\ AddFront(q, node)[Len(q) + 1] = node
         /\ Nodes(AddFront(q, node)) = Nodes(q) \cup {node}
         /\ Distinct(q) /\ node \notin Nodes(q) => Distinct(AddFront(q, node))
<1> DEFINE r == AddFront(q, node)
<1>1. /\ r \in Seq(S) /\ Len(r) = Len(q) + 1 /\ Len(q) \in Nat
      /\ \A i \in 1..Len(q) : r[i] = q[i]
      /\ r[Len(q) + 1] = node
  BY AppendProperties, LenProperties DEF AddFront
<1> HIDE DEF r
<1>2. Nodes(r) = Nodes(q) \cup {node}
  <2>1. Nodes(r) \subseteq Nodes(q) \cup {node}
    BY <1>1 DEF Nodes
  <2>2. Nodes(q) \subseteq Nodes(r)
    BY <1>1 DEF Nodes
  <2>3. node \in Nodes(r)
    <3>1. Len(q) + 1 \in 1..Len(r)
      BY <1>1
    <3> QED
      BY <3>1, <1>1 DEF Nodes
  <2> QED
    BY <2>1, <2>2, <2>3
<1>3. ASSUME Distinct(q), node \notin Nodes(q)  PROVE Distinct(r)
  <2> SUFFICES ASSUME NEW i \in 1..Len(r), NEW j \in 1..Len(r), r[i] = r[j]
               PROVE  i = j
    BY DEF Distinct
  <2>1. CASE i \in 1..Len(q) /\ j \in 1..Len(q)
    BY <2>1, <1>1, <1>3 DEF Distinct
  <2>2. CASE i = Len(q) + 1 /\ j = Len(q) + 1
    BY <2>2
  <2>3. CASE i = Len(q) + 1 /\ j \in 1..Len(q)
    BY <2>3, <1>1, <1>3 DEF Nodes
  <2>4. CASE i \in 1..Len(q) /\ j = Len(q) + 1
    BY <2>4, <1>1, <1>3 DEF Nodes
  <2> QED
    BY <2>1, <2>2, <2>3, <2>4, <1>1
<1> QED
  BY <1>1, <1>2, <1>3 DEF r

(* peek_last_mut and remove_last take the oldest node, and only that one. *)
LEMMA RemoveLastProperties ==
  ASSUME NEW S, NEW q \in Seq(S), ~IsEmpty(q)
  PROVE  /\ PeekLast(q) \in S
         /\ PeekLast(q) \in Nodes(q)
         /\ PeekLast(q) = q[1]
         /\ RemoveLast(q) \in Seq(S)
         /\ Len(RemoveLast(q)) = Len(q) - 1
         /\ \A i \in 1..(Len(q) - 1) : RemoveLast(q)[i] = q[i + 1]
         /\ Distinct(q) => /\ Distinct(RemoveLast(q))
                           /\ Nodes(RemoveLast(q)) = Nodes(q) \ {PeekLast(q)}
<1> DEFINE r == RemoveLast(q)
<1>1. /\ Len(q) \in Nat /\ Len(q) # 0
      /\ PeekLast(q) = q[1] /\ q[1] \in S
      /\ r \in Seq(S) /\ Len(r) = Len(q) - 1
      /\ \A i \in 1..(Len(q) - 1) : r[i] = q[i + 1]
  BY HeadTailProperties, LenProperties, EmptySeq, ElementOfSeq
     DEF PeekLast, RemoveLast, IsEmpty
<1> HIDE DEF r
<1>2. PeekLast(q) \in Nodes(q)
  BY <1>1 DEF Nodes
<1>3. ASSUME Distinct(q)  PROVE Distinct(r)
  BY <1>1, <1>3 DEF Distinct
<1>4. ASSUME Distinct(q)  PROVE Nodes(r) = Nodes(q) \ {PeekLast(q)}
  <2>1. Nodes(r) \subseteq Nodes(q)
    BY <1>1 DEF Nodes
  <2>2. q[1] \notin Nodes(r)
    BY <1>1, <1>4 DEF Nodes, Distinct
  <2>3. ASSUME NEW i \in 1..Len(q), q[i] # q[1]  PROVE q[i] \in Nodes(r)
    <3>1. i - 1 \in 1..Len(r) /\ r[i - 1] = q[i]
      BY <1>1, <2>3
    <3> QED
      BY <3>1 DEF Nodes
  <2> QED
    BY <1>1, <2>1, <2>2, <2>3 DEF Nodes
<1> QED
  BY <1>1, <1>2, <1>3, <1>4 DEF r

(* remove: the node is gone, the others keep their order. *)
LEMMA RemoveProperties ==
  ASSUME NEW S, NEW q \in Seq(S), NEW node, IsLinked(q, node), Distinct(q)
  PROVE  /\ Remove(q, node) \in Seq(S)
         /\ Len(Remove(q, node)) = Len(q) - 1
         /\ \E k \in 1..Len(q) :
              /\ q[k] = node
              /\ \A i \in 1..(Len(q) - 1) :
                   Remove(q, node)[i] = IF i < k THEN q[i] ELSE q[i + 1]
         /\ Distinct(Remove(q, node))
         /\ Nodes(Remove(q, node)) = Nodes(q) \ {node}
<1> DEFINE r == Remove(q, node)
           k == Position(q, node)
<1>1. k \in 1..Len(q) /\ q[k] = node
  BY DEF IsLinked, Position
<1>2. Len(q) \in Nat /\ \A i \in 1..Len(q) : q[i] \in S
  BY LenProperties, ElementOfSeq
<1>3. r = [i \in 1..(Len(q) - 1) |-> IF i < k THEN q[i] ELSE q[i + 1]]
  BY DEF Remove
<1> HIDE DEF r, k
<1>4. r \in [1..(Len(q) - 1) -> S] /\ Len(q) - 1 \in Nat
  BY <1>1, <1>2, <1>3
<1>5. r \in Seq(S)
  BY <1>4, SeqDef
<1>6. Len(r) = Len(q) - 1
  BY <1>4, <1>5, LenProperties
<1>7. \A i \in 1..(Len(q) - 1) : r[i] = IF i < k THEN q[i] ELSE q[i + 1]
  BY <1>3
<1>8. Distinct(r)
  <2> SUFFICES ASSUME NEW i \in 1..Len(r), NEW j \in 1..Len(r), r[i] = r[j]
               PROVE  i = j
    BY DEF Distinct
  <2>1. CASE i < k /\ j < k
    BY <2>1, <1>1, <1>2, <1>6, <1>7 DEF Distinct
  <2>2. CASE i < k /\ ~(j < k)
    <3>1. i \in 1..Len(q) /\ j + 1 \in 1..Len(q) /\ q[i] = q[j + 1] /\ i # j + 1
      BY <2>2, <1>1, <1>2, <1>6, <1>7
    <3> QED
      BY <3>1 DEF Distinct
  <2>3. CASE ~(i < k) /\ j < k
    <3>1. i + 1 \in 1..Len(q) /\ j \in 1..Len(q) /\ q[i + 1] = q[j] /\ i + 1 # j
      BY <2>3, <1>1, <1>2, <1>6, <1>7
    <3> QED
      BY <3>1 DEF Distinct
  <2>4. CASE ~(i < k) /\ ~(j < k)
    <3>1. i + 1 \in 1..Len(q) /\ j + 1 \in 1..Len(q) /\ q[i + 1] = q[j + 1]
      BY <2>4, <1>1, <1>2, <1>6, <1>7
    <3>2. i + 1 = j + 1
      BY <3>1 DEF Distinct
    <3> QED
      BY <3>2, <1>2, <1>6
  <2> QED
    BY <2>1, <2>2, <2>3, <2>4
<1>9. Nodes(r) = Nodes(q) \ {node}
  <2>1. ASSUME NEW i \in 1..Len(r)  PROVE r[i] \in Nodes(q) \ {node}
    <3>1. CASE i < k
      BY <3>1, <2>1, <1>1, <1>2, <1>6, <1>7 DEF Nodes, Distinct
    <3>2. CASE ~(i < k)
      <4>1. i + 1 \in 1..Len(q) /\ r[i] = q[i + 1] /\ i + 1 # k
        BY <3>2, <2>1, <1>1, <1>2, <1>6, <1>7
      <4> QED
        BY <4>1, <1>1 DEF Nodes, Distinct
    <3> QED
      BY <3>1, <3>2
  <2>2. ASSUME NEW i \in 1..Len(q), q[i] # node  PROVE q[i] \in Nodes(r)
    <3>1. CASE i < k
      <4>1. i \in 1..Len(r) /\ r[i] = q[i]
        BY <3>1, <2>2, <1>1, <1>2, <1>6, <1>7
      <4> QED
        BY <4>1 DEF Nodes
    <3>2. CASE ~(i < k)
      <4>1. i - 1 \in 1..Len(r) /\ r[i - 1] = q[i]
        BY <3>2, <2>2, <1>1, <1>2, <1>6, <1>7
      <4> QED
        BY <4>1 DEF Nodes
    <3> QED
      BY <3>1, <3>2
  <2> QED
    BY <2>1, <2>2 DEF Nodes
<1> QED
  BY <1>1, <1>5, <1>6, <1>7, <1>8, <1>9 DEF r

(* Removing a node that is not the oldest leaves the oldest where it is. *)
LEMMA RemoveKeepsLast ==
  ASSUME NEW S, NEW q \in Seq(S), NEW node, IsLinked(q, node), Distinct(q),
         node # PeekLast(q)
  PROVE  ~IsEmpty(Remove(q, node)) /\ PeekLast(Remove(q, node)) = PeekLast(q)
<1> DEFINE r == Remove(q, node)
<1>1. PICK k \in 1..Len(q) : /\ q[k] = node
                             /\ \A i \in 1..(Len(q) - 1) :
                                  r[i] = IF i < k THEN q[i] ELSE q[i + 1]
  BY RemoveProperties
<1>2. r \in Seq(S) /\ Len(r) = Len(q) - 1 /\ Len(q) \in Nat
  BY RemoveProperties, LenProperties
<1> HIDE DEF r
<1>3. ~IsEmpty(q)
  BY <1>1, <1>2, EmptySeq DEF IsEmpty
<1>4. PeekLast(q) = q[1]
  BY <1>3, RemoveLastProperties
<1>5. k > 1 /\ Len(r) >= 1 /\ r[1] = q[1]
  BY <1>1, <1>2, <1>4
<1>6. ~IsEmpty(r)
  BY <1>2, <1>5, EmptySeq DEF IsEmpty
<1>7. PeekLast(r) = r[1]
  BY <1>2, <1>6, RemoveLastProperties
<1> QED
  BY <1>4, <1>5, <1>6, <1>7 DEF r

(* Adding a node leaves the oldest where it is. *)
LEMMA AddFrontKeepsLast ==
  ASSUME NEW S, NEW q \in Seq(S), NEW node \in S
  PROVE  /\ ~IsEmpty(AddFront(q, node))
         /\ PeekLast(AddFront(q, node)) = IF IsEmpty(q) THEN node ELSE PeekLast(q)
<1> DEFINE r == AddFront(q, node)
<1>1. r \in Seq(S) /\ Len(r) = Len(q) + 1 /\ Len(q) \in Nat
  BY AddFrontProperties, LenProperties
<1>2. \A i \in 1..Len(q) : r[i] = q[i]
  BY AddFrontProperties
<1>3. r[Len(q) + 1] = node
  BY AddFrontProperties
<1> HIDE DEF r
<1>4. ~IsEmpty(r) /\ PeekLast(r) = r[1]
  <2>1. ~IsEmpty(r)
    BY <1>1, EmptySeq DEF IsEmpty
  <2> QED
    BY <1>1, <2>1, RemoveLastProperties
<1>5. ASSUME IsEmpty(q)  PROVE PeekLast(r) = node
  BY <1>3, <1>4, <1>5, EmptySeq DEF IsEmpty
<1>6. ASSUME ~IsEmpty(q)  PROVE PeekLast(r) = PeekLast(q)
  <2>1. PeekLast(q) = q[1]
    BY <1>6, RemoveLastProperties
  <2>2. 1 \in 1..Len(q)
    BY <1>6, EmptySeq DEF IsEmpty
  <2> QED
    BY <1>2, <1>4, <2>1, <2>2
<1> QED
  BY <1>4, <1>5, <1>6 DEF r

(* The queue without its n oldest nodes. *)
LEMMA DropOldestProperties ==
  ASSUME NEW S, NEW q \in Seq(S), Distinct(q), NEW n \in 0..Len(q)
  PROVE  /\ SubSeq(q, n + 1, Len(q)) \in Seq(S)
         /\ Distinct(SubSeq(q, n + 1, Len(q)))
         /\ Nodes(SubSeq(q, n + 1, Len(q))) = Nodes(q) \ {q[i] : i \in 1..n}
<1> DEFINE r == SubSeq(q, n + 1, Len(q))
<1>1. Len(q) \in Nat /\ \A i \in 1..Len(q) : q[i] \in S
  BY LenProperties, ElementOfSeq
<1>2. r = [i \in 1..(Len(q) - n) |-> q[n + i]]
  BY <1>1
<1> HIDE DEF r
<1>3. r \in [1..(Len(q) - n) -> S] /\ Len(q) - n \in Nat
  BY <1>1, <1>2
<1>4. r \in Seq(S)
  BY <1>3, SeqDef
<1>5. Len(r) = Len(q) - n
  BY <1>3, <1>4, LenProperties
<1>6. \A i \in 1..Len(r) : n + i \in 1..Len(q) /\ r[i] = q[n + i]
  BY <1>1, <1>2, <1>5
<1>7. Distinct(r)
  <2> SUFFICES ASSUME NEW i \in 1..Len(r), NEW j \in 1..Len(r), r[i] = r[j]
               PROVE  i = j
    BY DEF Distinct
  <2>1. n + i = n + j
    BY <1>6 DEF Distinct
  <2> QED
    BY <2>1, <1>1, <1>5
<1>8. Nodes(r) = Nodes(q) \ {q[i] : i \in 1..n}
  <2>1. ASSUME NEW i \in 1..Len(r)
        PROVE  r[i] \in Nodes(q) \ {q[j] : j \in 1..n}
    <3>1. \A j \in 1..n : j \in 1..Len(q) /\ j # n + i
      BY <1>1, <1>5
    <3> QED
      BY <1>6, <3>1 DEF Nodes, Distinct
  <2>2. ASSUME NEW i \in 1..Len(q), q[i] \notin {q[j] : j \in 1..n}
        PROVE  q[i] \in Nodes(r)
    <3>1. ~(i \in 1..n)
      BY <2>2
    <3>2. i - n \in 1..Len(r) /\ r[i - n] = q[i]
      BY <3>1, <1>1, <1>5, <1>6
    <3> QED
      BY <3>2 DEF Nodes
  <2> QED
    BY <2>1, <2>2 DEF Nodes
<1> QED
  BY <1>4, <1>7, <1>8 DEF r

(* None of the operations lets a node overtake another. *)
LEMMA SameKeepsOrder ==
  ASSUME NEW q
  PROVE  KeepsOrder(q, q)
  BY DEF KeepsOrder

LEMMA AddFrontKeepsOrder ==
  ASSUME NEW S, NEW q \in Seq(S), NEW node \in S, node \notin Nodes(q)
  PROVE  KeepsOrder(q, AddFront(q, node))
<1> DEFINE r == AddFront(q, node)
<1>1. Len(r) = Len(q) + 1 /\ Len(q) \in Nat
  BY AddFrontProperties, LenProperties
<1>2. \A i \in 1..Len(q) : r[i] = q[i]
  BY AddFrontProperties
<1>3. r[Len(q) + 1] = node
  BY AddFrontProperties
<1> HIDE DEF r
<1> SUFFICES ASSUME NEW i \in 1..Len(r), NEW j \in 1..Len(r),
                    i < j, IsLinked(q, r[j])
             PROVE  \E k, l \in 1..Len(q) : k < l /\ q[k] = r[i] /\ q[l] = r[j]
  BY DEF KeepsOrder, r
<1>4. j # Len(q) + 1
  BY <1>3, IsLinkedNodes
<1>5. i \in 1..Len(q) /\ j \in 1..Len(q)
  BY <1>1, <1>4
<1> QED
  BY <1>2, <1>5

LEMMA RemoveKeepsOrder ==
  ASSUME NEW S, NEW q \in Seq(S), NEW node, IsLinked(q, node), Distinct(q)
  PROVE  KeepsOrder(q, Remove(q, node))
<1> DEFINE r == Remove(q, node)
<1>1. PICK p \in 1..Len(q) : /\ q[p] = node
                             /\ \A i \in 1..(Len(q) - 1) :
                                  r[i] = IF i < p THEN q[i] ELSE q[i + 1]
  BY RemoveProperties
<1>2. Len(r) = Len(q) - 1 /\ Len(q) \in Nat
  BY RemoveProperties, LenProperties
<1> HIDE DEF r
<1> SUFFICES ASSUME NEW i \in 1..Len(r), NEW j \in 1..Len(r), i < j
             PROVE  \E k, l \in 1..Len(q) : k < l /\ q[k] = r[i] /\ q[l] = r[j]
  BY DEF KeepsOrder, r
<1> DEFINE k == IF i < p THEN i ELSE i + 1
           l == IF j < p THEN j ELSE j + 1
<1>3. k \in 1..Len(q) /\ l \in 1..Len(q) /\ k < l /\ q[k] = r[i] /\ q[l] = r[j]
  BY <1>1, <1>2
<1> QED
  BY <1>3

-----------------------------------------------------------------------------
(***************************************************************************)
(* Induction over the naturals, for a set: the provers cannot instantiate  *)
(* the library's rule for an operator.  If the set missed m, the numbers   *)
(* up to m that it misses would be closed under predecessor, and there are *)
(* too many of them for that.                                              *)
(***************************************************************************)
LEMMA NatSetInduction ==
  ASSUME NEW T, 0 \in T, \A n \in Nat : n \in T => n + 1 \in T
  PROVE  Nat \subseteq T
<1> SUFFICES ASSUME NEW m \in Nat, m \notin T PROVE FALSE
  OBVIOUS
<1> DEFINE B == {n \in 0..m : n \notin T}
           C == B \ {m}
           pred == [n \in B |-> n - 1]
<1>1. IsFiniteSet(B) /\ m \in B /\ \A n \in B : n \in 0..m
  <2>1. IsFiniteSet(0..m)
    BY FS_Interval
  <2> QED
    BY <2>1, FS_Subset
<1>2. \A n \in B : n # 0 /\ n - 1 \in C
  <2> SUFFICES ASSUME NEW n \in B PROVE n # 0 /\ n - 1 \in C
    OBVIOUS
  <2>1. n \in Nat /\ n # 0 /\ n <= m
    BY <1>1
  <2>2. n - 1 \in Nat /\ n - 1 + 1 = n /\ n - 1 # m /\ n - 1 <= m
    BY <2>1
  <2>3. n - 1 \notin T
    BY <2>2
  <2> QED
    BY <2>1, <2>2, <2>3
<1>3. pred \in [B -> C]
  BY <1>2
<1>4. \A x, y \in B : pred[x] = pred[y] => x = y
  BY <1>1
<1> HIDE DEF B, pred
<1>5. IsFiniteSet(C) /\ Cardinality(C) = Cardinality(B) - 1
  BY <1>1, FS_RemoveElement
<1>6. Cardinality(B) \in Nat
  BY <1>1, FS_CardinalityType
<1> HIDE DEF C
<1>7. Cardinality(C) < Cardinality(B)
  BY <1>5, <1>6
<1>8. \E x, y \in B : x # y /\ pred[x] = pred[y]
  BY <1>1, <1>3, <1>5, <1>7, FS_PigeonHole
<1> QED
  BY <1>4, <1>8
=============================================================================
