----------------------------- MODULE WaitQueue -----------------------------
(***************************************************************************)
(* The intrusive doubly linked list of wait nodes, as the synchronisation  *)
(* primitives see it: a sequence of nodes.  add_front puts the newest node *)
(* at the head and every primitive serves the tail, so the sequence is     *)
(* written from the tail to the head: q[1] is the oldest node, the one     *)
(* peek_last_mut and remove_last return.                                   *)
(***************************************************************************)
EXTENDS Integers, Sequences

(***************************************************************************)
(* LinkedList::add_front: the node becomes the head, the youngest waiter.  *)
(***************************************************************************)
AddFront(q, node) == Append(q, node)

(***************************************************************************)
(* LinkedList::peek_last_mut and ::remove_last, on a list that is not      *)
(* empty (the callers test the returned Option first).                     *)
(***************************************************************************)
PeekLast(q) == Head(q)
RemoveLast(q) == Tail(q)

IsEmpty(q) == q = << >>

(***************************************************************************)
(* Whether the node is linked into the list: what ::remove finds out from  *)
(* the node's prev pointer and the list's head, and returns as its result. *)
(***************************************************************************)
IsLinked(q, node) == \E i \in 1..Len(q) : q[i] = node

(***************************************************************************)
(* LinkedList::remove: unlinks the node wherever it is, keeps the order of *)
(* the others, and leaves the list alone when the node is not in it.       *)
(***************************************************************************)
Position(q, node) == CHOOSE i \in 1..Len(q) : q[i] = node

Remove(q, node) ==
  IF IsLinked(q, node)
  THEN LET k == Position(q, node)
       IN  [i \in 1..(Len(q) - 1) |-> IF i < k THEN q[i] ELSE q[i + 1]]
  ELSE q

(***************************************************************************)
(* The nodes in the list, and the fact that no node is linked twice.       *)
(***************************************************************************)
Nodes(q) == {q[i] : i \in 1..Len(q)}

Distinct(q) == \A i, j \in 1..Len(q) : q[i] = q[j] => i = j

(***************************************************************************)
(* Going from q to r nobody overtakes: a node of r that was already in q   *)
(* has, before it in r, only nodes that were before it in q.               *)
(***************************************************************************)
KeepsOrder(q, r) ==
  \A i, j \in 1..Len(r) :
    i < j /\ IsLinked(q, r[j]) =>
      \E k, l \in 1..Len(q) : k < l /\ q[k] = r[i] /\ q[l] = r[j]
=============================================================================
