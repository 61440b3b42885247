--------------------------- MODULE IntrusiveList ---------------------------
(***************************************************************************)
(* The intrusive doubly linked list                                        *)
(* (src/intrusive_double_linked_list.rs), with its pointers.  A node lives *)
(* inside a future; the list only links nodes.                             *)
(*                                                                         *)
(* A definition marked "a slip" is the code with one plausible mistake.    *)
(***************************************************************************)
EXTENDS Integers, Sequences, FiniteSets

CONSTANTS ListNodes, NoNode    \* the nodes; the value None of a pointer

ASSUME ListAssumption == IsFiniteSet(ListNodes) /\ NoNode \notin ListNodes

VARIABLES
  head, tail,   \* LinkedList
  prev, next,   \* ListNode, for every node
  handed_out,   \* what the latest removing operation returned or called back
  list_panicked \* a debug_assert failed

listVars == <<head, tail, prev, next, handed_out, list_panicked>>

(* LinkedList::new, and ListNode::new for every node. *)
ListInit ==
  /\ head = NoNode
  /\ tail = NoNode
  /\ prev = [n \in ListNodes |-> NoNode]
  /\ next = [n \in ListNodes |-> NoNode]
  /\ handed_out = << >>
  /\ list_panicked = FALSE

(* ptrs with the pointer of node n, if there is such a node, set to m. *)
Set(ptrs, n, m) == IF n = NoNode THEN ptrs ELSE [ptrs EXCEPT ![n] = m]

(* The nodes one meets from n on along the pointers ptrs, at most all. *)
Walk(n, ptrs) ==
  LET N == Cardinality(ListNodes)
      at[k \in 0..N] == IF k = 0 THEN n
                        ELSE IF at[k - 1] = NoNode THEN NoNode
                        ELSE ptrs[at[k - 1]]
  IN  [i \in 1..Cardinality({k \in 1..N : at[k - 1] # NoNode}) |-> at[i - 1]]

Linked(n) == \E i \in 1..Len(Walk(head, next)) : Walk(head, next)[i] = n

-----------------------------------------------------------------------------
(* add_front; its contract is that the node is in no list. *)
AddFrontForgetsTail(n) ==            \* a slip
  /\ ~Linked(n)
  /\ next' = [next EXCEPT ![n] = head]
  /\ prev' = Set([prev EXCEPT ![n] = NoNode], head, n)
  /\ head' = n
  /\ tail' = IF head = NoNode THEN n ELSE NoNode
  /\ UNCHANGED <<handed_out, list_panicked>>

AddFront(n) ==
  /\ ~Linked(n)
  /\ next' = [next EXCEPT ![n] = head]
  /\ prev' = Set([prev EXCEPT ![n] = NoNode], head, n)
  /\ head' = n
  /\ tail' = IF tail = NoNode THEN n ELSE tail
  /\ UNCHANGED <<handed_out, list_panicked>>

RemoveFirst ==
  /\ head # NoNode
  /\ head' = next[head]
  /\ tail' = IF next[head] = NoNode THEN NoNode ELSE tail
  /\ prev' = [Set(prev, next[head], NoNode) EXCEPT ![head] = NoNode]
  /\ next' = [next EXCEPT ![head] = NoNode]
  /\ handed_out' = <<head>>
  /\ list_panicked' = (list_panicked \/ (next[head] = NoNode /\ head # tail))

RemoveLast ==
  /\ tail # NoNode
  /\ tail' = prev[tail]
  /\ head' = IF prev[tail] = NoNode THEN NoNode ELSE head
  /\ next' = [Set(next, prev[tail], NoNode) EXCEPT ![tail] = NoNode]
  /\ prev' = [prev EXCEPT ![tail] = NoNode]
  /\ handed_out' = <<tail>>
  /\ list_panicked' = (list_panicked \/ (prev[tail] = NoNode /\ tail # head))

(***************************************************************************)
(* remove, of a node of this list or of none.  The node is in no list if   *)
(* it has no prev and is not the head.                                     *)
(***************************************************************************)
InNoList(n) == prev[n] = NoNode /\ head # n

RemoveUnlinked(n) ==
  /\ InNoList(n)
  /\ handed_out' = << >>
  /\ list_panicked' = (list_panicked \/ next[n] # NoNode)
  /\ UNCHANGED <<head, tail, prev, next>>

RemoveKeepsTail(n) ==                \* a slip
  /\ ~InNoList(n)
  /\ head' = IF prev[n] = NoNode THEN next[n] ELSE head
  /\ next' = [Set(next, prev[n], next[n]) EXCEPT ![n] = NoNode]
  /\ prev' = [Set(prev, next[n], prev[n]) EXCEPT ![n] = NoNode]
  /\ handed_out' = <<n>>
  /\ UNCHANGED <<tail, list_panicked>>

RemoveLinked(n) ==
  /\ ~InNoList(n)
  /\ head' = IF prev[n] = NoNode THEN next[n] ELSE head
  /\ tail' = IF next[n] = NoNode THEN prev[n] ELSE tail
  /\ next' = [Set(next, prev[n], next[n]) EXCEPT ![n] = NoNode]
  /\ prev' = [Set(prev, next[n], prev[n]) EXCEPT ![n] = NoNode]
  /\ handed_out' = <<n>>
  /\ list_panicked' = (\/ list_panicked
                       \/ prev[n] # NoNode /\ next[prev[n]] # n
                       \/ IF next[n] = NoNode THEN tail # n
                                              ELSE prev[next[n]] # n)

Remove(n) == RemoveUnlinked(n) \/ RemoveLinked(n)

(* The loop of drain and reverse_drain clears the nodes it meets. *)
Emptied(visited) ==
  LET met == {visited[i] : i \in 1..Len(visited)} IN
  /\ head' = NoNode
  /\ tail' = NoNode
  /\ prev' = [n \in ListNodes |-> IF n \in met THEN NoNode ELSE prev[n]]
  /\ next' = [n \in ListNodes |-> IF n \in met THEN NoNode ELSE next[n]]
  /\ handed_out' = visited
  /\ UNCHANGED list_panicked

Drain == Emptied(Walk(head, next))

ReverseDrain == Emptied(Walk(tail, prev))

ListNext ==
  \/ \E n \in ListNodes : AddFront(n) \/ Remove(n)
  \/ RemoveFirst \/ RemoveLast \/ Drain \/ ReverseDrain

ListSpec == ListInit /\ [][ListNext]_listVars

-----------------------------------------------------------------------------
(***************************************************************************)
(* The list reads the same in both directions, the nodes in it are linked  *)
(* by their neighbours and by nobody else, and a node that has left keeps  *)
(* no pointer into it: what remove relies on when it is asked whether a    *)
(* node is in a list.  No debug_assert fails.                              *)
(***************************************************************************)
ListIsSound ==
  /\ ~list_panicked
  /\ head = NoNode <=> tail = NoNode
  /\ \A n \in ListNodes :
       /\ next[n] # NoNode => prev[next[n]] = n
       /\ prev[n] # NoNode => next[prev[n]] = n
       /\ Linked(n) <=> prev[n] # NoNode \/ head = n
       /\ Linked(n) <=> next[n] # NoNode \/ tail = n

(***************************************************************************)
(* The list implements the sequence of WaitQueue: the one read from the    *)
(* tail along the prev pointers.                                           *)
(***************************************************************************)
Sequence == INSTANCE NodeList WITH nodes <- Walk(tail, prev)

IsNodeList == Sequence!Spec
=============================================================================
