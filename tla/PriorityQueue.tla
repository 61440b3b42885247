--------------------------- MODULE PriorityQueue ---------------------------
(***************************************************************************)
(* What the pairing heap promises the timer: a set of nodes of which one   *)
(* with the least data can be looked at.                                   *)
(***************************************************************************)
EXTENDS Integers

CONSTANTS HeapNodes, None

VARIABLES
  data,     \* what the nodes are compared by
  nodes,    \* the nodes in the heap
  min       \* what peek_min returns

vars == <<data, nodes, min>>

IsLeast(n, S) == n \in S /\ \A m \in S : data[n] <= data[m]

Peek == IF nodes' = {} THEN min' = None ELSE IsLeast(min', nodes')

Init == data \in [HeapNodes -> Nat] /\ nodes = {} /\ min = None

Insert(n) ==
  /\ n \notin nodes
  /\ nodes' = nodes \cup {n}
  /\ Peek
  /\ UNCHANGED data

Remove(n) ==
  /\ n \in nodes
  /\ nodes' = nodes \ {n}
  /\ Peek
  /\ UNCHANGED data

Next == \E n \in HeapNodes : Insert(n) \/ Remove(n)

Spec == Init /\ [][Next]_vars
=============================================================================
