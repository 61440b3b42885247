------------------------------ MODULE NodeList ------------------------------
(***************************************************************************)
(* What the intrusive list promises its users: a sequence of nodes, with   *)
(* the operators of WaitQueue that the primitives are modelled with, and   *)
(* the nodes that an operation hands out in the order in which it does.    *)
(***************************************************************************)
EXTENDS WaitQueue

CONSTANT ListNodes

VARIABLES
  nodes,      \* from the tail, the oldest, to the head
  handed_out  \* what the latest removing operation returned or called back

vars == <<nodes, handed_out>>

Reversed(q) == [i \in 1..Len(q) |-> q[Len(q) + 1 - i]]

Init == nodes = << >> /\ handed_out = << >>

Add(node) ==
  /\ ~IsLinked(nodes, node)
  /\ nodes' = AddFront(nodes, node)
  /\ UNCHANGED handed_out

TakeFirst ==
  /\ ~IsEmpty(nodes)
  /\ nodes' = Remove(nodes, nodes[Len(nodes)])
  /\ handed_out' = <<nodes[Len(nodes)]>>

TakeLast ==
  /\ ~IsEmpty(nodes)
  /\ nodes' = RemoveLast(nodes)
  /\ handed_out' = <<PeekLast(nodes)>>

(* The node is handed back if it was linked, and nothing if it was not. *)
Take(node) ==
  /\ nodes' = Remove(nodes, node)
  /\ handed_out' = IF IsLinked(nodes, node) THEN <<node>> ELSE << >>

TakeAll ==
  /\ nodes' = << >>
  /\ handed_out' \in {nodes, Reversed(nodes)}

Next ==
  \/ \E node \in ListNodes : Add(node) \/ Take(node)
  \/ TakeFirst \/ TakeLast \/ TakeAll

Spec == Init /\ [][Next]_vars
=============================================================================
