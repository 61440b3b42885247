---------------------------- MODULE PairingHeap ----------------------------
(***************************************************************************)
(* The intrusive pairing heap (src/intrusive_pairing_heap.rs), with its    *)
(* pointers.  A heap is a tree: a node points to its parent, to its first  *)
(* child and to its neighbours in its parent's list of children.           *)
(*                                                                         *)
(* The functions of the source change the pointers behind references; here *)
(* they take the pointers, a record h with one function per field of       *)
(* HeapNode, and return them changed.  h.ok says that no debug_assert has  *)
(* failed.                                                                 *)
(*                                                                         *)
(* A definition marked "a slip" is the code with one plausible mistake.    *)
(***************************************************************************)
EXTENDS Integers, FiniteSets

CONSTANTS
  HeapNodes, None,   \* the nodes; no node, the value of an empty pointer
  Orders             \* the data that the nodes may carry: a set of functions

ASSUME HeapAssumption ==
  /\ IsFiniteSet(HeapNodes)
  /\ None \notin HeapNodes
  /\ Orders \subseteq [HeapNodes -> Nat]

VARIABLES
  data,     \* what the nodes are compared by
  heap,     \* the pointers of the nodes
  root,     \* PairingHeap
  inserted  \* the nodes that the program has inserted and not removed

heapVars == <<data, heap, root, inserted>>

NoPointers == [n \in HeapNodes |-> None]

(* PairingHeap::new, and HeapNode::new for every node. *)
HeapInit ==
  /\ data \in Orders
  /\ heap = [parent |-> NoPointers, prev |-> NoPointers, next |-> NoPointers,
             first_child |-> NoPointers, ok |-> TRUE]
  /\ root = None
  /\ inserted = {}

-----------------------------------------------------------------------------
Check(h, assertion) == [h EXCEPT !.ok = @ /\ assertion]

(* ptrs with the pointer of node n, if there is such a node, set to m. *)
Point(ptrs, n, m) == IF n = None THEN ptrs ELSE [ptrs EXCEPT ![n] = m]

SafeLesser(a, b) == data[a] < data[b]

IsRoot(h, n) == h.parent[n] = None /\ h.prev[n] = None /\ h.next[n] = None

(* add_child: at the front of the parent's list of children. *)
AddChild(h, parent, child) ==
  LET old == h.first_child[parent] IN
  [parent      |-> [h.parent EXCEPT ![child] = parent],
   prev        |-> Point(h.prev, old, child),
   next        |-> IF old = None THEN h.next ELSE [h.next EXCEPT ![child] = old],
   first_child |-> [h.first_child EXCEPT ![parent] = child],
   ok          |-> /\ h.ok
                   /\ ~SafeLesser(child, parent)
                   /\ old # None => h.prev[old] = None]

(* meld, and maybe_meld where left may be empty: the pointers, the root. *)
MeldRoot(left, right) == IF SafeLesser(left, right) THEN left ELSE right

Meld(h, left, right) ==
  LET child == IF MeldRoot(left, right) = left THEN right ELSE left
  IN  AddChild(Check(h, IsRoot(h, left) /\ IsRoot(h, right)),
               MeldRoot(left, right), child)

MaybeMeld(h, left, right) ==
  IF left = None THEN h ELSE Meld(h, left, right)

MaybeMeldRoot(left, right) ==
  IF left = None THEN right ELSE MeldRoot(left, right)

(* unlink_prev, of the last node in a list of children. *)
UnlinkPrev(h, node) ==
  LET before == h.prev[node] IN
  [h EXCEPT !.prev = [@ EXCEPT ![node] = None],
            !.next = Point(@, before, None),
            !.ok = /\ @
                   /\ h.next[node] = None
                   /\ before # None => h.next[before] = node]

(* The nodes that last_child meets, and the one at which it stops. *)
Following(h, first_child) ==
  {n \in HeapNodes :
     \A S \in SUBSET HeapNodes :
       first_child \in S /\ (\A m \in S : h.next[m] \in S \cup {None}) => n \in S}

LastChild(h, first_child) ==
  CHOOSE n \in Following(h, first_child) : h.next[n] = None

(* parent.take() of a child that is merged. *)
Orphan(h, node, common_parent) ==
  Check([h EXCEPT !.parent = [@ EXCEPT ![node] = None]],
        h.parent[node] = common_parent)

TakeLast(h, node, common_parent) ==
  UnlinkPrev(Orphan(h, node, common_parent), node)

(***************************************************************************)
(* One round of the loop of merge_children, from the right: `node' is the  *)
(* last child not processed yet, `current' the root of those that are.     *)
(* Two children are melded, and their root with current; or one child, if  *)
(* it is the last.  The loop has returned when there is no node.           *)
(***************************************************************************)
MergeRound(loop, common_parent) ==
  LET left == loop.heap.prev[loop.node]
      single == TakeLast(loop.heap, loop.node, common_parent)
      pair == TakeLast(single, left, common_parent)
      merged == MeldRoot(left, loop.node)
  IN  IF loop.node = None THEN loop
      ELSE IF left = None
      THEN [heap |-> MaybeMeld(single, loop.current, loop.node),
            node |-> None,
            current |-> MaybeMeldRoot(loop.current, loop.node)]
      ELSE [heap |-> MaybeMeld(Meld(pair, left, loop.node), loop.current, merged),
            node |-> single.prev[left],
            current |-> MaybeMeldRoot(loop.current, merged)]

MergeStart(h, first_child) ==
  [heap |-> Check(h, h.parent[first_child] # None),
   node |-> LastChild(h, first_child), current |-> None]

MergeLastOnly(h, first_child) ==     \* a slip: the others are lost
  LET last == LastChild(h, first_child)
  IN  [heap |-> TakeLast(h, last, h.parent[last]), node |-> None, current |-> last]

(* A round takes a child or two, so there are not more of them than nodes. *)
MergeChildren(h, first_child) ==
  LET N == Cardinality(HeapNodes)
      after[k \in 0..N] ==
        IF k = 0 THEN MergeStart(h, first_child)
        ELSE MergeRound(after[k - 1], h.parent[first_child])
  IN  after[N]

-----------------------------------------------------------------------------
(* insert; its contract is that the node is in no heap. *)
HeapInsert(n) ==
  LET clean == Check(heap, IsRoot(heap, n) /\ heap.first_child[n] = None) IN
  /\ n \notin inserted
  /\ heap' = MaybeMeld(clean, root, n)
  /\ root' = MaybeMeldRoot(root, n)
  /\ inserted' = inserted \cup {n}
  /\ UNCHANGED data

(* remove, first half: the node is taken out of its parent's children. *)
UnlinkSlip(h, n) ==                  \* a slip: the next sibling keeps its prev
  [h EXCEPT !.parent = [@ EXCEPT ![n] = None],
            !.prev = [@ EXCEPT ![n] = None],
            !.next = [Point(@, h.prev[n], h.next[n]) EXCEPT ![n] = None],
            !.first_child = IF h.prev[n] # None THEN @
                            ELSE [@ EXCEPT ![h.parent[n]] = h.next[n]]]

Unlink(h, n) ==
  [h EXCEPT !.parent = [@ EXCEPT ![n] = None],
            !.prev = [Point(@, h.next[n], h.prev[n]) EXCEPT ![n] = None],
            !.next = [Point(@, h.prev[n], h.next[n]) EXCEPT ![n] = None],
            !.first_child = IF h.prev[n] # None THEN @
                            ELSE [@ EXCEPT ![h.parent[n]] = h.next[n]]]

Alone(n) ==
  IF heap.parent[n] # None THEN Unlink(heap, n)
  ELSE Check(heap, heap.next[n] = None /\ heap.prev[n] = None /\ root = n)

(* ... second half: its children, merged, are put where it was. *)
HeapRemove(n) ==
  LET parent == heap.parent[n]
      first_child == Alone(n).first_child[n]
      childless == [Alone(n) EXCEPT !.first_child = [@ EXCEPT ![n] = None]]
      children == MergeChildren(childless, first_child)
  IN
  /\ n \in inserted
  /\ inserted' = inserted \ {n}
  /\ IF first_child = None
     THEN /\ heap' = childless
          /\ root' = IF parent = None THEN None ELSE root
     ELSE IF parent # None
     THEN /\ heap' = AddChild(children.heap, parent, children.current)
          /\ root' = root
     ELSE heap' = children.heap /\ root' = children.current
  /\ UNCHANGED data

HeapNext == \E n \in HeapNodes : HeapInsert(n) \/ HeapRemove(n)

HeapSpec == HeapInit /\ [][HeapNext]_heapVars

-----------------------------------------------------------------------------
(***************************************************************************)
(* The pointers form one tree in heap order: siblings are linked both      *)
(* ways, the first child has no prev, every child knows its parent and is  *)
(* in its list; a parent's data is not above its children's; the root has  *)
(* no parent; and a node outside of the heap has no pointer.  No           *)
(* debug_assert has failed.                                                *)
(***************************************************************************)
HeapIsSound ==
  /\ heap.ok
  /\ root # None => heap.parent[root] = None
  /\ \A n \in HeapNodes :
       /\ heap.next[n] # None =>
            /\ heap.prev[heap.next[n]] = n
            /\ heap.parent[heap.next[n]] = heap.parent[n]
       /\ heap.prev[n] # None => heap.next[heap.prev[n]] = n
       /\ heap.first_child[n] # None =>
            /\ heap.parent[heap.first_child[n]] = n
            /\ heap.prev[heap.first_child[n]] = None
       /\ heap.parent[n] # None =>
            /\ data[heap.parent[n]] <= data[n]
            /\ heap.prev[n] = None => heap.first_child[heap.parent[n]] = n
       /\ heap.parent[n] = None => heap.next[n] = None
       /\ n \in inserted <=> heap.parent[n] # None \/ n = root
       /\ n \notin inserted => heap.first_child[n] = None

(***************************************************************************)
(* The nodes that can be reached from the root are a set that insert and   *)
(* remove change by just their node, and the root is a least of them.      *)
(***************************************************************************)
Tree ==
  {n \in HeapNodes :
     \A S \in SUBSET HeapNodes :
       /\ root \in S \cup {None}
       /\ \A m \in S : {heap.next[m], heap.first_child[m]} \subseteq S \cup {None}
       => n \in S}

Abstract == INSTANCE PriorityQueue WITH nodes <- Tree, min <- root

IsPriorityQueue == Abstract!Spec
=============================================================================
