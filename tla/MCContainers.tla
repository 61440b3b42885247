---------------------------- MODULE MCContainers ----------------------------
(***************************************************************************)
(* The data structures under the primitives for TLC: the array-backed ring *)
(* buffer, the intrusive list and the pairing heap.  A behaviour works on  *)
(* one of them and leaves the others as they are.                          *)
(***************************************************************************)
EXTENDS ArrayBuf, IntrusiveList, PairingHeap

VARIABLE container   \* the one in use; fixed

allVars == <<vars, container, listVars, heapVars>>

ContainersInit ==
  /\ container \in {"ArrayBuf", "LinkedList", "PairingHeap"}
  /\ Init /\ ListInit /\ HeapInit
  /\ container # "PairingHeap" => data = [n \in HeapNodes |-> 1]

ContainersNext ==
  \/ /\ container = "ArrayBuf" /\ Next
     /\ UNCHANGED <<container, listVars, heapVars>>
  \/ /\ container = "LinkedList" /\ ListNext
     /\ UNCHANGED <<container, vars, heapVars>>
  \/ /\ container = "PairingHeap" /\ HeapNext
     /\ UNCHANGED <<container, vars, listVars>>

ContainersSpec == ContainersInit /\ [][ContainersNext]_allVars

(***************************************************************************)
(* Up to the names of the nodes, every way in which the data of n nodes    *)
(* can be ordered, with ties: the data grows with the number of the node,  *)
(* by steps of 0 or 1.                                                     *)
(***************************************************************************)
MCOrders ==
  {d \in [HeapNodes -> HeapNodes] :
     /\ d[1] = 1
     /\ \A n \in HeapNodes \ {1} : d[n] - d[n - 1] \in {0, 1}}

MCHeapNodes == 1..5
=============================================================================
