SPECIFICATION ContainersSpec
CONSTANTS
  Values = {v1, v2}
  NoValue = NoValue
  LEN = 4
  ListNodes = {n1, n2, n3, n4}
  HeapNodes <- MCHeapNodes
  NoNode = NoNode
  None = None
  Orders <- MCOrders
INVARIANTS
  CellsHoldValues
  ListIsSound
  HeapIsSound
PROPERTIES
  IsNodeList
  IsPriorityQueue
CHECK_DEADLOCK FALSE
