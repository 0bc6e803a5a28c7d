CONSTANTS
  MaxHeap = 1
  MaxTree = 6
  MaxList = 1
  Delays = {0, 1, 2, 3}
  Types = {"RBTREE"}
  MaxLevel = 1
  Block = 1
  FirstSize = 2
  Idle = 2
SPECIFICATION Spec
CHECK_DEADLOCK FALSE
INVARIANT NoFault
