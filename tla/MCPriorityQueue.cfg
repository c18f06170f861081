CONSTANTS
  Values = {1, 2, 3}
  Sizes = {1, 3, 5}
  MaxStream = 7
SPECIFICATION Spec
INVARIANTS
  HeapOrder
  KeepsTheSmallest
PROPERTIES
  ServesAsTopK
  PollDoubles
