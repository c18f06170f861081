CONSTANTS
  NumBufs = 4
  BufSize = 2
  Lengths <- ThreeCalls
  PoolSize = 6
SPECIFICATION Spec
INVARIANTS
  InOrder
  OneOwner
  CleanReturn
PROPERTIES
  Termination
CHECK_DEADLOCK FALSE
