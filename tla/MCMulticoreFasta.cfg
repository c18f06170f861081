CONSTANTS
  NumThreads = 4
  BlockSize = 4
  Width = 2
  Lengths <- TwoCalls
  MayFail = TRUE
SPECIFICATION Spec
INVARIANTS
  InOrder
  Formatted
  TurnsAreServed
