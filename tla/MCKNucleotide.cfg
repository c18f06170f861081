CONSTANTS
  ntasks = 3
  linewidth = 5
  Texts <- AllTexts
  Before <- SomeLines
  Memory <- SomeMemory
  Frames <- TwoFrames
SPECIFICATION Spec
INVARIANTS
  ReadsTheSequence
  CountsAreExact
