CONSTANTS
  Total = 5
  NumThreads = 3
SPECIFICATION TestSpec
INVARIANTS
  VerdictIsRight
  OneReport
