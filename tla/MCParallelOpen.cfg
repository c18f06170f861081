CONSTANTS
  NumThreads = 3
  TotalFiles = 5
SPECIFICATION OpenSpec
INVARIANTS
  EachFileOnce
  WarningIsExact
