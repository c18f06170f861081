CONSTANTS
  NumThreads = 3
  TotalFiles = 3
  MaxSpurious = 1
  NoTask = NoTask
SPECIFICATION Spec
INVARIANTS
  SubmissionOrder
  OneHolder
  NothingDangles
  WarningIsExact
  WorkConserving
PROPERTIES
  Termination
  ImplementsExecutor
CHECK_DEADLOCK FALSE
