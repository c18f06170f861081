CONSTANTS
  NumCalls = 3
  MaxSpurious = 2
SPECIFICATION Spec
INVARIANTS
  NoLostWakeup
  NoRace
  CounterIsRight
PROPERTIES
  Termination
  WorkersServe
