CONSTANTS
  Nobody = Nobody
  CpuRequests = {c1, c2}
  TraceRequests = {t1}
  MemRequests = {m1}
  PprofCpu = {p1}
  PprofTrace = {q1}
SPECIFICATION ProfilerSpec
INVARIANTS
  FlagHasOneHolder
  OwnProfile
  OnlyPprofInterferes
PROPERTIES
  Answered
