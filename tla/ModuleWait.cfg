CONSTANTS
  Step = {s1, s2}
  Device = {d1, d2}
  MaxTimeout = 2
  MaxStarts = 3
  MaxCalls = 2
SPECIFICATION FairSpec
INVARIANTS
  DoneIsReported
  StepIsReported
PROPERTIES
  LoadsAreSynchronous
  CallEnds
