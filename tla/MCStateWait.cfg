CONSTANTS
  NumNodes = 2
  Value = {0, 1}
  Named = {0}
  MaxTimeout = 2
SPECIFICATION FairSpec
INVARIANTS
  ReturnIsFresh
  SteadyNodeNeverTimesOut
  TimeoutIsShared
PROPERTIES
  CallEnds
  ImplementsWaitPromise
