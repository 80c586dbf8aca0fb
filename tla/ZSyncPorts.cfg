CONSTANTS
  Port = {p1, p2}
  Instrument = {i1}
  MaxInputs = 2
  MaxBudget = 2
  MaxLinkChanges = 3
SPECIFICATION PortsFairSpec
INVARIANTS
  ConnectedMeansSeen
  TimeoutIsShared
PROPERTIES
  CallEnds
