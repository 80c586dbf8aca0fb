CONSTANTS
  NumNodes = 1
  Value = {0, 1}
  Named = {}
  MaxTimeout = 1
  MaxCalls = 3
SPECIFICATION UnitSpec
INVARIANTS
  DoneMeansOff
  RunMeansStarted
  StopTimesOutOnlyWhenOn
PROPERTIES
  ConfiguredWhenStopped
