CONSTANTS
  NChannels = 2
  MaxTimeout = 1
  MaxCalls = 3
  MaxChanges = 2
SPECIFICATION Spec
INVARIANTS
  ResetMeansReset
  LockReported
  FallbackIsInternal
  SteadyLockIsKept
  QccsIsWhole
