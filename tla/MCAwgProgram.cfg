CONSTANTS
  MaxSlot = 1
  Value <- MCValue
  Code <- MCCode
  Constants <- MCConstants
  Granularity = 2
  MaxQubits = 1
  MaxCalls = 5
SPECIFICATION Spec
INVARIANTS
  RoundTrip
  ConstantsArrive
PROPERTIES
  ValidatedUploadFits
  WritesAreWhole
