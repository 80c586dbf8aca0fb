CONSTANTS
  Hide = "dev"
  Keyword <- MCKeyword
  Escaped <- MCEscaped
  Trimmed <- MCTrimmed
  Begins <- MCBegins
  Known <- MCKnown
  Addable <- MCAddable
  Asked <- MCAsked
  MaxTargets = 2
  MaxUpdates = 3
SPECIFICATION Spec
INVARIANTS InfoIsCurrent RoundTrip LenientReachesAll
