CONSTANTS
  Number <- MCNumber
  InRange <- MCInRange
  Child <- MCChild
  Attr <- MCAttr
  Required <- MCRequired
  Document <- MCDocument
  NoEntry = NoEntry
  NoChild = NoChild
SPECIFICATION Spec
INVARIANTS ActiveEntriesHoldValid ValidatedUpdateIsWhole UpdateArrives
PROPERTY ReadingLeavesNoTrace
