\* Three promotions, two at a time.  Prices below the floor, above it and
\* beyond the profit gate, up to the last tier; the source may fail for ever.
SPECIFICATION Spec
CONSTANTS
  None = None
  LastPosition = 3
  Commands <- MCCommands
  MaxConcurrent = 2
  MaxQueue = 1
  Prices = {0, 11, 13, 26, 60, 240}
  Floor = 12
  Gate = 20
  Trailing <- MCTrailing
  HoldCap <- MCHoldCap
  SlowPoll = 2
  Grace = 1
CHECK_DEADLOCK FALSE
INVARIANTS
  RowsMatchSignals
  NotHeldPastCap
PROPERTIES
  ImplementsLedger
