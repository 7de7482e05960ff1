\* A turn of the monitor is ten of the program's.
SPECIFICATION FeedSpec
CONSTANTS
  Unknown = Unknown
  Complete = Complete
  Confirmed = Confirmed
  Quotes = {1, 2}
  Jump = 100
  KnownFor = 4
  MaxMisses = 2
  MaxBlanks = 2
  Refresh = 3
  MaxSessions = 2
  MaxChanges = 2
  MaxTurns = 6
INVARIANTS
  GraduatedHasNoEntry
CHECK_DEADLOCK FALSE
