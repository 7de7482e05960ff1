\* A unit is half a minute and prices are tenths of the entry; hold times and
\* the checkpoints are shortened.
SPECIFICATION Spec
CONSTANTS
  None = None
  Prices = {4, 10, 12, 18, 40}
  Entries = {0, 10}
  BaseHold = 3
  MaxHold = 3
  Tp1 = 18
  Tp2 = 40
  Tp3 = 80
  StopLoss = 35
  NeverUpStop = 20
  NeverUpAge = 1
  KillAge = 2
  KillBelow = 13
  Trail = 30
  TrailMin = 11
  TrailTp1 = 22
  TrailTp2 = 30
  DipThreshold = 15
  Grace = 1
  NoTrades = 1
  YoungAge = 4
  MidAge = 5
  SanityAge = 0
  MinDipDeath = 1
  MaxZeros = 2
  MaxFailures = 2
  Stages <- MCStages
  Unknown = Unknown
  Complete = Complete
  Confirmed = Confirmed
  Quotes = {1, 2}
  Jump = 100
  KnownFor = 3
  MaxMisses = 2
  MaxBlanks = 2
  Refresh = 2
  MaxSessions = 2
  MaxChanges = 2
  MaxTurns = 8
  Balances = {0, 4, 10}
  Threshold = 50
  MaxLinks = 2
  MaxMoves = 3
INVARIANTS
  PauseIsBounded
  CtoDecided
  SilenceEnds
PROPERTIES
  DumpNoticed
  WatcherEnds
CHECK_DEADLOCK FALSE
