\* Two buyers, three mints, a table of two rows; sweeper and re-entry watcher off.
SPECIFICATION ReSpec
CONSTANTS
  NaN = NaN
  None = None
  Mints = {m1, m2, m3}
  Devs = {}
  Buyers = {b1, b2}
  RowIds = {r1, r2}
  Amounts = {1, 2}
  ConfiguredBuy = 2
  MaxOpenPositions = 1
  MaxExposure = 3
  DailyLossLimit = 1
  HydrationMayFail = FALSE
  Results <- MCResults
  PnlBound = 1
  Cooldown = 1
  StaleTimeout = 0
  AgeCap = 2
  MaxReentries = 1
  WatchWindow = 0
  Lookback = 0
  QueueCapacity = 1
  ClosedIds = {}
SYMMETRY Symmetry
INVARIANTS
  TypeOK
  
  NoOrphanReservation
  OpenWithinSlack
  
  CooldownKept
