\* One buyer with the sweeper and the re-entry watcher: liveness, so no symmetry.
SPECIFICATION ReFairSpec
CONSTANTS
  NaN = NaN
  None = None
  Mints = {m1}
  Devs = {}
  Buyers = {b1}
  RowIds = {r1}
  Amounts = {1}
  ConfiguredBuy = 1
  MaxOpenPositions = 2
  MaxExposure = 3
  DailyLossLimit = 1
  HydrationMayFail = TRUE
  Results <- MCResults
  PnlBound = 1
  Cooldown = 1
  StaleTimeout = 1
  AgeCap = 2
  MaxReentries = 1
  WatchWindow = 2
  Lookback = 1
  QueueCapacity = 1
  ClosedIds = {1, 2}
INVARIANTS
  CappedPerOrigin
PROPERTIES
  LeakedSlotFreed
