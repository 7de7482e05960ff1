SPECIFICATION Spec
CONSTANTS
  p1 = p1
  p2 = p2
  c1 = c1
  Wallets = {p1, p2, c1}
  Mints = {m1}
  None = None
  Window = 2
  Checkpoints = {1, 2}
  Slack = 0
  Grace = 0
  EarlierRows <- MCEarlier
  ChildWatch = 2
  MaxKeys = 1
  MaxMints = 1
  TimeBound = 3
  Rosters <- MCRosters
  Fresh = {c1}
  SignatureLimit = 2
  MaxEvents = 3
  SocketMayMiss = FALSE
  RpcMayFail = TRUE
CHECK_DEADLOCK FALSE
INVARIANTS
  
  ConvergedForReal
  WatchedKept
  NothingSkipped
