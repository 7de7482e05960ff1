\* Two signals, every failure of the outside world.
SPECIFICATION FairSpec
CONSTANTS
  NaN = NaN
  None = None
  Mints = {m1}
  Devs = {}
  Amounts = {2}
  Cooldown = 1
  StaleTimeout = 0
  AgeCap = 2
  Tasks = {t1, t2}
  Lot = 4
  Cost = 4
  Prices = {0, 3}
  KillRatio = 60
  ExitRetries = 2
  MaxSignals = 2
  MaxLate = 1
  Faults = {"permanent", "no_fill", "timeout", "no_metadata", "balance_rpc", "row_read", "row_write"}
  Inputs <- AllInputs
PROPERTIES
  ClaimReleased
CHECK_DEADLOCK FALSE
