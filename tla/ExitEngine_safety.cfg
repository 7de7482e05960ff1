\* One position, every kind of signal; sells may fall short, but they are
\* seen, and reads and writes succeed.
SPECIFICATION Spec
CONSTANTS
  NaN = NaN
  None = None
  Mints = {m1}
  Devs = {}
  Amounts = {2}
  Cooldown = 1
  StaleTimeout = 0
  AgeCap = 2
  Tasks = {t1, t2}
  Lot = 4
  Cost = 4
  Prices = {0, 3}
  KillRatio = 60
  ExitRetries = 2
  MaxSignals = 3
  MaxLate = 1
  Faults = {"permanent", "no_fill"}
  Inputs <- AllInputs
INVARIANTS
  TypeOK
  OneTaskPerPosition
  BookedOnce
  ClosedMeansSold
  ReceivedIsProceeds
CHECK_DEADLOCK FALSE
