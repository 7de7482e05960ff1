\* One position; answers may be late, of another exit, or permanent.
\* MaxFailures lies within the signals of the instance.
SPECIFICATION MonSpec
CONSTANTS
  NaN = NaN
  None = None
  Mints = {m1}
  Devs = {d1}
  Amounts = {2}
  Cooldown = 1
  StaleTimeout = 0
  AgeCap = 2
  Tasks = {t1, t2}
  Lot = 4
  Cost = 4
  Prices = {3}
  KillRatio = 60
  ExitRetries = 1
  MaxSignals = 4
  MaxLate = 1
  Faults = {"permanent"}
  Inputs = {}
  MaxFailures = 3
  Events = {"watchers", "fire", "promote", "slow"}
SYMMETRY Symmetry
INVARIANTS
  MonTypeOK
  TallyIsWallet
  TallyCovers
  StoppedMeansSold
CHECK_DEADLOCK FALSE
