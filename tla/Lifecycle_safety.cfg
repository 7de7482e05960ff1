\* Two positions of one mint, one crash, every fault.
SPECIFICATION LifeSpec
CONSTANTS
  Nothing = Nothing
  Positions = {p1, p2}
  Mints = {m1}
  MintOf <- MCMintOf
  Lot = 2
  MaxHeld = 1
  MaxCrashes = 1
  Faults = {"write", "balance", "query"}
SYMMETRY Symmetry
INVARIANTS
  WalletCovered
  MoonbagRowBacked
  OneOwner
CHECK_DEADLOCK FALSE
