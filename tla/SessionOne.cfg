SPECIFICATION SessionFairSpec
CONSTANTS
  Runs = {c1}
  Continuous = {c1}
  ResearchOnly = {}
  TFs = {hour}
  Errors = {}
  Slots = 1
  StoreCap <- StoreCapMC
  Iters <- TwoIterations
  MaxPassers = 1
  WinlessLimit <- FirstStrike
  ErrLimit <- FirstStrike
  MaxRounds = 2
  MaxCrashes <- OneDeath
CHECK_DEADLOCK FALSE
PROPERTY LogsSettle
