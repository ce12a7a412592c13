SPECIFICATION SessionSpec
CONSTANTS
  Runs = {s1}
  Continuous = {}
  ResearchOnly = {}
  TFs = {hour}
  Errors = {boom}
  Slots = 1
  StoreCap <- StoreCapMC
  Iters <- TwoIterations
  MaxPassers = 1
  WinlessLimit = 2
  ErrLimit = 2
  MaxRounds = 1
  MaxCrashes <- OneDeath
CHECK_DEADLOCK FALSE
PROPERTY EndedRunsSpared
