SPECIFICATION WorkerSpec
CONSTANTS
  Runs = {c1}
  Continuous = {c1}
  ResearchOnly = {}
  TFs = {hour, day}
  Errors = {boom, bang}
  Slots = 1
  StoreCap <- StoreCapMC
  Iters <- TwoIterations
  MaxPassers = 2
  WinlessLimit <- WinlessLimitMC
  ErrLimit <- ErrLimitMC
  MaxRounds = 4
  Units = {u1, u2}
  MaxGuarded = 1
  MaxRebuilds = 1
CHECK_DEADLOCK FALSE
INVARIANT CatalogResolves
INVARIANT NothingLeftBehind
INVARIANT DeliveredIsAnswered
PROPERTY BreakersHold
PROPERTY StopEndsRun
PROPERTY RunsEnd
PROPERTY NothingOutlivesItsOwner
