SPECIFICATION RoundsSpec
CONSTANTS
  Runs = {c1, s1, x1}
  Continuous = {c1, x1}
  ResearchOnly = {x1}
  TFs = {hour}
  Errors = {boom}
  Slots = 1
  StoreCap <- StoreCapMC
  Iters <- TwoIterations
  MaxPassers = 1
  WinlessLimit <- WinlessLimitMC
  ErrLimit <- ErrLimitMC
  MaxRounds = 2
  AllowShort = TRUE
  TrendFilter = TRUE
  MaxBars = 6
  Windows = {1, 2}
  Values = {1, 2}
  Generations = 2
  Folds <- ThreeFolds
  MaxLost = 1
  Starts <- EdgeDays
  Spans <- EdgeSpans
  Paces = {1, 3, 4, 5, 6, 8}
  Forms <- FormMonths
  MinWindows = 8
  Missing = Missing
  Figures <- EveryFigure
  Ratios <- EveryRatio
  WindowPairs <- EveryPair
  MaxWindows = 3
  Simulated <- EverySim
  Basket <- SixPeers
  PeerFigures <- PeerOutcomes
  StitchedOf <- Stitches
  Candidates <- EveryCandidate
  Scores <- RankedScores
  Today = 20
  RiskAdjusted = TRUE
  MinTrades = 3
  MinValidWindows = 2
  PeerSample = 5
  IsSharpeMin = 2
  MedianLimit <- MedianFloor
  TailLimit <- TailFloor
  EnoughPassers = 2
  HoldoutDays = 2
  HoldoutPercent = 30
  EmbargoDays = 2
  MinBars = 3
  RankedTrades = 8
  HoldoutTrades = 8
  SearchRounds = 2
  SearchIterations = {2, 3}
  MaxBacktests <- TwiceOrOnce
  Builtin <- Library
  ExitOnly <- Stops
  Variants = {1, 2}
  BlockAttempts = 2
  BlockTokens = 3
  BlockReserve = 2
  AnswerTokens = {1, 2}
CHECK_DEADLOCK FALSE
INVARIANT SlotsAccounted
INVARIANT PromotionSound
INVARIANT WinnerIsPublished
INVARIANT TradesAreAccountedFor
INVARIANT SameWinner
INVARIANT WindowsAreWhole
INVARIANT SelectionIsSound
INVARIANT CandidatesAreSound
PROPERTY ImplementsPool
PROPERTY DeferredExitsHitTheirPosition
