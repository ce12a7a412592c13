SPECIFICATION DeskSpec
CONSTANTS
  Handlers = {h1, h2}
  MaxAsked = 3
  MaxStudioJobs = 2
  MaxSuggestions = 1
  LoopRounds = 1
  MaxDeaths = 1
  MaxStudioFaults = 1
  Callers = {c1, c2}
  TokenCap = 14
  CostCap = 12
  PromptBytes = 4
  PromptTokens = 2
  Configured = 2
  Scale = 4
  AskCap = 4
  Excess = 3
  Waits = 1
  MaxCalls = 2
  Loaders = {l1, l2}
  Requests <- BothEnds
  Outages <- OneOutage
  FirstNow = 3
  Horizon = 5
  MaxLoads = 3
  MaxFaults = 1
  Readers = {q1, q2}
  MaxVersions = 3
  MaxAsks = 3
  Window = 2
  LastTick = 3
  MaxBreaks = 1
  Tickers <- TwoTickers
  Stitched = "s"
  Parts <- OneAfterAnother
  Minutes <- ThreeDays
  LastDay = 3
  DaysPerYear = 2
  MinGap = 1
  MaxRuns = 2
  MaxDiskFaults = 1
  Definitions <- TwoDrafts
  Splits <- TwoSplits
  FoldScores <- UnevenFolds
  SampleBars = 13
  MinWindow = 2
  Highest = 2
  NewRules <- AnyPlace
  Typed <- PastTheBound
  MaxEvals = 3
  TopRanks = 2
  SweepLimit = 12
  EngineLimit = 12
  MaxEdits = 2
  MaxSweeps = 1
  MaxRuleId = 5
CHECK_DEADLOCK FALSE
INVARIANT DeployedWasMeasured
INVARIANT OrphansAreFound
INVARIANT CeilingHolds
INVARIANT GivenUpCallsAreOver
INVARIANT BarsAreSound
INVARIANT CachesNeverLag
INVARIANT RowsOfTheirWindow
INVARIANT SeriesAgree
INVARIANT ScriptsChangeTheirOwn
INVARIANT SweepIsSound
PROPERTY EditsSurvive
PROPERTY FetchedIsKept
