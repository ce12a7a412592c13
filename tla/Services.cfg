SPECIFICATION ServicesSpec
CONSTANTS
  Operators = {o1, o2}
  MaxClicks = 3
  MaxTicks = 2
  MaxRestarts = 1
  Callers = {c1}
  TokenCap = 14
  CostCap = 12
  PromptBytes = 4
  PromptTokens = 2
  Configured = 2
  Scale = 4
  AskCap = 4
  Excess = 3
  Waits = 1
  MaxCalls = 2
  a = a
  b = b
  r1 = r1
  r2 = r2
  Sessions = {a, b}
  Plan <- ThreeJobs
  RunsKept <- TwoRunsElseOne
  GuardMax = 1
  SweepRows = {r1, r2}
  SweepThreads = 1
  ResultSlots = 1
  MaxViews = 1
  Users = {u, v}
  MaxRequests = 5
  ChatCap = 1
  DraftCap = 1
  Keys = {k1, k2}
  Metrics = {m1, m2}
  Previews = {p1, p2, p3}
  PlanCap = 1
  Polls = {q1, q2, q3, q4}
  StoryRounds = 2
CHECK_DEADLOCK FALSE
INVARIANT NodeIsSeen
INVARIANT OneVisibleJob
PROPERTY RowsSettle
PROPERTY CallsEnd
PROPERTY SessionsAreFreed
PROPERTY NothingSaidIsLost
PROPERTY PlansAreShared
