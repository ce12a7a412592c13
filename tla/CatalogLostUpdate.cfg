SPECIFICATION StoresSpec
CONSTANTS
  b1 = b1
  s1 = s1
  s2 = s2
  s3 = s3
  BuiltinOnly = builtin_only
  Threads = {t1, t2}
  Specs = {s1, s2, s3}
  Blocks = {b1}
  Uses <- OneEach
  MaxRequests = 3
  entry = entry
  exit = exit
  own = own
  Writers = {w1, w2}
  Names = {entry, exit, own}
  Batches <- PairAndOwn
  MaxCalls = 3
  MaxFaults = 2
  MaxCrashes = 1
CHECK_DEADLOCK FALSE
PROPERTY StrategiesKept
