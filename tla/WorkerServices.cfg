CONSTANTS
  Requests = {r1, r2}
  MaxCreated = 5
  MaxSessions = 2
  MaxTime = 2
  MaxTroubles = 1
  DailyFree = 1
  Monthly <- MCMonthly
  Rollover <- MCMonthly
  Cycle = 1
  MaxDay = 2
  MaxEvents = 2
  MaxCrashes = 1
  Limit = 3
  Burst = 2
  BurstWindow = 1
  BucketSize = 2
  DOPeriod = 3
  DailyLimit = 4
  DailyWindow = 6
  CleanupPeriod = 2
  DOWeights = {1, 2}
  DOTime = 10
  Period = 2
  KVWeights = {0, 1, 2}
  KVFails = TRUE
  MaxDelay = 1
  KVTime = 4
  MaxAccepted = 4
SPECIFICATION ServicesSpec
SYMMETRY Symmetry
INVARIANTS
  SessionsLimited
  LedgerAddsUp
  GrantsBounded
PROPERTIES
  ImplementsSlidingWindow
  RefusedOnlyWhenFull
  ExpiredOutOfReach
