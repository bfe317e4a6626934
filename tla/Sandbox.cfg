CONSTANTS
  Calls = {c1, c2}
  Attempts = {a1, a2, a3}
  Checks = {k1}
  Instances = {1, 2, 3, 4, 5}
  Sessions = {1, 2, 3, 4}
  Files = {}
  None = None
  MaxVersion = 0
  MaxTroubles = 2
  Strays = TRUE
  Analyses = TRUE
  PartialWrites = FALSE
  Redeploys = FALSE
SPECIFICATION FairSpec
INVARIANTS
  TypeOK
  PromiseExact
  OneLiveAttempt
PROPERTIES
  DeploymentsEnd
  
