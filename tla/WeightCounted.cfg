CONSTANTS
  Requests = {r1}
  Limit = 3
  Period = 3
  Burst = 2
  BurstWindow = 1
  BucketSize = 2
  Weights = {1, 2}
  KVFails = FALSE
  MaxTime = 5
  MaxDelay = 1
  MaxAccepted = 4
SPECIFICATION Spec
PROPERTIES
  WeightCounted
