CONSTANTS
  MaxAttempts = 1
  MaxTroubles = 0
  MaxClicks = 1
SPECIFICATION Spec
CHECK_DEADLOCK FALSE
INVARIANT StopStays
