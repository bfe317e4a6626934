CONSTANTS
  MaxRestarts = 1
  KillFails = FALSE
SPECIFICATION Spec
PROPERTIES
  StubbornChildKilled
CHECK_DEADLOCK FALSE
