CONSTANTS
  MaxRestarts = 3
  KillFails = TRUE
  Lines = {l1, l2, l3}
  Readers = {r1, r2}
  None = None
  MaxFile = 2
  Keep = 1
  MaxOpen = 2
  MaxResets = 2
  MaxKills = 1
  Hashes = {h1, h2}
  Tools = {t1, t2}
  Retries = 3
  MaxErrors = 4
  MaxClears = 2
  MaxTroubles = 3
SPECIFICATION ContainerSpec
INVARIANTS
  SingleChild
  LinesOnce
  OccurrencesCounted
PROPERTIES
  NoRestartAfterStop
  StopEnds
  CrashIsHandled
CHECK_DEADLOCK FALSE
