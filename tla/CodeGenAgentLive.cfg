CONSTANTS
  RunIds = {r1}
  Turns = {t1}
  Requests = {q1}
  None = None
  MaxPhases = 1
  PhasesPerRequest = 1
  MaxCrashes = 1
SPECIFICATION FairSpec
PROPERTIES
  RequestsServed
  GenerationTerminates
  WaitersReleased
