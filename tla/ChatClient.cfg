CONSTANTS
  MaxAttempts = 3
  MaxTroubles = 2
  MaxClicks = 1
SPECIFICATION FairSpec
CHECK_DEADLOCK FALSE
INVARIANTS
  NeverStranded
  RunsAreIntended
PROPERTIES
  GenerationResumes
