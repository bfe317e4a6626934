CONSTANTS
  RunIds = {r1, r2}
  Turns = {t1, t2}
  Requests = {q1}
  None = None
  MaxPhases = 1
  PhasesPerRequest = 1
  MaxCrashes = 1
SPECIFICATION Spec
SYMMETRY Symmetry
INVARIANTS
  TypeOK
  OneRunAtATime
  DebugPromiseExact
  RunStoppable
  NoPhaseImplementedTwice
  FinalizedOnce
  CompletedMeansReviewed
PROPERTIES
  PhasesNeverUndone
