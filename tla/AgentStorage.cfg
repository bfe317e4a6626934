CONSTANTS
  Turns = {t1, t2}
  MaxTurns = 3
  Preserve = 2
  MaxMessages = 9
  RowLimit = 11
  Legacy = 2
  MaxNumber = 4
  MaxCrashes = 1
  Files = {f1, f2}
  Texts = {x1, x2}
  Absent = Absent
  Blank = Blank
  Saves = {s1, s2}
  Syncs = {y1, y2}
  MaxSaves = 2
  MaxResets = 2
  MaxTroubles = 1
SPECIFICATION StorageSpec
SYMMETRY Symmetry
CHECK_DEADLOCK FALSE
INVARIANTS
  HistoriesAgree
  MapAgreesWithGit
PROPERTIES
  RunningBounded
  LostToSnapshot
