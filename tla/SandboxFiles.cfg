CONSTANTS
  Calls = {c1, c2}
  Attempts = {a1, a2}
  Checks = {}
  Instances = {1, 2, 3, 4, 5}
  Sessions = {1, 2, 3}
  Files = {f1, f2}
  None = None
  MaxVersion = 1
  MaxTroubles = 1
  Strays = FALSE
  Analyses = FALSE
  PartialWrites = FALSE
  Redeploys = TRUE
SPECIFICATION Spec
SYMMETRY Symmetry
PROPERTIES
  OwnFilesDeployed
