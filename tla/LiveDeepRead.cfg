SPECIFICATION Spec
CONSTANTS
  retain = 2
  following = TRUE
  Targets <- TwoTargets
  Watchers = {}
  MaxEdits = 2
  MayPanic = FALSE
  Pages = {1}
  Edges = {2}
  Enrichers = {e1, e2}
  Loaders = {}
  PageLimit = 1
  MaxRevision = 3
  Nobody = Nobody
SYMMETRY ClientSymmetry
INVARIANTS
  TypeOK
  EnrichmentStaysOnItsGeneration
  NoDeepReadIsLost
PROPERTIES
  KeepsThePromise
