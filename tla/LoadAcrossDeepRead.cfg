SPECIFICATION Spec
CONSTANTS
  retain = 2
  following = TRUE
  Targets <- ThreeTargets
  Watchers = {}
  MaxEdits = 0
  MayPanic = FALSE
  Pages = {}
  Edges = {}
  Enrichers = {e1}
  Loaders = {l1}
  PageLimit = 1
  MaxRevision = 3
  Nobody = Nobody
INVARIANTS
  LoadHasNoSeam
