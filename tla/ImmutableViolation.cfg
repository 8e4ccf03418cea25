SPECIFICATION Spec
CONSTANTS
  retain = 2
  following = FALSE
  Targets <- ThreeTargets
  Watchers = {}
  MaxEdits = 2
  MayPanic = FALSE
  Pages = {1}
  Edges = {3}
  Enrichers = {e1}
  Loaders = {l1}
  PageLimit = 1
  MaxRevision = 3
  Nobody = Nobody
INVARIANTS
  ImmutableFindingsAreOfTheSnapshot
