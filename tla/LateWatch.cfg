SPECIFICATION Spec
CONSTANTS
  retain = 2
  following = TRUE
  Targets <- NoTargets
  Watchers = {w1}
  MaxEdits = 3
  MayPanic = FALSE
  Pages = {}
  Edges = {}
  Enrichers = {}
  Loaders = {}
  PageLimit = 1
  MaxRevision = 3
  Nobody = Nobody
INVARIANTS
  PollNeverSleepsThroughAnAdvance
