SPECIFICATION FairSpec
CONSTANTS
  retain = 0
  following = TRUE
  Targets <- NoTargets
  Watchers = {w1, w2}
  MaxEdits = 2
  MayPanic = TRUE
  Pages = {}
  Edges = {}
  Enrichers = {}
  Loaders = {}
  PageLimit = 1
  MaxRevision = 3
  Nobody = Nobody
INVARIANTS
  NoMissedPublication
PROPERTIES
  WatchersCatchUp
