SPECIFICATION EitherSpec
CONSTANTS
  retain = 2
  following = TRUE
  Targets <- TwoTargets
  Watchers = {}
  MaxEdits = 2
  MayPanic = FALSE
  Pages = {}
  Edges = {}
  Enrichers = {e1}
  Loaders = {l1}
  PageLimit = 1
  MaxRevision = 2
  Nobody = Nobody
INVARIANTS
  LoadsAreOfOneReading
  ImmutableFactsAreOfTheSnapshot
