SPECIFICATION FollowSpec
CONSTANTS
  retain = 2
  following = TRUE
  Targets <- NoTargets
  Watchers = {}
  MaxEdits = 5
  MayPanic = FALSE
INVARIANTS
  UntornIsOfOneState
