SPECIFICATION FollowSpec
CONSTANTS
  retain = 2
  following = TRUE
  Targets <- NoTargets
  Watchers = {}
  MaxEdits = 5
  MayPanic = TRUE
INVARIANTS
  RetentionIsTheNewest
  PendingIsShared
  MixedIsBehindTheInput
PROPERTIES
  SupersededStandingHasACause
  EventuallyCurrent
  OutdatedIsNoticed
CHECK_DEADLOCK FALSE
