SPECIFICATION BrowserSpec
CONSTANTS
  MaxGeneration = 3
  Retained = 2
  MaxScope = 3
CHECK_DEADLOCK FALSE
INVARIANT FailedPollIsRetried
