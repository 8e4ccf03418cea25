SPECIFICATION ComponentsSpec
CONSTANTS
  PollInterval = 1
  QuietPeriod = 2
  MaxDefer = 3
  MinIdle = 1
  Lag = 1
  MaxScan = 2
  MaxEvents = 2
  MaxTime = 10
  SectorCounts <- TwoVolumes
  GridSide = 2
  Content <- PageContent
  Items <- ThreeRows
  Attributes = 2
  Layouts <- TwoLayouts
  Mouse = TRUE
  MaxGeneration = 2
  Retained = 1
  MaxScope = 3
  MaxAge = 2
  MaxCaptures = 2
  MaxDelays = 2
  ChainPages = 3
  IoPage = 2
  HeadRoom = 1
  RestRoom = 2
  MaxTotal = 3
  Policies <- ChainPolicies
  FileSectors = 2
  SectorPages = 2
  FileTables = {0, 2, 3}
  MaxSteps = 3
  MaxRetained = 4
  MaxItems = 2
  Classes = {"c"}
  Headers <- TwoHeaders
  PageSpan = 2
  BitmapSpan = 2
  Workers = 2
  Batch = 1
  FormatProfile = "develop"
  Envelopes <- SomeEnvelopes
  ScanPolicies <- SomePolicies
  BaseFacts = 1
  NoteFacts = 1
  Disk <- TwoDisks
  SectorSpan = 3
  ClassHops = 3
  Limits = {1, 3}
  MaxRequests = 3
CHECK_DEADLOCK FALSE
INVARIANTS
  StalenessCeiling
  QuietInputIsReread
  PageOnDisplay
  ScreenShowsTheSession
  TerminalIsRestored
  ViewIsOfItsRoute
  PollIsSingle
  OneObservationAtATime
  ChainsAreWhole
  ReadsStayWithinPolicy
  OwnershipIsWhatIsClaimed
  FactsReadBack
  ScanStaysInBudget
PROPERTIES
  SettledBeforeTheCeiling
  HalfTheTimeIsIdle
  MovedFocusIsVisible
  PausedGenerationStays
  EvidenceIsAgedHonestly
  ReturnsToNewEvidence
  RecordsKeepTheirGrounds
