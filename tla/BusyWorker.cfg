SPECIFICATION HostSpec
CONSTANTS
  SectorCounts <- TwoVolumes
  GridSide = 2
  Content <- PageContent
  Items <- ThreeRows
  Attributes = 2
  Layouts <- TwoLayouts
  Mouse = TRUE
CHECK_DEADLOCK FALSE
INVARIANTS
  LeavingAPageGoesOn
