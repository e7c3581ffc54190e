CONSTANTS
  Node <- MCNode
  Link <- MCLink
  Bit <- MCBit
  LID <- MCLID
  iLID <- MCiLID
  TM = 1
  confPrio <- MCconfPrio
  ItemPrio <- MCItemPrio
  Publishers <- MCPublishers
  Subscribers <- MCSubscribers
  Provider = 2
  MaxMatches = 2
  FID_LEN = 2
  PURSUIT_ID_LEN = 1
SPECIFICATION Spec
CHECK_DEADLOCK FALSE
INVARIANTS
    ReportsAreReadAsWritten
    PlanesAgree
    QueriesAreTidy
    PathsFitPriorities
PROPERTIES
    PrioritiesBecomeKnown
