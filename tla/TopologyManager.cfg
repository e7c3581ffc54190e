CONSTANTS
  Node <- MCNode
  Link <- MCLink
  Bit <- MCBit
  LID <- MCLID
  iLID <- MCiLID
  TM = 1
  Groups <- MCGroups
  Info = {1}
  MaxRequests = 1
  MaxFailures = 1
  MaxDown = 1
SPECIFICATION Spec
CHECK_DEADLOCK FALSE
INVARIANTS
    MatchesAreServed
    BrokerPathsDeliver
    EndsReachRV
PROPERTIES
    GraphConverges
