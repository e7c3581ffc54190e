CONSTANTS
  Node <- MCNode
  Link <- MCLink
  Bit <- MCBit
  LID <- MCLID
  iLID <- MCiLID
  Pairs <- MCPairs
  Requests <- MCRequests
  MaxMatches = 1
  MaxRounds = 2
  Capacity = 2
  Scales = {1, 3}
  Start = 1048576
SPECIFICATION Spec
CHECK_DEADLOCK FALSE
INVARIANTS
    AnswersAreExact
    SubscribersAreServed
    MeasuredOnce
    FlowsAreFair
PROPERTIES
    RecalculationsEnd
