SPECIFICATION Spec
CONSTANTS
  a1 = a1
  a2 = a2
  App = {a1, a2}
  Separate = {a2}
  Setups <- MCSetups
  MaxSocket = 1
CHECK_DEADLOCK FALSE
INVARIANTS
    TypeOK
    RequestsArriveAsAsked
    EventsAreKept
    NoLostWakeup
PROPERTIES
    RequestsAreRead
