SPECIFICATION Spec
CONSTANTS
    Requests = {a, b, c}
    States = {a, b, c}
    Sessions = {s, t}
    NoState = none
    TTL = 1
    Grace = 1
INVARIANTS
    GracefulStop
PROPERTIES
    StatesStayInSession
    ContinuesFromNewest
    StopsInTime
CHECK_DEADLOCK FALSE
