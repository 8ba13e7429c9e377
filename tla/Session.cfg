SPECIFICATION RefreshSpec
CONSTANTS
    Request = {r1, r2, r3}
    User = {u, v}
    MaxPairs = 2
    MaxFailures = 1
INVARIANTS
    OneRefresh
    SessionIsOwn
    LiveSessionServes
PROPERTIES
    EveryRequestEnds
CHECK_DEADLOCK FALSE
