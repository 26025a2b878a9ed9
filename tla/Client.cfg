SPECIFICATION Spec
CONSTANTS
    MaxEngines = 3
    MaxClicks = 5
    Sharing = TRUE
    MaxConn = 2
    MaxRejects = 1
    Stoppers = {"s1", "s2"}
    KillSwitch = TRUE
    Cidrs = {"p1"}
    Addresses = {"a1", "a2"}
    Gateways = {"g1", "g2"}
    Servers = {"d1"}
    Subnets = {"n1"}
    Covers <- Inside
INVARIANTS
    EnginesOwned
    IntentServed
    LoggedOutUnshared
    StoppedIsClean
    StatusTrue
    AppliedAsPolicy
    PolicyUndone
PROPERTIES
    BusyEnds
    StopReturns
CHECK_DEADLOCK FALSE
