SPECIFICATION Spec
CONSTANTS
    w1 = w1  w2 = w2
    n1 = n1  n2 = n2  v1 = v1  v2 = v2  s1 = s1  s2 = s2
    Flows = {"a", "b", "d"}
    UserOfFlow <- FlowUser
    ShardOf <- FlowShard
    LastShard = 1
    Forwarders = {w1, w2}
    MaxPerUser = 2
    FlowTTL = 0
    Every = 2
    MaxPackets = 4
    MaxTime = 1
    Nothing = Nothing
    Loggers = {"l1"}
    QueueLen = 1
    MaxEntries = 3
    MaxNested = 1
    Logins = {"a", "b"}
    Nobody = Nobody
    MaxStarts = 4
    MaxForms = 2
    Nics = {n1, n2}
    NoNic = NoNic
    LanList <- TwoLans
    VpnIPs = {v1, v2}
    VpnSubnets = {s1, s2}
    MaxEngines = 2
    MaxMoves = 1
    Width = 4  Pool <- PoolNet  Gateway = 4  PrivateNets <- SomePrivate  MinAdvertised = 2
    Member = Member  Exit = Exit  AddressOf <- Addressed
    BaseRules <- SomeRules  LanRules <- SomeLans
    Wires = {n1, n2}  SystemNets <- SomeRoutes  MaxRoutes = 3
SYMMETRY Symmetry
INVARIANTS
    FlowsTrue
    ExitsClean
    EnginesAlone
    FilesTrue
    ShareTrue
    SourceTrue
    PathsTrue
    OutboundTrue
CHECK_DEADLOCK FALSE
