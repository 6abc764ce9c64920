SPECIFICATION Spec
CONSTANTS
    Peers = {"pa", "pb"}
    Ips = {"a", "b1", "b2"}
    Key <- PeerOf
    Listeners = {"smtp", "smtps"}
    Implicit = {"smtps"}
    StartTls = {"smtp"}
    Conns = {c1, c2, c3}
    MaxConnections = 2
    MaxPerPeer = 2
    AuthFailures = 2
    BanFailures = 2
    BanWindow = 2
    TempBan = 2
    PermanentAfter = 2
    BanEntries = 1
    Burst = 2
    RateEntries = 1
    MaxNow = 4
    Bounds <- Scenarios
SYMMETRY Symmetry
CHECK_DEADLOCK FALSE
INVARIANTS SlotsConserved RateQuota
PROPERTIES BanRules OnlyEarnedBans
