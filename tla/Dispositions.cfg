CONSTANTS
    None = None
    Hashes = {h1}
    CardIds = {c1}
    DeviceIds = {d1}
    SessionIds = {s1, s2}
    Installs = {i1}
    Keys = {k1}
    Regions = {g1}
    Workers = {w1, w2}
    Settings <- SharedApp
    CardSpecs <- DeviceOrUses
    Challenges <- Keyed
    Amounts = {1}
    Ops = {"heartbeat", "enableCard", "act", "clear", "mark", "deleteMessages", "drop"}
    MinDuration = 1
    MaxDuration = 4
    SessionTTL = 1
    TicketTTL = 1
    DeviceFloor = 2
    Forever = 20
    MaxTime = 1
    MaxCounter = 1
    Reports = {r1}
    Events = {"e1", "e2", "e3"}
    Addresses = {a1}
    Inputs <- MildAndGrave
    Policies <- BoundedOrScored
    SessionRate = 1
    CardRate = 3
    DeviceRate = 3
    AddressRate = 3
    RateWindow = 1
    CriticalWindow = 1
    ScoreWindow = 3
    HandledDays = 1
SPECIFICATION ReportSpec
SYMMETRY ReportSymmetry
CHECK_DEADLOCK FALSE
INVARIANTS EnforcedIsQuiet DisposedStayEnded
PROPERTIES DecisionWithinPolicy
