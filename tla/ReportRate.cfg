CONSTANTS
    None = None
    Hashes = {h1}
    CardIds = {c1}
    DeviceIds = {d1}
    SessionIds = {s1}
    Installs = {i1}
    Keys = {k1}
    Regions = {g1}
    Workers = {w1, w2}
    Settings <- SingleLoginApp
    CardSpecs <- PermanentCards
    Challenges <- Keyed
    Amounts = {1}
    Ops = {"cleanup"}
    MinDuration = 1
    MaxDuration = 4
    SessionTTL = 4
    TicketTTL = 1
    DeviceFloor = 2
    Forever = 20
    MaxTime = 3
    MaxCounter = 3
    Reports = {r1, r2, r3}
    Events = {"e1", "e2", "e3"}
    Addresses = {a1}
    Inputs <- Burst
    Policies <- ShortLived
    SessionRate = 1
    CardRate = 3
    DeviceRate = 3
    AddressRate = 3
    RateWindow = 1
    CriticalWindow = 1
    ScoreWindow = 3
    HandledDays = 1
SPECIFICATION ReportSpec
SYMMETRY ReportSymmetry
CHECK_DEADLOCK FALSE
INVARIANTS ReportTypeOK ReportRateHolds

