CONSTANTS
    None = None
    Hashes = {h1}
    CardIds = {c1, c2}
    DeviceIds = {d1, d2}
    SessionIds = {s1, s2}
    Installs = {i1, i2}
    Keys = {k1}
    Regions = {g1}
    Workers = {w1, w2}
    Settings <- SingleLoginApp
    CardSpecs <- TimeCardsOnly
    Challenges <- Keyed
    Amounts = {1}
    Ops = {"enableCard", "heartbeat", "deleteCards", "drop"}
    MinDuration = 1
    MaxDuration = 4
    SessionTTL = 1
    TicketTTL = 1
    DeviceFloor = 2
    Forever = 20
    MaxTime = 4
    MaxCounter = 2
SPECIFICATION Spec
SYMMETRY Symmetry
CHECK_DEADLOCK FALSE
INVARIANTS SingleLogin
