CONSTANTS
    None = None
    Hashes = {h1}
    CardIds = {c1}
    DeviceIds = {d1}
    SessionIds = {s1, s2}
    Installs = {i1}
    Keys = {k1}
    Regions = {g1}
    Workers = {w1, w2}
    Settings <- SharedApp
    CardSpecs <- TimeAndCount
    Challenges <- Keyed
    Amounts = {2}
    Ops = {"heartbeat", "resetUses", "resetDuration", "disableCards", "adjust", "range", "drop"}
    MinDuration = 1
    MaxDuration = 4
    SessionTTL = 1
    TicketTTL = 1
    DeviceFloor = 2
    Forever = 20
    MaxTime = 3
    MaxCounter = 1
SPECIFICATION Spec
SYMMETRY Symmetry
CHECK_DEADLOCK FALSE
INVARIANTS CountConserved UnusedCardHasNoSession DisabledCardDrains
