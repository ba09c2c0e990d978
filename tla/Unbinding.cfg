CONSTANTS
    None = None
    Hashes = {h1}
    CardIds = {c1}
    DeviceIds = {d1, d2}
    SessionIds = {s1, s2}
    Installs = {i1}
    Keys = {k1, k2}
    Regions = {g1, g2}
    Workers = {w1, w2}
    Settings <- SwitchedApp
    CardSpecs <- LimitedCards
    Challenges <- KeyedOrNot
    Amounts = {1}
    Ops = {"unbind", "updateApp", "disableDevice", "drop"}
    MinDuration = 1
    MaxDuration = 4
    SessionTTL = 1
    TicketTTL = 1
    DeviceFloor = 1
    Forever = 20
    MaxTime = 2
    MaxCounter = 1
SPECIFICATION Spec
SYMMETRY Symmetry
CHECK_DEADLOCK FALSE
INVARIANTS UnbindWithinLimit
PROPERTIES UnbindPaysForDevice KeySticky
