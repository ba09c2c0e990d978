CONSTANTS
    None = None
    Hashes = {h1}
    CardIds = {c1}
    DeviceIds = {d1}
    SessionIds = {s1, s2}
    Installs = {i1}
    Keys = {k1}
    Regions = {g1}
    Workers = {w1, w2}
    Settings <- SharedApp
    CardSpecs <- TimeCardsOnly
    Challenges <- KeyedAndReplayed
    Amounts = {1}
    Ops = {"heartbeat", "logout", "cleanup", "disableDevice", "disableDevices", "enableDevices", "deleteDevices"}
    MinDuration = 1
    MaxDuration = 4
    SessionTTL = 1
    TicketTTL = 1
    DeviceFloor = 2
    Forever = 20
    MaxTime = 3
    MaxCounter = 2
SPECIFICATION Spec
SYMMETRY Symmetry
CHECK_DEADLOCK FALSE
INVARIANTS DisabledDeviceIsQuiet
PROPERTIES LeaseSpec RevokedForever ChallengeOncePerLife
