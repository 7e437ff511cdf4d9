SPECIFICATION Spec
CONSTANTS
    Ports <- MixedPorts
    Routes <- MixedRoutes
    MAX_PORTS = 4
    MAX_ROUTES_PER_SRC = 2
    MAX_EVENTS = 2
    QUEUE_CAP = 1
    NFds = 5
    NHeap = 3
    Conns = {c1, c2, c3}
    IpcPeer = IpcPeer
    NoFile = NoFile
    NoMsg = NoMsg
    MaxData = 0
SYMMETRY ConnSymmetry
INVARIANTS
    TableCoherent
    PendingEventsValid
PROPERTIES
    LeakOnlyWhenFull
CHECK_DEADLOCK FALSE
