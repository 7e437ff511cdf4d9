SPECIFICATION FairSpec
CONSTANTS
    Ports <- IpcPorts
    Routes <- IpcRoutes
    MAX_PORTS = 3
    MAX_ROUTES_PER_SRC = 2
    MAX_EVENTS = 4
    QUEUE_CAP = 2
    NFds = 4
    NHeap = 1
    Conns = {c1}
    IpcPeer = IpcPeer
    NoFile = NoFile
    NoMsg = NoMsg
    MaxData = 2
INVARIANTS
    TypeOK
    OrderPreserved
PROPERTIES
    LeakOnlyWhenFull
    ReactorResponsive
    DisconnectNoticed
CHECK_DEADLOCK FALSE
