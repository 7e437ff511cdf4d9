SPECIFICATION Spec
CONSTANTS
    Ports <- TcpPorts
    Routes <- ToHostRoutes
    MAX_PORTS = 3
    MAX_ROUTES_PER_SRC = 2
    MAX_EVENTS = 4
    QUEUE_CAP = 1
    NFds = 3
    NHeap = 1
    Conns = {c1}
    IpcPeer = IpcPeer
    NoFile = NoFile
    NoMsg = NoMsg
    MaxData = 1
INVARIANTS
    KeepsRunning
CHECK_DEADLOCK FALSE
