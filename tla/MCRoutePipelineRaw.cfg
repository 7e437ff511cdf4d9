SPECIFICATION Spec
CONSTANTS
    BUF_SIZE = 3
    MAX_DATA = 3
    FILTER_ROOM = 6
    QUEUE_CAP = 1
    Sources = {"socket", "serial", "udp"}
    RouteLists <- Lists
    Kind <- Kinds
    MaxBytes = 3
INVARIANTS
    RawRouteUnchanged
CHECK_DEADLOCK FALSE
