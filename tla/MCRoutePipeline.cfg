SPECIFICATION Spec
CONSTANTS
    BUF_SIZE = 3
    MAX_DATA = 3
    FILTER_ROOM = 6
    QUEUE_CAP = 2
    Sources = {"socket", "serial", "udp"}
    RouteLists <- Lists
    Kind <- Kinds
    MaxBytes = 4
INVARIANTS
    TypeOK
    BufferKept
    NoJunk
    BytesInOrder
CHECK_DEADLOCK FALSE
