SPECIFICATION BusySpec
CONSTANTS
    QSIZE = 3
    Msgs = {m1, m2}
    NoMsg = NoMsg
    MaxDrops = 1
    BatchPushes = 2
PROPERTIES
    StopEndsDaemon
CHECK_DEADLOCK FALSE
