SPECIFICATION LifeFairSpec
CONSTANTS
    QSIZE = 3
    Msgs = {m1, m2}
    NoMsg = NoMsg
    MaxDrops = 1
    BatchPushes = 2
INVARIANTS
    LifeTypeOK
    NoLostWakeup
PROPERTIES
    ImplementsFifo
    PushReturns
    QueueServed
    Settles
    StopsOnTraffic
CHECK_DEADLOCK FALSE
