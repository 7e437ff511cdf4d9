SPECIFICATION FairSpec
CONSTANTS
    Clients = {c1, c2}
    Fds = {4}
    NoClient = NoClient
    FrameKinds <- StreamKinds
    RawIds = {"a"}
    NoId = "none"
    MAX_SUBPROCS = 2
    HDR_SIZE = 2
    MAX_PAYLOAD = 2
    MAX_JSON = 1
    TIMEOUT = 1
    MODULUS = 16
    MaxFrames = 2
    MaxTime = 2
INVARIANTS
    TypeOK
    DecoderAligned
    BufferNeverStuck
    RegistryFollowsConnection
    AcksArePaired
    NoFalseAlarm
PROPERTIES
    ServedClientAnswered
    WaitingClientServed
CHECK_DEADLOCK FALSE
