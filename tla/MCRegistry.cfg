SPECIFICATION Spec
CONSTANTS
    MAX_SUBPROCS = 2
    Fds = {4, 5, 6}
    RawIds = {"a", "b", "long1", "long2"}
    DeviceIds = {"a", "b", "long"}
    Trunc <- CutIds
    MaxTime = 2
INVARIANTS
    TypeOK
    UniqueEntries
PROPERTIES
    EntryKeepsIdentity
