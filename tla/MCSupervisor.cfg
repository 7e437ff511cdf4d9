SPECIFICATION Spec
CONSTANTS
    MAX_CHILDREN = 2
    Callers = {c1, c2, c3}
    Pids = {p1, p2, p3, p4}
    NoPid = NoPid
SYMMETRY CallerSymmetry
INVARIANTS
    TypeOK
    NoOrphans
    KilledOnlyWhenFull
PROPERTIES
    RecordsAreKept
CHECK_DEADLOCK FALSE
