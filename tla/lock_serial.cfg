SPECIFICATION Spec
CONSTANTS
    p1 = p1
    p2 = p2
    p3 = p3
    Procs <- ThreeProcs
    Serial = TRUE
    Failing = {"open", "write", "read"}
    Garbage <- AlwaysFound
    PidReuse = TRUE
    DiesAt <- Anywhere
    MaxStarts = 5
CHECK_DEADLOCK FALSE
SYMMETRY Symmetry
INVARIANTS
    TypeOK
    MutualExclusion
    LockNamesHolder
PROPERTY ImplementsSingleDaemon
