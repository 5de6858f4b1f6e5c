SPECIFICATION Spec
CONSTANTS
    p1 = p1
    p2 = p2
    p3 = p3
    Procs <- ThreeProcs
    Serial = FALSE
    Failing = {}
    Garbage <- AlwaysFound
    PidReuse = FALSE
    DiesAt <- OnlyWhenHeld
    MaxStarts = 5
CHECK_DEADLOCK FALSE
SYMMETRY Symmetry
INVARIANT MutualExclusion
