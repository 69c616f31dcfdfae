SPECIFICATION Spec
CONSTANTS
    Procs = {p1, p2}
    Ops = {o1, o2}
    Storages = {s1}
    MaxEpoch = 1
    Watermark = 1
    MaxGen = 2
    MaxFaults = 1
SYMMETRY Symmetry
INVARIANTS
    HeadReadable
    DispatchedOnce
    ToldIsDurable
PROPERTY ImplementsOperations
