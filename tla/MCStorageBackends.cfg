SPECIFICATION MCSpec
CONSTANTS
    Calls = {c1, c2}
    Ops = {1, 2, 3, 4, 5, 6, 7, 8}
    Storages = {s1}
    MaxEpoch = 3
    Watermark = 1
    MaxTree = 3
    MaxFaults = 2
    Hosts = {h1, h2}
    First = h1
    Nowhere = Nowhere
    Captures = {k1}
    Restores = {r1}
    NoOperation = NoOperation
    Epoch <- MCEpoch
    LastEpoch = 2
    MaxWrites = 1
    MaxAttempts = 1
    MaxMishaps = 1
SYMMETRY Symmetry
CONSTRAINT Focus
CHECK_DEADLOCK FALSE
INVARIANTS
    RecordedIsReal
    OpensUnlessCut
    CapturedIsStill
    CaptureToldTrue
