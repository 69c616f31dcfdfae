SPECIFICATION Spec
CONSTANTS
    first = first
    second = second
    Procs = {p1, p2}
    Attempts = {first, second}
    Epoch <- MCEpoch
    MaxFaults = 1
    StopAttempts = 1
    Calls <- MCCalls
SYMMETRY Symmetric
CHECK_DEADLOCK FALSE
INVARIANTS
    OverIsDead
    EffectsAreRecorded
    SnapshotOfStopped
