SPECIFICATION Spec
CONSTANTS
    a1 = a1
    c1 = c1
    d1 = d1
    a2 = a2
    g1 = g1
    l1 = l1
    s1 = s1
    c2 = c2
    d2 = d2
    v1 = v1
    l2 = l2
    OpId <- RestoreIds
    None = None
    MaxRevision = 45
    MaxEpoch = 3
    Offers <- RestoreOffers
    FleetCompatible <- AnyFleet
    Discipline <- Careful
CONSTRAINT LifeInOrder
CHECK_DEADLOCK FALSE
INVARIANTS
    RunningWriterTracked
    HandoffBoundary
