SPECIFICATION Spec
CONSTANTS
    OpId = {o1, o2, o3, o4, o5}
    None = None
    MaxRevision = 14
    MaxEpoch = 3
    Offers <- WriterOffers
    FleetCompatible <- AnyFleet
    Discipline <- Careful
SYMMETRY Identifiers
CHECK_DEADLOCK FALSE
INVARIANTS
    TypeOK
    AlwaysReadable
    PreparedRecoverable
    EpochsFenceWriters
    FenceTargetAnchored
PROPERTIES
    WriterLeavesByProof
    ImplementsFencedLease
