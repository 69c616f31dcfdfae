SPECIFICATION MCSpec
CONSTANTS
    front = front
    back = back
    Procs = {front, back}
    Nobody = Nobody
    MaxCalls = 2
    MaxToken = 4
    MaxFaults = 2
    Callers = {front, back}
    Works <- MCWorks
    Groups = {"storage", "collector", "image"}
    QuiescentGroups = {"collector"}
    ImageGroup = "image"
    Deployments <- MCDeployments
INVARIANTS
    SentAtMostOnce
    RefreshedIsKept
    PoolsOutliveWork
    StoppedIsQuiet
PROPERTIES
    StopSettles
    ReservationEndsForGood
CHECK_DEADLOCK FALSE
