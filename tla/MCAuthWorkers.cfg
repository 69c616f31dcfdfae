SPECIFICATION MCSpec
CONSTANTS
    p1 = p1
    p2 = p2
    worker1 = worker1
    worker2 = worker2
    login = login
    starter = starter
    refresher = refresher
    Settings = {"workers"}
    Procs = {p1}
    Admin = admin
    Callers = {worker1, worker2}
    Home <- MCHome
    Requests <- MCRequests
    MaxGeneration = 4
    MaxRebases = 2
    MaxRechecks = 2
    MaxTokens = 3
    MaxAttempts = 2
    MaxRotations = 1
    MaxAdminCalls = 1
    MaxFaults = 1
INVARIANTS
    SpentNeverReady
    DeliveredIsDurable
PROPERTY
    CallsReturn
