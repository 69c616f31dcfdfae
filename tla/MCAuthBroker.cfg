SPECIFICATION MCSpec
CONSTANTS
    p1 = p1
    p2 = p2
    worker1 = worker1
    worker2 = worker2
    login = login
    starter = starter
    refresher = refresher
    Settings = {"installs", "joins"}
    Procs = {p1, p2}
    Admin = admin
    Callers = {login, worker1, starter, refresher}
    Home <- MCHome
    Requests <- MCRequests
    MaxGeneration = 5
    MaxRebases = 2
    MaxRechecks = 2
    MaxTokens = 3
    MaxAttempts = 2
    MaxRotations = 0
    MaxAdminCalls = 2
    MaxFaults = 1
INVARIANTS
    SpentOnce
PROPERTIES
    PayloadsSucceed
    RejectedTokenReplaced
