SPECIFICATION Spec
CONSTANTS
    busy = busy
    waiting = waiting
    Calls = {busy, waiting}
    Slots = {s1}
    Kinds = {"write", "COMMIT", "ROLLBACK", "chain", "unsync", "session", "stream"}
    MaxAttempts = 2
    MaxQueries <- MCMaxQueries
    MaxFaults = 1
INVARIANTS
    OutcomeIsTrue
