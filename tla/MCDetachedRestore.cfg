SPECIFICATION FairSpec
CONSTANTS
    front = front
    back = back
    Free = Free
    Workers = {front, back}
    Deployments <- MCDeployments
    MaxFaults = 1
INVARIANTS
    BegunOnce
    CommittedIsReal
PROPERTY DoneIsSettled
