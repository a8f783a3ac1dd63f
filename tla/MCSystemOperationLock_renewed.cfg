SPECIFICATION Spec
CONSTANTS
    o1 = o1
    o2 = o2
    o3 = o3
    Ops = {o1, o2, o3}
    OpId <- RetriedId
    Lease = 3
    Interval = 1
    TTL = 7
    CallTime = 0
    RunTime = 6
    MaxTime = 11
    MaxFaults = 1
INVARIANT OwnerExcludes
CHECK_DEADLOCK FALSE
