SPECIFICATION FairSpec
CONSTANTS
    r1 = r1
    r2 = r2
    c1 = c1
    c2 = c2
    Requests = {r1, r2}
    Calls = {c1, c2}
    Instances <- TwoInstances
    Max = 2
    MaxWait = 1
    MaxAttempts = 2
    MaxFaults = 1
    MaxCrashes = 1
    MaxOverruns = 1
INVARIANTS LimitRespected Accounted
PROPERTY SlotsReturn
CHECK_DEADLOCK FALSE
