SPECIFICATION LiveSpec
CONSTANTS
    Clients = {c1, c2}
    Failable <- HandledFailures
    MaxFaults = 2
INVARIANTS OneUsageLog OneProxy Watched
PROPERTIES GoneForGood CallEnds
CHECK_DEADLOCK FALSE
