SPECIFICATION Spec
CONSTANTS
    Workers = {w1, w2}
    Amount = 2
    RefundAmount = 1
    Providers = {"keyed", "plain"}
    MaxAttempts = 3
    MaxFaults = 2
    MaxCrashes = 1
SYMMETRY WorkerSymmetry
INVARIANT TypeOK OneExecutor UndoneWhenRestored RefundedMeansPaidBack PaidBackAtMostOnce
CHECK_DEADLOCK FALSE
