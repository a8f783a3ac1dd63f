SPECIFICATION Spec
CONSTANTS
    Orders = {o1}
    Workers = {w1, w2}
    OrderType <- BalanceOrder
    MaxFaults = 1
    MaxCrashes = 1
    MaxSlow = 1
SYMMETRY WorkerSymmetry
INVARIANT GrantedAtMostOnce NoGrantWithoutPayment CompletedMeansGranted
PROPERTY KeepsPromise SettledNeverReverts
CHECK_DEADLOCK FALSE
