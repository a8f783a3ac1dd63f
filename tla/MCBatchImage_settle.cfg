SPECIFICATION Spec
CONSTANTS
    Workers = {w1, w2}
    Hold = 2
    Actual = 1
    Others = 2
    Funds = {1, 3}
    Outputs = {"good", "bad", "unbillable"}
    MaxRetries = 3
    MaxCancels = 1
    Failable <- FailingSteps
    MaxFaults = 2
    Stoppable <- StoppingSteps
    MaxCrashes = 1
    Slippable = {"submit", "entry"}
    MaxSlips = 1
SYMMETRY WorkerSymmetry
INVARIANT IInv ChargedIffCompleted OnlyCancelRefundsRunning QueueKept ReturnedWhenQuiet
PROPERTY KeepsHoldPromise
CHECK_DEADLOCK FALSE
