SPECIFICATION Spec
CONSTANTS
    Workers = {w1, w2}
    Hold = 2
    Actual = 1
    Others = 2
    Funds = {1, 3}
    Outputs = {"good", "bad", "unbillable"}
    MaxRetries = 3
    MaxCancels = 1
    Failable <- FailingSteps
    MaxFaults = 0
    Stoppable <- StoppingSteps
    MaxCrashes = 0
    Slippable = {}
    MaxSlips = 0
SYMMETRY WorkerSymmetry
INVARIANT NoRefundWhileRunning
CHECK_DEADLOCK FALSE
