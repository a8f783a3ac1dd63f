SPECIFICATION LiveSpec
CONSTANTS
    Workers = {w1, w2}
    Hold = 2
    Actual = 1
    Others = 2
    Funds = {1, 3}
    Outputs = {"good", "bad", "unbillable"}
    MaxRetries = 3
    MaxCancels = 1
    Failable <- FailingSteps
    MaxFaults = 1
    Stoppable <- StoppingSteps
    MaxCrashes = 1
    Slippable = {}
    MaxSlips = 0
PROPERTY JobSettles
CHECK_DEADLOCK FALSE
