SPECIFICATION Spec
CONSTANTS
    Jobs = {j1}
    Workers = {w1}
    NoJob = NoJob
    MaxAttempts = 3
    MaxRetries = 3
    JobKinds = {"registered"}
    Cancellable = {j1}
    MaxFaults = 0
PROPERTY CancelledIsNotRun
CHECK_DEADLOCK FALSE
