SPECIFICATION FairSpec
CONSTANTS
    Jobs = {j1, j2}
    Workers = {w1, w2}
    NoJob = NoJob
    MaxAttempts = 3
    MaxRetries = 3
    JobKinds = {"registered"}
    Cancellable = {}
    MaxFaults = 0
PROPERTIES ImplementsContract JobsSettle
CHECK_DEADLOCK FALSE
