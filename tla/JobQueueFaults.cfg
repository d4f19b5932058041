SPECIFICATION FairSpec
CONSTANTS
    Jobs = {j1}
    Workers = {w1, w2}
    NoJob = NoJob
    MaxAttempts = 2
    MaxRetries = 2
    JobKinds = {"registered", "unregistered", "unconsumed"}
    Cancellable = {j1}
    MaxFaults = 2
INVARIANTS TypeOK NoStalledJob SingleCarrier AttemptsCountFailures OutcomeHasCause
PROPERTIES CompletedIsFinal MessagesDrain
CHECK_DEADLOCK FALSE
