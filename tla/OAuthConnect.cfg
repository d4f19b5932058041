SPECIFICATION FairSpec
CONSTANTS
    Callers = {q1, q2, q3}
    Threshold = 2
    MaxCoolings = 1
    Flows = {f1, f2}
    None = None
    MaxRetries = 2
    MaxRestarts = 1
INVARIANTS TypeOK FailuresBounded ClosedBelowThreshold FlowUsedOnce RowsCoherent
PROPERTIES RequestsEnd RequestsAdvance
CHECK_DEADLOCK FALSE
