SPECIFICATION Spec
CONSTANTS
    Callers = {q1, q2, q3}
    Threshold = 2
    MaxCoolings = 0
    Flows = {f1, f2}
    None = None
    MaxRetries = 0
    MaxRestarts = 0
PROPERTY DisconnectRevokes
CHECK_DEADLOCK FALSE
