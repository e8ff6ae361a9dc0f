SPECIFICATION Spec
CONSTANTS
    Calls = 2
    Queue = {}
    MaxIssued = 2
    MaxEvals = 1
    MaxCrashes = 0
INVARIANTS FinalCallSpent
CHECK_DEADLOCK FALSE
