SPECIFICATION FairSpec
CONSTANTS
    Calls = 3
    Queue = {"volpar"}
    MaxIssued = 2
    MaxEvals = 2
    MaxCrashes = 2
INVARIANTS TypeOK CallsAccounted StateBacked EvaluatedFrozen SoleEvaluation ConcludedOnce
PROPERTIES AuditConcludes
CHECK_DEADLOCK FALSE
