\* The control loop alone, which dies twice and is started again.
SPECIFICATION Spec
CHECK_DEADLOCK FALSE

CONSTANTS
    Callers = {c1}
    FirstStatus = {"opened", "suspended"}
    OtherEvents = {}
    MaxOthers = 0
    MaxSessions = 4
    MaxAttempts = 3
    MaxCrashes = 2
    NoKey = NoKey

INVARIANTS
    OneAttemptPerRotation
    SuccessorIsTheWorker

PROPERTIES
    RotationFinishes
