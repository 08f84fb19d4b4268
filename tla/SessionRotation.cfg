\* The control loop beside a product action, one of which may die, and the
\* Mission's other writers.  A call that is refused for good stops the system.
SPECIFICATION Spec
CHECK_DEADLOCK FALSE

CONSTANTS
    Callers = {c1, c2}
    FirstStatus = {"opened", "suspended", "closed", "failed"}
    OtherEvents = {"other", "task_left", "task_session_closed"}
    MaxOthers = 1
    MaxSessions = 3
    MaxAttempts = 2
    MaxCrashes = 1
    NoKey = NoKey

SYMMETRY CallersAlike

INVARIANTS
    OneOpenSession
    TwoPhaseCompletion
