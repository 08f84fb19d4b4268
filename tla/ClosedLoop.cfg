\* Two callers on one cycle that lacks only the answer of R4_5.  The bounds
\* on events and commands stop them.
SPECIFICATION LoopSpec
CHECK_DEADLOCK FALSE

CONSTANTS
    c1 = c1 a1 = a1 p1 = p1 p2 = p2 q1 = q1
    Cycles = {c1}
    Phases = {"WORK_ACTIVE", "READINESS_OBSERVED"}
    Authorities = {"R3_7", "R4_5"}
    RequestRefs = {q1}
    Results <- MCResults
    TextBefore <- MCTextBefore
    FieldValidationRequired = FALSE
    LoopCallers = {p1, p2}
    Past <- MCPast
    NoCycle = NoCycle
    NoRevision = NoRevision
    NoId = NoId
    Broken = Broken
    NoKey = NoKey
    MaxSeq = 8
    MaxRows = 8

SYMMETRY MCSymmetry

INVARIANTS
    ClosuresWereEarned
    FinalAnswersStand
