SPECIFICATION Spec
CONSTANTS
    x1 = x1 x2 = x2 k1 = k1 a1 = a1 a2 = a2 o1 = o1
    b1 = b1 b2 = b2 v1 = v1 v2 = v2
    Callers = {p1, p2}
    Executions = {x1, x2}
    Allowed = {x1}
    NoKey = NoKey
    NoExecution = NoExecution
    NoRequest = NoRequest
    MaxSeq = 2
    MaxInvocations = 2
    Requests <- MCRequests
    BridgeRequests <- MCBridgeRequests
    Reconciles <- MCReconciles
    Evidence <- MCEvidence
    Outcomes <- MCOutcomes
SYMMETRY MCSymmetry
INVARIANTS
    IntentBeforeEffect
    OneFactPerIntent
    IntentsAreAdmissible
    RecordsGoWithTheFact
