\* Two Attempts of one Task, one request, and one Task, Session, Plan or
\* Mission that changes at any moment.  The bound on the stream stops them.
SPECIFICATION Spec
CHECK_DEADLOCK FALSE

CONSTANTS
    c1 = c1 c2 = c2 t1 = t1 a1 = a1 a2 = a2 s1 = s1 s2 = s2 r1 = r1 p1 = p1 p2 = p2
    Callers = {c1, c2}
    Tasks = {t1}
    Attempts = {a1, a2}
    Sessions = {s1, s2}
    Requests = {r1}
    Providers = {p1}
    None = None
    NoKey = NoKey
    MaxSeq = 6
    MaxChanges = 1
    MaxRefusals = 1

SYMMETRY MCSymmetry

INVARIANTS
    AttemptsReplay
    ContextsStillHold
    ObservationsAreCurrent
    AnswersAreOfTheAsker
