\* Two people who ask about two gates of one lineage; the Mission's other
\* writers resume the Attempt.  The bound on the stream stops them.
SPECIFICATION GateSpec
CHECK_DEADLOCK FALSE

CONSTANTS
    t1 = t1 p1 = p1 p2 = p2 g1 = g1 g2 = g2
    Gates = {g1, g2}
    Lineages = {t1}
    Policies = {"timed"}
    Allowed <- MCAllowed
    Expiring = {"timed"}
    OtherEvents <- MCOtherEvents
    OtherMay <- MCOtherMay
    CanOpen <- MCCanOpen
    People = {p1, p2}
    Operations = {o1}
    NoGate = NoGate
    Broken = Broken
    NoKey = NoKey
    MaxSeq = 3

SYMMETRY MCSymmetry

INVARIANTS
    GatesReplay
    NoIsFinal
