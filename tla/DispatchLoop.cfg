\* One loop that may die once beside a delegation and a person.  The loop
\* stops when its budget is used up.
SPECIFICATION Spec
CHECK_DEADLOCK FALSE

CONSTANTS
    t1 = t1 t2 = t2 t3 = t3
    Order <- MCOrder
    Before <- MCBefore
    Gates = {g1}
    Lineages = {t1}
    Policies = {"open"}
    Allowed <- MCAllowed
    Expiring = {}
    OtherEvents <- MCOtherEvents
    OtherMay <- Happens
    People = {p1}
    Operations = {o1}
    NoGate = NoGate
    Broken = Broken
    NoKey = NoKey
    CanOpen <- CanOpenNow
    Loops = {l1}
    Children = {d1}
    MaxSeq = 6
    MaxCycles = 2
    MaxDispatches = 2
    PerCycle = 2
    MaxDeaths = 1

INVARIANTS
    ActivationsWereReady
    ActiveBeforeDispatched
    TurnsPassTheGate
    DispatchesAreCounted
