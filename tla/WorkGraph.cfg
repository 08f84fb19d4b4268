SPECIFICATION Spec
CONSTANTS
    p1 = p1 p2 = p2 r1 = r1 r2 = r2 r3 = r3 t1 = t1 t2 = t2 t3 = t3
    Plans = {p1, p2}
    Revisions = {r1, r2, r3}
    Tasks = {t1, t2, t3}
    Snapshots = {s1, s2}
    NoRevision = NoRevision
    Mission = Mission
    MaxSeq = 7
    Definitions <- MCDefinitions
CHECK_DEADLOCK FALSE
INVARIANTS
    ClosedPlansAreSettled
    NoDependencyDeadlock
    FindsCycles
    SnapshotReadIsReplay
