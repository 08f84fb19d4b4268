SPECIFICATION MissionSpec
CONSTANTS
    GoalIds = {g1, g2, g3}
    SessionIds = {s1, s2}
    NoGoal = NoGoal
    Absent = Absent
    Broken = Broken
    MaxRevision = 3
SYMMETRY MCSymmetry
INVARIANTS
    CompletionIsEarned
CHECK_DEADLOCK FALSE
