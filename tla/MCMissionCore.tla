----------------------------- MODULE MCMissionCore -----------------------------
EXTENDS MissionCore, TLC
MCSymmetry == Permutations(GoalIds) \cup Permutations(SessionIds)
=============================================================================
