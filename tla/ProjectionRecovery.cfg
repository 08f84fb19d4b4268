SPECIFICATION FairRecoverySpec
CONSTANTS
    m1 = m1 g1 = g1 s1 = s1 k1 = k1
    c1 = c1 c2 = c2
    Missions = {m1}
    CommandIds = {c1, c2}
    Keys = {k1}
    Clients = {p1, p2}
    NoKey = NoKey
    NoCommand = NoCommand
    NoClient = NoClient
    NoEnvelope = NoEnvelope
    NoMission = NoMission
    Damaged = Damaged
    MaxDamage = 1
    GoalIds = {g1}
    SessionIds = {s1}
    NoGoal = NoGoal
    Absent = Absent
    Broken = Broken
    ReducerRaised <- Broken
    InitialState <- InitialCore
    Intents <- MCIntents
    Events <- MCEvents
    Envelopes <- MCEnvelopes
    Handle <- CoreHandle
    Reduce <- CoreReduce
    Creates <- MCCreates
    States <- MCStates
INVARIANTS
    DriftComesFromOutside
    RecoveryIsTruthful
PROPERTIES
    EveryCallEnds
