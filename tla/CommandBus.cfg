SPECIFICATION Spec
CONSTANTS
    m1 = m1 m2 = m2 g1 = g1 s1 = s1 k1 = k1 k2 = k2
    c1 = c1 c2 = c2 c3 = c3 c4 = c4 c5 = c5 c6 = c6
    Missions = {m1, m2}
    CommandIds = {c1, c2, c3, c4, c5, c6}
    Keys = {k1, k2}
    Clients = {p1, p2}
    NoKey = NoKey
    NoCommand = NoCommand
    NoClient = NoClient
    NoEnvelope = NoEnvelope
    GoalIds = {g1}
    SessionIds = {s1}
    NoGoal = NoGoal
    Absent = Absent
    Broken = Broken
    ReducerRaised <- Broken
    InitialState <- InitialCore
    Intents <- MCIntents
    Events <- MCEvents
    Envelopes <- MCEnvelopes
    Handle <- MCHandle
    Reduce <- MCReduce
    Creates <- MCCreates
SYMMETRY MCSymmetry
INVARIANTS
    AppliedOncePerKey
    StreamsReplay
    AnswersAreDurable
PROPERTIES
    LedgerSpec

