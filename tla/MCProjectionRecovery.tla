------------------------- MODULE MCProjectionRecovery -------------------------
(* Two callers of the bus, which build a Mission up and are refused now    *)
(* and then, beside recovery of that Mission, which may not exist yet.     *)
EXTENDS ProjectionRecovery, MissionLifecycle

CONSTANTS m1, g1, s1, k1, c1, c2

Cmd(type, on) == [type |-> type, on |-> on, base |-> 0, to |-> "NONE"]
MCCreate   == Cmd("CREATE_MISSION", NoGoal)
MCGoal     == Cmd("CREATE_GOAL", g1)
MCIntents  == {MCCreate, MCGoal}
MCEvents == {Fact("mission.created", NoGoal, 0, 0, "NONE"),
             Fact("goal.created", g1, 0, 1, "ACTIVE")}

(* What the two events lead to, in either order and any number.            *)
MCReached(states) == states \cup {CoreReduce(st, ev) : st \in states, ev \in MCEvents}
MCStates == MCReached(MCReached(MCReached({InitialCore})))
MCCreates(cmd) == cmd.type = "CREATE_MISSION"

Env(id, key, m, seq, intent) ==
    [command_id |-> id, idempotency_key |-> key, mission_id |-> m,
     expected_seq |-> seq, intent |-> intent]

MCEnvelopes == {Env(c1, NoKey, m1, 0, MCCreate), Env(c2, k1, m1, 1, MCGoal)}
=============================================================================
