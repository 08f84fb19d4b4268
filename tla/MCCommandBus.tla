----------------------------- MODULE MCCommandBus -----------------------------
(* CommandBus with the core handlers and one command of an Extension that  *)
(* proposes two events (as r3_7 does), on a small set of commands.         *)
EXTENDS CommandBus, MissionLifecycle

CONSTANTS m1, m2, g1, s1, k1, k2, c1, c2, c3, c4, c5, c6

Cmd(type, on) == [type |-> type, on |-> on, base |-> 0, to |-> "NONE"]
MCCreate   == Cmd("CREATE_MISSION", NoGoal)
MCGoal     == Cmd("CREATE_GOAL", g1)
MCActivate == Cmd("ACTIVATE_MISSION", NoGoal)
MCExtend   == Cmd("EXTENSION_COMMAND", NoGoal)
MCMismatch == Cmd("MISMATCHED_COMMAND", NoGoal)
MCIntents  == {MCCreate, MCGoal, MCActivate, MCExtend, MCMismatch}

MCExtensionEvent == Fact("extension.fact", NoGoal, 0, 0, "NONE")
MCMismatchedEvent == Fact("extension.mismatch", NoGoal, 0, 0, "NONE")
MCEvents == {Fact("mission.created", NoGoal, 0, 0, "NONE"),
             Fact("goal.created", g1, 0, 1, "ACTIVE"),
             Fact("mission.activated", NoGoal, 0, 0, "NONE"),
             MCExtensionEvent, MCMismatchedEvent}

MCHandle(cmd, st) ==
    CASE cmd = MCExtend   -> << MCExtensionEvent, MCExtensionEvent >>
      [] cmd = MCMismatch -> << MCExtensionEvent, MCMismatchedEvent >>
      [] OTHER            -> CoreHandle(cmd, st)

(* reduce_composed: an Extension's event advances the shared seq of an     *)
(* existing Mission and leaves the core state alone.  tool_execution's     *)
(* reducer, for one, refuses events its handler lets through.              *)
MCReduce(st, ev) ==
    CASE ev = MCExtensionEvent  -> IF st = Broken \/ st.mission = Absent THEN Broken ELSE st
      [] ev = MCMismatchedEvent -> Broken
      [] OTHER                  -> CoreReduce(st, ev)

MCCreates(cmd) == cmd.type = "CREATE_MISSION"

Env(id, key, m, seq, intent) ==
    [command_id |-> id, idempotency_key |-> key, mission_id |-> m,
     expected_seq |-> seq, intent |-> intent]

(* Commands that race for one seq, a retry under another command_id, a     *)
(* retry with a refreshed expected_seq, reuse of a command_id and of a key *)
(* for other intents, and a second Mission.                                *)
MCEnvelopes ==
    { Env(c1, k1, m1, 0, MCCreate),
      Env(c2, k2, m1, 1, MCGoal),
      Env(c3, k2, m1, 1, MCGoal),
      Env(c3, k2, m1, 2, MCGoal),
      Env(c4, NoKey, m1, 2, MCActivate),
      Env(c4, k2, m1, 1, MCMismatch),
      Env(c5, NoKey, m1, 1, MCExtend),
      Env(c5, k2, m1, 0, MCCreate),
      Env(c6, k1, m2, 0, MCCreate) }

MCSymmetry == Permutations(Clients)
=============================================================================
