--------------------------- MODULE MissionLifecycle ---------------------------
(***************************************************************************)
(* The core state of one Mission, as durable_core keeps it: the Mission's  *)
(* status, its Goals and its Sessions.                                     *)
(*                                                                         *)
(* The code states the life cycle twice: handlers.py decides which fact a  *)
(* command produces, and reducer.py decides, again, whether a fact may be  *)
(* folded into the state.  Both tables are kept here as they are written,  *)
(* so that a model can ask whether they agree.                             *)
(*                                                                         *)
(* A handler that raises produces no fact: CoreHandle is <<>>.  A reducer  *)
(* that raises yields Broken.  Names, reasons, attributes, Goal            *)
(* definitions and time stamps are left out.                               *)
(***************************************************************************)
EXTENDS Naturals, Sequences

CONSTANTS GoalIds, SessionIds,
          NoGoal,        \* mission.active_goal_id is None
          Absent,        \* there is no such Mission, Goal or Session
          Broken         \* the reducer raised

MissionTerminal == {"COMPLETED", "FAILED", "CANCELLED"}
MissionStatus   == {"CREATED", "ACTIVE", "PAUSED", "BLOCKED"} \cup MissionTerminal
GoalStatus      == {"ACTIVE", "ACHIEVED", "CANCELLED"}
SessionStatus   == {"OPEN", "SUSPENDED", "CLOSED", "FAILED"}

(* RuntimeState without its seq, which the stream of events carries.       *)
CoreStates ==
    [mission  : MissionStatus \cup {Absent},
     active   : GoalIds \cup {NoGoal},
     goals    : [GoalIds -> [status : GoalStatus, revision : Nat \ {0}] \cup {Absent}],
     sessions : [SessionIds -> SessionStatus \cup {Absent}]]

InitialCore ==
    [mission  |-> Absent,
     active   |-> NoGoal,
     goals    |-> [g \in GoalIds |-> Absent],
     sessions |-> [s \in SessionIds |-> Absent]]

HasGoal(st, g) == st.goals[g] # Absent
GoalIsActive(st, g) == HasGoal(st, g) /\ st.goals[g].status = "ACTIVE"
(* Fault: any Goal that is over counts.                                    *)
SomeGoalOver(st) == \E g \in GoalIds : HasGoal(st, g) /\ ~GoalIsActive(st, g)
SomeGoalAchieved(st) ==
    \E g \in GoalIds : HasGoal(st, g) /\ st.goals[g].status = "ACHIEVED"

-----------------------------------------------------------------------------
(* handlers.py: when a command is allowed and the fact it produces.  A     *)
(* command is [type, on, base, to]: on is the Goal or Session it names,    *)
(* base the base_revision of REVISE_GOAL, to the status a                  *)
(* CHANGE_GOAL_STATUS asks for.                                            *)

MissionMove ==
    [ACTIVATE_MISSION |-> [from |-> {"CREATED"}, event |-> "mission.activated"],
     PAUSE_MISSION    |-> [from |-> {"ACTIVE"},  event |-> "mission.paused"],
     BLOCK_MISSION    |-> [from |-> {"ACTIVE"},  event |-> "mission.blocked"],
     COMPLETE_MISSION |-> [from |-> {"ACTIVE"},  event |-> "mission.completed"],
     CONTINUE_MISSION |-> [from |-> {"PAUSED", "BLOCKED"},
                           event |-> "mission.continued"],
     FAIL_MISSION     |-> [from |-> {"ACTIVE", "PAUSED", "BLOCKED"},
                           event |-> "mission.failed"],
     CANCEL_MISSION   |-> [from |-> {"CREATED", "ACTIVE", "PAUSED", "BLOCKED"},
                           event |-> "mission.cancelled"]]

(* No handler of a Session command looks at the Mission's status.          *)
SessionMove ==
    [OPEN_SESSION    |-> [from |-> {Absent}, event |-> "session.opened"],
     SUSPEND_SESSION |-> [from |-> {"OPEN"}, event |-> "session.suspended"],
     CLOSE_SESSION   |-> [from |-> {"OPEN", "SUSPENDED"}, event |-> "session.closed"],
     FAIL_SESSION    |-> [from |-> {"OPEN", "SUSPENDED"}, event |-> "session.failed"]]

MissionMayMove(cmd, st) ==
    /\ cmd.type \in DOMAIN MissionMove
    /\ st.mission \in MissionMove[cmd.type].from
    /\ cmd.type = "ACTIVATE_MISSION" => st.active # NoGoal
    /\ cmd.type = "COMPLETE_MISSION" => SomeGoalAchieved(st)

GoalMayMove(cmd, st) ==
    /\ st.mission \notin MissionTerminal
    /\ \/ /\ cmd.type = "CREATE_GOAL"
          /\ ~HasGoal(st, cmd.on)
          /\ st.active = NoGoal
       \/ /\ cmd.type = "REVISE_GOAL"
          /\ GoalIsActive(st, cmd.on)
          /\ cmd.base = st.goals[cmd.on].revision
       \/ /\ cmd.type = "CHANGE_GOAL_STATUS"
          /\ GoalIsActive(st, cmd.on)
          /\ cmd.to \in {"ACHIEVED", "CANCELLED"}

SessionMayMove(cmd, st) ==
    /\ cmd.type \in DOMAIN SessionMove
    /\ st.sessions[cmd.on] \in SessionMove[cmd.type].from

CoreAllows(cmd, st) ==
    IF cmd.type = "CREATE_MISSION"
    THEN st.mission = Absent
    ELSE /\ st.mission # Absent
         /\ \/ MissionMayMove(cmd, st)
            \/ GoalMayMove(cmd, st)
            \/ SessionMayMove(cmd, st)

Fact(type, on, base, revision, to) ==
    [type |-> type, on |-> on, base |-> base, revision |-> revision, to |-> to]

CoreFact(cmd, st) ==
    CASE cmd.type = "CREATE_MISSION" -> Fact("mission.created", cmd.on, 0, 0, "NONE")
      [] cmd.type \in DOMAIN MissionMove ->
            Fact(MissionMove[cmd.type].event, cmd.on, 0, 0, "NONE")
      [] cmd.type \in DOMAIN SessionMove ->
            Fact(SessionMove[cmd.type].event, cmd.on, 0, 0, "NONE")
      [] cmd.type = "CREATE_GOAL" -> Fact("goal.created", cmd.on, 0, 1, "ACTIVE")
      [] cmd.type = "REVISE_GOAL" ->
            Fact("goal.revised", cmd.on, cmd.base, st.goals[cmd.on].revision + 1, "NONE")
      [] cmd.type = "CHANGE_GOAL_STATUS" ->
            Fact("goal.status_changed", cmd.on, 0, 0, cmd.to)

CoreHandle(cmd, st) ==
    IF CoreAllows(cmd, st) THEN << CoreFact(cmd, st) >> ELSE << >>

-----------------------------------------------------------------------------
(* reducer.py: when a fact is accepted and what it does to the state.      *)

MissionFacts ==
    [type \in {"mission.activated", "mission.paused", "mission.blocked", "mission.continued",
              "mission.completed", "mission.failed", "mission.cancelled"} |->
       CASE type = "mission.activated" -> [from |-> {"CREATED"}, to |-> "ACTIVE"]
         [] type = "mission.paused"    -> [from |-> {"ACTIVE"}, to |-> "PAUSED"]
         [] type = "mission.blocked"   -> [from |-> {"ACTIVE"}, to |-> "BLOCKED"]
         [] type = "mission.continued" -> [from |-> {"PAUSED", "BLOCKED"}, to |-> "ACTIVE"]
         [] type = "mission.completed" -> [from |-> {"ACTIVE"}, to |-> "COMPLETED"]
         [] type = "mission.failed"    -> [from |-> {"ACTIVE", "PAUSED", "BLOCKED"}, to |-> "FAILED"]
         [] type = "mission.cancelled" -> [from |-> {"CREATED", "ACTIVE", "PAUSED", "BLOCKED"},
                                           to |-> "CANCELLED"]]

SessionFacts ==
    [type \in {"session.opened", "session.suspended", "session.closed", "session.failed"} |->
       CASE type = "session.opened"    -> [from |-> {Absent}, to |-> "OPEN"]
         [] type = "session.suspended" -> [from |-> {"OPEN"}, to |-> "SUSPENDED"]
         [] type = "session.closed"    -> [from |-> {"OPEN", "SUSPENDED"}, to |-> "CLOSED"]
         [] type = "session.failed"    -> [from |-> {"OPEN", "SUSPENDED"}, to |-> "FAILED"]]

CoreAccepts(st, ev) ==
    IF ev.type = "mission.created"
    THEN st.mission = Absent
    ELSE /\ st.mission # Absent
         /\ \/ /\ ev.type \in DOMAIN MissionFacts
               /\ st.mission \in MissionFacts[ev.type].from
               /\ ev.type = "mission.activated" => st.active # NoGoal
               /\ ev.type = "mission.completed" => SomeGoalAchieved(st)
            \/ /\ ev.type = "goal.created"
               /\ ~HasGoal(st, ev.on) /\ st.active = NoGoal
               /\ ev.revision = 1 /\ ev.to = "ACTIVE"
            \/ /\ ev.type = "goal.revised"
               /\ GoalIsActive(st, ev.on)
               /\ ev.base = st.goals[ev.on].revision
               /\ ev.revision = st.goals[ev.on].revision + 1
            \/ /\ ev.type = "goal.status_changed"
               /\ GoalIsActive(st, ev.on)
               /\ ev.to \in {"ACHIEVED", "CANCELLED"}
            \/ /\ ev.type \in DOMAIN SessionFacts
               /\ st.sessions[ev.on] \in SessionFacts[ev.type].from

(* goal.status_changed clears active_goal_id without comparing it with the *)
(* Goal of the event.                                                      *)
GoalEnds(st, ev) == [st EXCEPT !.goals[ev.on].status = ev.to, !.active = NoGoal]

CoreApply(st, ev) ==
    CASE ev.type = "mission.created" -> [st EXCEPT !.mission = "CREATED"]
      [] ev.type \in DOMAIN MissionFacts ->
            [st EXCEPT !.mission = MissionFacts[ev.type].to]
      [] ev.type = "goal.created" ->
            [st EXCEPT !.goals[ev.on] = [status |-> ev.to, revision |-> ev.revision],
                       !.active = ev.on]
      [] ev.type = "goal.revised" -> [st EXCEPT !.goals[ev.on].revision = ev.revision]
      [] ev.type = "goal.status_changed" -> GoalEnds(st, ev)
      [] ev.type \in DOMAIN SessionFacts ->
            [st EXCEPT !.sessions[ev.on] = SessionFacts[ev.type].to]

(* reduce(): a raise ends the whole fold, so Broken stays Broken.          *)
CoreReduce(st, ev) ==
    IF st # Broken /\ CoreAccepts(st, ev) THEN CoreApply(st, ev) ELSE Broken
=============================================================================
