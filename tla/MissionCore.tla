------------------------------ MODULE MissionCore ------------------------------
(***************************************************************************)
(* One Mission driven through every command of durable_core, one applied   *)
(* command at a time: the bus decides a command on the replay of the whole *)
(* stream and serialises all writers, so that a step of this module is one *)
(* transaction of CommandBus.  A refused command leaves the state alone.   *)
(***************************************************************************)
EXTENDS MissionLifecycle

CONSTANTS MaxRevision     \* bound: a Goal is revised up to this revision

ASSUME CoreAssumption ==
    /\ MaxRevision \in Nat \ {0}
    /\ NoGoal \notin GoalIds
    /\ Absent \notin MissionStatus \cup SessionStatus
    /\ Absent \notin [status : GoalStatus, revision : Nat \ {0}]
    /\ Broken \notin CoreStates

VARIABLE state

NoEntity == NoGoal
Command(type, on, base, to) == [type |-> type, on |-> on, base |-> base, to |-> to]

(* Every command a caller can form, foolish ones included.                 *)
MissionCommands ==
    {Command(t, NoEntity, 0, "NONE") : t \in {"CREATE_MISSION"} \cup DOMAIN MissionMove}
GoalCommands ==
    {Command("CREATE_GOAL", g, 0, "NONE") : g \in GoalIds}
    \cup {Command("REVISE_GOAL", g, b, "NONE") : g \in GoalIds, b \in 1..MaxRevision}
    \cup {Command("CHANGE_GOAL_STATUS", g, 0, to) : g \in GoalIds, to \in GoalStatus}
SessionCommands ==
    {Command(t, s, 0, "NONE") : t \in DOMAIN SessionMove, s \in SessionIds}
Commands == MissionCommands \cup GoalCommands \cup SessionCommands

BelowBound(cmd) == cmd.type = "REVISE_GOAL" => cmd.base < MaxRevision

MissionInit == state = InitialCore

Issue(cmd) ==
    /\ CoreHandle(cmd, state) # << >>
    /\ BelowBound(cmd)
    /\ CoreReduce(state, CoreFact(cmd, state)) # Broken
    /\ state' = CoreReduce(state, CoreFact(cmd, state))

MissionNext == \E cmd \in Commands : Issue(cmd)
MissionSpec == MissionInit /\ [][MissionNext]_state

-----------------------------------------------------------------------------
(* The state has the type of RuntimeState.                                 *)
StateOK == state \in CoreStates

(* The handlers and the reducer, two tables written down separately, agree *)
(* in every reachable state: no accepted command proposes a fact that      *)
(* replay would refuse (it would be rolled back with an exception), and no *)
(* refused command has a fact that replay would take.                      *)
HandlersAgreeWithReducer ==
    \A cmd \in Commands :
        state.mission # Absent /\ (cmd.type = "REVISE_GOAL" => HasGoal(state, cmd.on)) =>
            (CoreAllows(cmd, state)
               <=> /\ CoreAccepts(state, CoreFact(cmd, state))
                   /\ cmd.type \in {"CREATE_GOAL", "REVISE_GOAL", "CHANGE_GOAL_STATUS"}
                        => state.mission \notin MissionTerminal)

(* A Mission has at most one ACTIVE Goal, and active_goal_id names it.     *)
ActiveGoalIsTheActiveOne ==
    {g \in GoalIds : GoalIsActive(state, g)} = {state.active} \ {NoGoal}

(* A Mission is COMPLETED only with an ACHIEVED Goal, and one that ever    *)
(* left CREATED towards work has had a Goal.                               *)
CompletionIsEarned ==
    /\ state.mission = "COMPLETED" =>
          \E g \in GoalIds : HasGoal(state, g) /\ state.goals[g].status = "ACHIEVED"
    /\ state.mission \in {"ACTIVE", "PAUSED", "BLOCKED", "FAILED"} =>
          \E g \in GoalIds : HasGoal(state, g)

(* Once a Mission has ended, its verdict and its Goals never change again, *)
(* whatever commands still arrive; its Sessions may still be closed.       *)
TerminalIsFinal ==
    [][state.mission \in MissionTerminal =>
          /\ state'.mission = state.mission
          /\ state'.goals = state.goals
          /\ state'.active = state.active]_state

(* The history of a Goal and of a Session has no way back: a Goal that was *)
(* achieved or cancelled keeps its status and revision, revisions go up by *)
(* one, and a Session that ended is never opened again under its id.       *)
NoWayBack ==
    [][/\ \A g \in GoalIds : HasGoal(state, g) =>
            /\ HasGoal(state', g)
            /\ ~GoalIsActive(state, g) => state'.goals[g] = state.goals[g]
            /\ state'.goals[g].revision - state.goals[g].revision \in {0, 1}
       /\ \A s \in SessionIds : state.sessions[s] \in {"CLOSED", "FAILED"} =>
            state'.sessions[s] = state.sessions[s]]_state
=============================================================================
