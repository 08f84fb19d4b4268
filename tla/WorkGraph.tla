------------------------------ MODULE WorkGraph ------------------------------
(***************************************************************************)
(* work_graph: the Plans of a Mission, their Revisions, the Tasks a        *)
(* Revision defines with the order they must be done in, and Snapshots.    *)
(*                                                                         *)
(* One action per command; a command is decided by its handler on the      *)
(* state at the head of the stream (CommandBus sees to that) and appends   *)
(* one event, which the reducer then accepts or refuses by rules of its    *)
(* own.  Reads are answered by replay, or from a Snapshot and the events   *)
(* behind it.                                                              *)
(*                                                                         *)
(* What a Revision says is data: Definitions are the Revisions that        *)
(* callers may propose, well-formed or not.                                *)
(***************************************************************************)
EXTENDS Integers, FiniteSets, SequencesExt

CONSTANTS
    Plans, Revisions, Tasks, Snapshots,
    Definitions,     \* [revision, plan, parent, tasks, dependencies]
    NoRevision,      \* current_revision_id or parent_revision_id is None
    Mission,         \* the scope of a Snapshot that is not of one Plan
    MaxSeq           \* bound on the stream

DefinitionType ==
    [revision : Revisions, plan : Plans, parent : Revisions \cup {NoRevision},
     tasks : SUBSET Tasks, dependencies : SUBSET (Tasks \X Tasks)]

ASSUME WorkGraphAssumption ==
    /\ IsFiniteSet(Tasks)
    /\ Definitions \subseteq DefinitionType
    /\ NoRevision \notin Revisions
    /\ Mission \notin Plans
    /\ MaxSeq \in Nat

VARIABLES stream,    \* the Mission's events
          composed   \* their replay: [seq, ended, graph]

vars == <<stream, composed>>

TaskTerminal == {"SUCCEEDED", "FAILED", "CANCELLED"}
TaskStates == {"ABSENT", "PENDING", "ACTIVE"} \cup TaskTerminal
PlanStates == {"ABSENT", "OPEN", "CLOSED", "ARCHIVED"}

EmptyGraph ==
    [plans |-> [p \in Plans |-> [state |-> "ABSENT", current |-> NoRevision]],
     revisions |-> {}, tasks |-> [t \in Tasks |-> "ABSENT"], snapshots |-> {}]
EmptyState == [seq |-> 0, ended |-> FALSE, graph |-> EmptyGraph]

-----------------------------------------------------------------------------
(* The graph.                                                              *)

Recorded(g, r) == \E d \in g.revisions : d.revision = r
RevisionOf(g, r) == CHOOSE d \in g.revisions : d.revision = r
RevisionsOf(g, p) == {d \in g.revisions : d.plan = p}
TasksOf(g, p) == UNION {d.tasks : d \in RevisionsOf(g, p)}
IsOpen(g, p) == g.plans[p].state = "OPEN"
IsCurrent(g, d) == IsOpen(g, d.plan) /\ g.plans[d.plan].current = d.revision

Successors(deps, t) == {edge[2] : edge \in {e \in deps : e[1] = t}}

(* What the closure visit() has told and done so far.                      *)
Visits == [found : BOOLEAN, visiting : SUBSET Tasks, visited : SUBSET Tasks]
Unvisited == [found |-> FALSE, visiting |-> {}, visited |-> {}]

(* Fault: a Task is never marked as visited, nor unmarked as being visited,*)
(* so that two ways to the same Task look like a cycle.                    *)
HasCycleForgetful(deps) ==
    LET visit[t \in Tasks] ==
            [s \in Visits |->
                IF s.found \/ t \in s.visiting THEN [s EXCEPT !.found = TRUE]
                ELSE FoldSet(LAMBDA next, acc : visit[next][acc],
                             [s EXCEPT !.visiting = @ \cup {t}], Successors(deps, t))]
    IN  \E t \in Tasks : visit[t][Unvisited].found

(* _has_cycle.  any() stops at the first successor that finds a cycle and  *)
(* leaves visiting as it is then; all visits share the two sets.           *)
HasCycle(deps) ==
    LET visit[t \in Tasks] ==
            [s \in Visits |->
                IF s.found \/ t \in s.visiting THEN [s EXCEPT !.found = TRUE]
                ELSE IF t \in s.visited THEN s
                ELSE LET after == FoldSet(LAMBDA next, acc : visit[next][acc],
                                          [s EXCEPT !.visiting = @ \cup {t}], Successors(deps, t))
                     IN  IF after.found THEN after
                         ELSE [after EXCEPT !.visiting = @ \ {t}, !.visited = @ \cup {t}]]
    IN  FoldSet(LAMBDA t, acc : visit[t][acc], Unvisited, Tasks).found

(* Fault: cycles are not looked for.                                       *)
WellFormedWithCycles(g, d) ==
    /\ \A t \in d.tasks : g.tasks[t] = "ABSENT"
    /\ d.dependencies \subseteq d.tasks \X d.tasks
    /\ \A edge \in d.dependencies : edge[1] # edge[2]

(* _normalized_tasks and _normalized_dependencies: new task_ids,           *)
(* dependencies between different Tasks of this Revision, and no cycle.    *)
WellFormed(g, d) ==
    /\ \A t \in d.tasks : g.tasks[t] = "ABSENT"
    /\ d.dependencies \subseteq d.tasks \X d.tasks
    /\ \A edge \in d.dependencies : edge[1] # edge[2]
    /\ ~HasCycle(d.dependencies)

ParentFits(g, d) ==
    d.parent # NoRevision => \E e \in g.revisions : e.revision = d.parent /\ e.plan = d.plan

Settled(g, p) == \A t \in TasksOf(g, p) : g.tasks[t] \in TaskTerminal

(* What is left of the graph in the scope of a read or a Snapshot.         *)
Scoped(g, scope) ==
    IF scope = Mission THEN g
    ELSE [plans |-> [p \in Plans |-> IF p = scope THEN g.plans[p] ELSE EmptyGraph.plans[p]],
          revisions |-> RevisionsOf(g, scope),
          tasks |-> [t \in Tasks |-> IF t \in TasksOf(g, scope) THEN g.tasks[t] ELSE "ABSENT"],
          snapshots |-> {s \in g.snapshots : s.scope = scope}]

(* task_availability: READY.                                               *)
Ready(g, t) ==
    /\ g.tasks[t] = "PENDING"
    /\ \E d \in g.revisions :
          /\ t \in d.tasks /\ IsCurrent(g, d)
          /\ \A edge \in d.dependencies : edge[2] = t => g.tasks[edge[1]] = "SUCCEEDED"

-----------------------------------------------------------------------------
(* Events.                                                                 *)

CoreEvent(ends) == [type |-> "core", scope |-> Mission, ends |-> ends]
PlanCreated(p) == [type |-> "plan.created", scope |-> p]
PlanMoved(p, from, to) ==
    [type |-> "plan.lifecycle_changed", scope |-> p, from |-> from, to |-> to]
RevisionRecorded(d) == [type |-> "plan.revision_recorded", scope |-> d.plan, definition |-> d]
RevisionActivated(p, r, previous) ==
    [type |-> "plan.revision_activated", scope |-> p, revision |-> r, previous |-> previous]
TaskMoved(d, t, from, to) ==
    [type |-> "task.moved", scope |-> d.plan, revision |-> d.revision, task |-> t,
     from |-> from, to |-> to]
SnapshotRecorded(s) == [type |-> "snapshot.recorded", scope |-> s.scope, snapshot |-> s]

(* The reducer's own rules for an event.                                   *)
TaskMoveFits(g, ev) ==
    /\ Recorded(g, ev.revision) /\ RevisionOf(g, ev.revision).plan = ev.scope
    /\ ev.task \in RevisionOf(g, ev.revision).tasks
    /\ ev.from = g.tasks[ev.task]
    /\ \/ /\ ev.from = "PENDING" /\ ev.to = "ACTIVE"
          /\ IsCurrent(g, RevisionOf(g, ev.revision))
       \/ ev.from = "ACTIVE" /\ ev.to \in {"SUCCEEDED", "FAILED"}
       \/ ev.from \in {"PENDING", "ACTIVE"} /\ ev.to = "CANCELLED"

FitsGraph(st, ev) ==
    LET g == st.graph
    IN  CASE ev.type = "plan.created" -> g.plans[ev.scope].state = "ABSENT"
          [] ev.type = "plan.revision_recorded" ->
                /\ IsOpen(g, ev.scope) /\ ~Recorded(g, ev.definition.revision)
                /\ ParentFits(g, ev.definition) /\ WellFormed(g, ev.definition)
          [] ev.type = "plan.revision_activated" ->
                /\ IsOpen(g, ev.scope)
                /\ \E d \in RevisionsOf(g, ev.scope) : d.revision = ev.revision
                /\ ev.previous = g.plans[ev.scope].current /\ ev.revision # ev.previous
          [] ev.type = "plan.lifecycle_changed" ->
                /\ ev.from = g.plans[ev.scope].state
                /\ \/ ev.from = "OPEN" /\ ev.to = "CLOSED" /\ Settled(g, ev.scope)
                   \/ ev.from = "CLOSED" /\ ev.to = "ARCHIVED"
          [] ev.type = "task.moved" -> TaskMoveFits(g, ev)
          [] ev.type = "snapshot.recorded" ->
                /\ \A s \in g.snapshots : s.id # ev.snapshot.id
                /\ ev.snapshot.as_of = st.seq
                /\ ev.scope # Mission => g.plans[ev.scope].state # "ABSENT"
                /\ ev.snapshot.payload = [ended |-> st.ended, graph |-> Scoped(g, ev.scope)]

Fits(st, ev) == ev.type = "core" \/ (~st.ended /\ FitsGraph(st, ev))

Changed(g, ev) ==
    CASE ev.type = "plan.created" ->
            [g EXCEPT !.plans[ev.scope].state = "OPEN"]
      [] ev.type = "plan.revision_recorded" ->
            [g EXCEPT !.revisions = @ \cup {ev.definition},
                      !.tasks = [t \in Tasks |-> IF t \in ev.definition.tasks THEN "PENDING"
                                                 ELSE @[t]]]
      [] ev.type = "plan.revision_activated" ->
            [g EXCEPT !.plans[ev.scope].current = ev.revision]
      [] ev.type = "plan.lifecycle_changed" ->
            [g EXCEPT !.plans[ev.scope].state = ev.to]
      [] ev.type = "task.moved" ->
            [g EXCEPT !.tasks[ev.task] = ev.to]
      [] ev.type = "snapshot.recorded" ->
            [g EXCEPT !.snapshots = @ \cup {ev.snapshot}]
      [] ev.type = "core" -> g

Reduce(st, ev) ==
    [seq |-> st.seq + 1, ended |-> st.ended \/ (ev.type = "core" /\ ev.ends),
     graph |-> Changed(st.graph, ev)]
Replay(n) == FoldLeft(Reduce, EmptyState, SubSeq(stream, 1, n))

-----------------------------------------------------------------------------
(* Commands.                                                               *)

graph == composed.graph

Append1(ev) ==
    /\ stream' = Append(stream, ev)
    /\ composed' = Reduce(composed, ev)

Mutable == ~composed.ended

Init == stream = << >> /\ composed = EmptyState

CreatePlan(p) ==
    /\ Mutable /\ graph.plans[p].state = "ABSENT"
    /\ Append1(PlanCreated(p))

RecordPlanRevision(d) ==
    /\ Mutable /\ IsOpen(graph, d.plan) /\ ~Recorded(graph, d.revision)
    /\ ParentFits(graph, d) /\ WellFormed(graph, d)
    /\ Append1(RevisionRecorded(d))

(* Also back to a Revision that was current before.                        *)
ActivatePlanRevision(d) ==
    /\ Mutable /\ IsOpen(graph, d.plan) /\ d \in graph.revisions
    /\ graph.plans[d.plan].current # d.revision
    /\ Append1(RevisionActivated(d.plan, d.revision, graph.plans[d.plan].current))

(* Fault: only the Tasks of the current Revision are looked at.            *)
CloseByCurrentRevision(p) ==
    /\ Mutable /\ IsOpen(graph, p)
    /\ \A d \in RevisionsOf(graph, p) :
          IsCurrent(graph, d) => \A t \in d.tasks : graph.tasks[t] \in TaskTerminal
    /\ Append1(PlanMoved(p, "OPEN", "CLOSED"))

ClosePlan(p) ==
    /\ Mutable /\ IsOpen(graph, p) /\ Settled(graph, p)
    /\ Append1(PlanMoved(p, "OPEN", "CLOSED"))

ArchivePlan(p) ==
    /\ Mutable /\ graph.plans[p].state = "CLOSED"
    /\ Append1(PlanMoved(p, "CLOSED", "ARCHIVED"))

(* TRANSITION_TASK.  Only activation asks for the current Revision of an   *)
(* OPEN Plan; nothing asks for the Task's predecessors.                    *)
MayMove(d, t, to) ==
    \/ to = "ACTIVE" /\ graph.tasks[t] = "PENDING" /\ IsCurrent(graph, d)
    \/ to \in {"SUCCEEDED", "FAILED"} /\ graph.tasks[t] = "ACTIVE"
    \/ to = "CANCELLED" /\ graph.tasks[t] \in {"PENDING", "ACTIVE"}

TransitionTask(d, t, to) ==
    /\ Mutable /\ d \in graph.revisions /\ t \in d.tasks
    /\ MayMove(d, t, to)
    /\ Append1(TaskMoved(d, t, graph.tasks[t], to))

RecordWorkSnapshot(id, scope) ==
    /\ Mutable /\ \A s \in graph.snapshots : s.id # id
    /\ scope # Mission => graph.plans[scope].state # "ABSENT"
    /\ Append1(SnapshotRecorded(
          [id |-> id, scope |-> scope, as_of |-> composed.seq,
           payload |-> [ended |-> composed.ended, graph |-> Scoped(graph, scope)]]))

(* The core's events share the stream; one may end the Mission.            *)
CoreWrites ==
    /\ Mutable
    /\ \E ends \in BOOLEAN : Append1(CoreEvent(ends))

Next ==
    /\ Len(stream) < MaxSeq
    /\ \/ \E p \in Plans : CreatePlan(p) \/ ClosePlan(p) \/ ArchivePlan(p)
       \/ \E d \in Definitions :
             \/ RecordPlanRevision(d) \/ ActivatePlanRevision(d)
             \/ \E t \in d.tasks, to \in TaskStates : TransitionTask(d, t, to)
       \/ \E id \in Snapshots, scope \in Plans \cup {Mission} : RecordWorkSnapshot(id, scope)
       \/ CoreWrites

Spec == Init /\ [][Next]_vars

-----------------------------------------------------------------------------
(* read_work_graph(scope, through_seq = target).                           *)

Candidates(scope, target) ==
    {s \in graph.snapshots : s.scope = scope /\ s.as_of + 1 <= target}
Latest(snaps) == CHOOSE s \in snaps : \A o \in snaps : o.as_of <= s.as_of

(* Fault: Snapshots of the Mission are reduced into the view of a Plan.    *)
PassedOtherPlans(scope, ev) ==
    scope # Mission /\ ev.type # "core" /\ ev.scope \notin {scope, Mission}

(* The tail of a PLAN read: the events of other Plans, and Snapshots of    *)
(* the Mission, only advance the shared seq.                               *)
Passed(scope, ev) == scope # Mission /\ ev.type # "core" /\ ev.scope # scope
ReduceTail(scope, acc, ev) ==
    IF acc.raised THEN acc
    ELSE IF Passed(scope, ev) THEN [acc EXCEPT !.st.seq = @ + 1]
    ELSE IF Fits(acc.st, ev) THEN [acc EXCEPT !.st = Reduce(@, ev)]
    ELSE [acc EXCEPT !.raised = TRUE]

SnapshotPlusTail(s, target) ==
    LET base == [raised |-> FALSE,
                 st |-> [seq |-> s.as_of, ended |-> s.payload.ended, graph |-> s.payload.graph]]
    IN  FoldLeft(LAMBDA acc, ev : ReduceTail(s.scope, acc, ev), base,
                 SubSeq(stream, s.as_of + 1, target))

-----------------------------------------------------------------------------
(* Properties.                                                             *)

(* The stream is bounded and the graph is typed.                           *)
TypeOK ==
    /\ Len(stream) <= MaxSeq /\ composed.seq = Len(stream)
    /\ composed.ended \in BOOLEAN
    /\ graph.plans \in [Plans -> [state : PlanStates, current : Revisions \cup {NoRevision}]]
    /\ graph.revisions \subseteq Definitions
    /\ graph.tasks \in [Tasks -> TaskStates]
    /\ \A s \in graph.snapshots : s.id \in Snapshots /\ s.scope \in Plans \cup {Mission}

(* What the handler proposes the reducer accepts, although each has rules  *)
(* of its own: no accepted command leaves a stream that cannot be replayed.*)
ReducerAcceptsFacts == [][Fits(composed, Last(stream'))]_stream

(* A Task belongs to one Revision, and so to one Plan, for good.           *)
TasksBelongToOneRevision ==
    \A d, e \in graph.revisions :
        /\ d.revision = e.revision => d = e
        /\ d.tasks \cap e.tasks # {} => d = e

(* A Plan that is CLOSED or ARCHIVED has no unfinished Task in any of its  *)
(* Revisions, then and ever after.                                         *)
ClosedPlansAreSettled ==
    \A p \in Plans : graph.plans[p].state \in {"CLOSED", "ARCHIVED"} => Settled(graph, p)

(* Work is only ever started in a Revision that was current: a Task that   *)
(* is not PENDING, and was not simply cancelled, belongs to a Revision     *)
(* that was activated before.                                              *)
WorkedRevisionsWereCurrent ==
    \A d \in graph.revisions :
        (\E t \in d.tasks : graph.tasks[t] \in {"ACTIVE", "SUCCEEDED", "FAILED"})
        => \E i \in DOMAIN stream : /\ stream[i].type = "plan.revision_activated"
                                    /\ stream[i].revision = d.revision

(* Tasks never wait for each other in a circle: as long as the current     *)
(* Revision of an OPEN Plan has PENDING Tasks, one of its Tasks is ready   *)
(* or under way, or one has failed or was cancelled.                       *)
NoDependencyDeadlock ==
    \A d \in graph.revisions :
        /\ IsCurrent(graph, d)
        /\ \E t \in d.tasks : graph.tasks[t] = "PENDING"
        => \E t \in d.tasks : \/ Ready(graph, t)
                              \/ graph.tasks[t] \in {"ACTIVE", "FAILED", "CANCELLED"}

(* All that comes after t: what is in every set that holds the successors  *)
(* of t, and with a Task its successors.                                   *)
ComesAfter(deps, t) ==
    {x \in Tasks :
        \A U \in SUBSET Tasks :
            /\ Successors(deps, t) \subseteq U
            /\ \A y \in U : Successors(deps, y) \subseteq U
            => x \in U}

(* In a Mission that has no Tasks yet, a Revision is well-formed if and    *)
(* only if no Task comes after itself: the search for cycles misses none,  *)
(* and two ways from one Task to another, say, are no cycle to it.         *)
FindsCycles ==
    stream = << >> =>
        \A deps \in SUBSET (Tasks \X Tasks) :
            WellFormed(graph, [tasks |-> Tasks, dependencies |-> deps])
            <=> \A t \in Tasks : t \notin ComesAfter(deps, t)

(* A read from a Snapshot and the events behind it says what the replay of *)
(* the whole stream says, for the Mission or one Plan, at every seq.       *)
SnapshotReadIsReplay ==
    \A scope \in Plans \cup {Mission}, target \in 0..Len(stream) :
        Candidates(scope, target) # {} =>
            LET read == SnapshotPlusTail(Latest(Candidates(scope, target)), target)
            IN  /\ ~read.raised
                /\ read.st.seq = target
                /\ read.st.graph = Scoped(Replay(target).graph, scope)

(* What is settled stays settled: Tasks that have ended, Plans that are    *)
(* archived and Revisions that were recorded are never changed.            *)
HistoryStands ==
    [][/\ graph.revisions \subseteq graph'.revisions
       /\ \A t \in Tasks : graph.tasks[t] \in TaskTerminal => graph'.tasks[t] = graph.tasks[t]
       /\ \A p \in Plans : /\ graph.plans[p].state = "ARCHIVED"
                           => graph'.plans[p] = graph.plans[p]]_vars
=============================================================================
