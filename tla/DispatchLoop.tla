----------------------------- MODULE DispatchLoop -----------------------------
(***************************************************************************)
(* r2_4: the bounded loop that activates ready Tasks and dispatches them,  *)
(* behind the Human Gate of r2_6 (run_r2_4_if_allowed), and r2_5's         *)
(* dispatch of one delegated child.                                        *)
(*                                                                         *)
(* A turn is given the seq its caller observed and the progress its caller *)
(* keeps.  It checks the gate of one lineage, then that the head is still  *)
(* the observed seq, and decides on the Work Graph there.  It activates a  *)
(* Task by a command whose id is computed from the dispatch alone, and     *)
(* hands the dispatch to an external execution authority, which may not    *)
(* answer.  Nothing but the activation is durable: the progress it returns *)
(* is lost with a caller that dies before it acknowledges it.              *)
(***************************************************************************)
EXTENDS HumanGate

CONSTANTS
    Loops,              \* callers of the loop
    Children,           \* callers of dispatch_existing_child
    Order,              \* the Tasks of the current Revision by created_seq
    Before,             \* its dependencies, <<predecessor, successor>>
    MaxCycles, MaxDispatches,       \* LoopBudget
    PerCycle,           \* SchedulingPolicy.max_dispatches_per_cycle
    MaxDeaths           \* bound on the callers that die

Tasks == ToSet(Order)
TaskTerminal == {"SUCCEEDED", "FAILED", "CANCELLED"}

ASSUME DispatchLoopAssumption ==
    /\ Order \in Seq(Tasks) /\ Before \subseteq Tasks \X Tasks
    /\ {MaxCycles, MaxDispatches, MaxDeaths} \subseteq Nat /\ PerCycle \in Nat \ {0}
    /\ \A ev \in OtherEvents : ev[1] # "ACTIVE"

VARIABLES
    loop,               \* each caller's request, progress and place in the turn
    child,              \* each dispatch_existing_child
    executions,         \* external: the Tasks the authority has an execution of
    calls,              \* how often each loop has called the dispatcher
    lost, deaths        \* calls whose loop died before it had counted them; deaths

vars == <<log, asks, loop, child, executions, calls, lost, deaths>>

-----------------------------------------------------------------------------
(* The Work Graph and the Attempts after the first n events.               *)

Happened(type, t, n) == \E i \in 1..n : stream[i].type = type /\ stream[i].of = t
TaskState(t, n) ==
    IF Happened("SUCCEEDED", t, n) THEN "SUCCEEDED"
    ELSE IF Happened("FAILED", t, n) THEN "FAILED"
    ELSE IF Happened("CANCELLED", t, n) THEN "CANCELLED"
    ELSE IF Happened("ACTIVE", t, n) THEN "ACTIVE" ELSE "PENDING"
Superseded(n) == \E i \in 1..n : stream[i].type = "plan.revised"

Predecessors(t) == {p \in Tasks : <<p, t>> \in Before}

(* Fault: dependencies are not looked at.                                  *)
AvailableAnyway(t, n) == TaskState(t, n) = "PENDING" /\ ~Superseded(n)

(* task_availability: READY.                                               *)
Available(t, n) ==
    /\ TaskState(t, n) = "PENDING" /\ ~Superseded(n)
    /\ \A p \in Predecessors(t) : TaskState(p, n) = "SUCCEEDED"

(* What a gate of r2_6 asks of the other components.                       *)
CanOpenNow(t) ==
    /\ TaskState(t, HeadSeq) = "ACTIVE" /\ ~Superseded(HeadSeq)
    /\ Happened("attempt.started", t, HeadSeq)
-----------------------------------------------------------------------------
(* readiness.py.  gate is what the binding and the resolution of r2_1 say: *)
(* _binding_gate, the same for all Tasks here.                             *)

DependencyGate(t, n) ==
    CASE \E p \in Predecessors(t) : TaskState(p, n) \in TaskTerminal \ {"SUCCEEDED"} -> "BLOCKED"
      [] OTHER -> "WAIT"
Readiness(t, n, gate) ==
    CASE TaskState(t, n) = "ACTIVE"     -> IF gate = "READY" THEN "ACTIVE" ELSE gate
      [] TaskState(t, n) \in TaskTerminal -> "NOT_ELIGIBLE"
      [] OTHER -> IF Available(t, n) THEN gate ELSE DependencyGate(t, n)
WithStatus(s, n, gate) ==
    LET F[i \in 0..Len(Order)] ==
          IF i = 0 THEN << >>
          ELSE IF Readiness(Order[i], n, gate) = s THEN Append(F[i - 1], Order[i]) ELSE F[i - 1]
    IN  F[Len(Order)]

(* evaluate_readiness: what the report says next.                          *)
Report(n, gate) ==
    CASE Superseded(n) -> "BLOCKED"
      [] ~Superseded(n) /\ \A t \in Tasks : TaskState(t, n) \in TaskTerminal -> "PLAN_COMPLETE"
      [] OTHER -> IF WithStatus("READY", n, gate) # << >> THEN "READY"
                  ELSE IF WithStatus("BLOCKED", n, gate) # << >> THEN "BLOCKED" ELSE "WAIT"

Least(a, b) == IF a < b THEN a ELSE b

(* select_ready_tasks.                                                     *)
Select(n, gate, used) ==
    LET ready == WithStatus("READY", n, gate)
    IN  SubSeq(ready, 1, Least(PerCycle, Least(MaxDispatches - used, Len(ready))))

-----------------------------------------------------------------------------
Fresh(cycle, used) ==
    [cycle |-> cycle, used |-> used, pc |-> "idle", seen |-> 0, on |-> Order[1],
     cursor |-> 0, todo |-> << >>, attempts |-> 0]

Init ==
    /\ GateInit
    /\ loop = [l \in Loops |-> Fresh(0, 0)]
    /\ child = [c \in Children |-> [pc |-> "idle"]]
    /\ executions = {} /\ calls = [l \in Loops |-> 0]
    /\ lost = [l \in Loops |-> 0] /\ deaths = 0

Goto(l, rec) == loop' = [loop EXCEPT ![l] = rec]
Move(l, pc) == Goto(l, [loop[l] EXCEPT !.pc = pc])

(* A turn that observed a seq, that reconciles an ACTIVE Task, that        *)
(* selected Tasks, that activated one, and that called the dispatcher.     *)
Observing(w, seq, t) == [w EXCEPT !.pc = "boundary", !.seen = seq, !.on = t]
Reconciling(w, t) == [w EXCEPT !.pc = "reconcile", !.todo = <<t>>]
Selected(w, todo) == [w EXCEPT !.pc = "activate", !.cursor = w.seen, !.todo = todo]
Activated(w, seq) == [w EXCEPT !.pc = "dispatch", !.cursor = seq]
Called(w, pc) == [w EXCEPT !.pc = pc, !.attempts = @ + 1, !.todo = Tail(@)]

(* The caller builds its LoopRequest.                                      *)
Observe(l) ==
    /\ loop[l].pc = "idle"
    /\ \E t \in Lineages : Goto(l, Observing(loop[l], HeadSeq, t))
    /\ UNCHANGED <<log, asks, child, executions, calls, lost, deaths>>

(* run_r2_4_if_allowed.                                                    *)
Boundary(l) ==
    /\ loop[l].pc = "boundary"
    /\ Goto(l, IF BoundaryDecision(GatesNow, loop[l].on) = "ALLOW" THEN [loop[l] EXCEPT !.pc = "enter"]
               ELSE Fresh(loop[l].cycle, loop[l].used))
    /\ UNCHANGED <<log, asks, child, executions, calls, lost, deaths>>

(* Fault: the head is not compared with the observed seq.                  *)
EnterAtAnyHead(l) ==
    /\ loop[l].pc = "enter"
    /\ \E gate \in {"READY"} :
          LET todo == Select(loop[l].seen, gate, loop[l].used)
          IN  Goto(l, IF todo = << >> THEN [loop[l] EXCEPT !.pc = "idle"]
                      ELSE Selected(loop[l], todo))
    /\ UNCHANGED <<log, asks, child, executions, calls, lost, deaths>>

(* orchestrate_loop up to its first effect.  A request to replan, a budget *)
(* that is exhausted (deadline and accounting are the caller's), a stale   *)
(* cursor and a BLOCKED report end the turn without a progress candidate.  *)
Enter(l) ==
    LET me == loop[l]
    IN  /\ me.pc = "enter"
        /\ \E exhausted \in BOOLEAN, gate \in {"READY", "WAIT", "BLOCKED"} :
             LET spent == exhausted \/ me.cycle >= MaxCycles \/ me.used >= MaxDispatches
                 report == Report(me.seen, gate)
                 active == WithStatus("ACTIVE", me.seen, gate)
             IN  Goto(l,
                   CASE HeadSeq # me.seen \/ spent \/ report \in {"PLAN_COMPLETE", "BLOCKED"} ->
                           Fresh(me.cycle, me.used)
                     [] OTHER ->
                           IF active # << >>
                           THEN Reconciling(me, Head(active))
                           ELSE IF report = "WAIT" THEN [me EXCEPT !.pc = "decided"]
                           ELSE Selected(me, Select(me.seen, gate, me.used)))
        /\ UNCHANGED <<log, asks, child, executions, calls, lost, deaths>>

(* _reconcile: the first ACTIVE Task.  ABSENT is a statement of the        *)
(* authority; any other answer but ACCEPTED is to wait.                    *)
Reconcile(l) ==
    /\ loop[l].pc = "reconcile"
    /\ \/ Move(l, "decided")
       \/ Head(loop[l].todo) \notin executions /\ Move(l, "dispatch")
    /\ UNCHANGED <<log, asks, child, executions, calls, lost, deaths>>

(* activation_command, and work_graph's answer to it.                      *)
ActivationFacts(t) ==
    IF TaskState(t, HeadSeq) = "PENDING" /\ ~Superseded(HeadSeq)
    THEN << OtherEvent("ACTIVE", t) >> ELSE << >>
Activation(t, seq) == Command(<<"activate", t>>, NoKey, seq, t)
ActivationAnswer(t, seq) == Answer(Activation(t, seq), ActivationFacts(t), "TRANSITION_REFUSED")

(* Fault: the Task is dispatched whatever the answer was.                  *)
ActivateAnyway(l) ==
    /\ loop[l].pc = "activate"
    /\ Move(l, "dispatch")
    /\ UNCHANGED <<log, asks, child, executions, calls, lost, deaths>>

(* The next selected Task.  Activations follow each other at the seq the   *)
(* last one returned; a refusal, for a stale cursor too, ends the turn.    *)
Activate(l) ==
    LET me == loop[l]
        t == Head(me.todo)
        answer == ActivationAnswer(t, me.cursor)
    IN  /\ me.pc = "activate"
        /\ Execute(Activation(t, me.cursor), ActivationFacts(t), "TRANSITION_REFUSED")
        /\ Goto(l, IF answer.ok THEN Activated(me, answer.last_seq)
                   ELSE [me EXCEPT !.pc = "decided"])
        /\ UNCHANGED <<asks, child, executions, calls, lost, deaths>>

(* The authority's answer: ACCEPTED with a receipt, REJECTED, or neither,  *)
(* in which case it may have started the execution all the same.  It knows *)
(* a dispatch_id it was given before.                                      *)
Dispatch(l) ==
    LET me == loop[l]
        t == Head(me.todo)
    IN  /\ me.pc = "dispatch"
        /\ calls' = [calls EXCEPT ![l] = @ + 1]
        /\ \/ /\ executions' = executions \cup {t}
              /\ Goto(l, Called(me, IF Tail(me.todo) = << >> THEN "decided" ELSE "activate"))
           \/ /\ executions' \in {executions, executions \cup {t}}
              /\ Goto(l, Called(me, "decided"))
        /\ UNCHANGED <<log, asks, child, lost, deaths>>

(* Fault: the candidate leaves the dispatches of the turn out.             *)
AcknowledgeCyclesOnly(l) ==
    /\ loop[l].pc = "decided"
    /\ Goto(l, Fresh(loop[l].cycle + 1, loop[l].used))
    /\ UNCHANGED <<log, asks, child, executions, calls, lost, deaths>>

(* The caller takes the NextProgressCandidate over.                        *)
Acknowledge(l) ==
    /\ loop[l].pc = "decided"
    /\ Goto(l, Fresh(loop[l].cycle + 1, loop[l].used + loop[l].attempts))
    /\ UNCHANGED <<log, asks, child, executions, calls, lost, deaths>>

(* A caller dies; it starts again with the progress it had.                *)
LoopDies(l) ==
    /\ loop[l].pc # "idle" /\ deaths < MaxDeaths
    /\ deaths' = deaths + 1
    /\ lost' = [lost EXCEPT ![l] = @ + loop[l].attempts]
    /\ Goto(l, Fresh(loop[l].cycle, loop[l].used))
    /\ UNCHANGED <<log, asks, child, executions, calls>>

-----------------------------------------------------------------------------
(* dispatch_existing_child of r2_5: readiness at one head, the activation  *)
(* at a later one.                                                         *)
ReadChild(c) ==
    /\ child[c].pc = "idle"
    /\ \E t \in Tasks : /\ Available(t, HeadSeq)
                        /\ child' = [child EXCEPT ![c] = [pc |-> "activate", task |-> t]]
    /\ UNCHANGED <<log, asks, loop, executions, calls, lost, deaths>>

ActivateChild(c) ==
    LET t == child[c].task
    IN  /\ child[c].pc = "activate"
        /\ Execute(Activation(t, HeadSeq), ActivationFacts(t), "TRANSITION_REFUSED")
        /\ child' = [child EXCEPT ![c] =
                       IF ActivationAnswer(t, HeadSeq).ok THEN [@ EXCEPT !.pc = "dispatch"]
                       ELSE [pc |-> "done"]]
        /\ UNCHANGED <<asks, loop, executions, calls, lost, deaths>>

DispatchChild(c) ==
    /\ child[c].pc = "dispatch"
    /\ executions' \in {executions, executions \cup {child[c].task}}
    /\ child' = [child EXCEPT ![c] = [pc |-> "done"]]
    /\ UNCHANGED <<log, asks, loop, calls, lost, deaths>>

(* What workers and planners do: end Tasks, start and resume Attempts,     *)
(* revise the Plan.                                                        *)
Happens(type, t) ==
    CASE type \in {"SUCCEEDED", "FAILED"} -> TaskState(t, HeadSeq) = "ACTIVE"
      [] type = "CANCELLED"       -> TaskState(t, HeadSeq) \in {"PENDING", "ACTIVE"}
      [] type = "attempt.started" ->
            TaskState(t, HeadSeq) = "ACTIVE" /\ ~Happened("attempt.started", t, HeadSeq)
      [] type = "attempt.resumed" ->
            TaskState(t, HeadSeq) = "ACTIVE" /\ Happened("attempt.started", t, HeadSeq)
      [] OTHER -> TRUE

LoopStep(l) ==
    Observe(l) \/ Boundary(l) \/ Enter(l) \/ Reconcile(l) \/ Activate(l) \/ Dispatch(l) \/ Acknowledge(l)
Next ==
    \/ \E l \in Loops : LoopStep(l) \/ LoopDies(l)
    \/ \E c \in Children : ReadChild(c) \/ ActivateChild(c) \/ DispatchChild(c)
    \/ (GateStepAtOnce \/ OthersWrite) /\ UNCHANGED <<loop, child, executions, calls, lost, deaths>>
Spec == Init /\ [][Next]_vars

-----------------------------------------------------------------------------
(* A Task is activated only when everything before it has SUCCEEDED, its   *)
(* Revision still being the current one, however old the state was on      *)
(* which the turn was decided and whoever else activates: work_graph's own *)
(* handler does not look at dependencies.                                  *)
ActivationsWereReady ==
    \A i \in {j \in 1..HeadSeq : stream[j].type = "ACTIVE"} :
        /\ TaskState(stream[i].of, i - 1) = "PENDING" /\ ~Superseded(i - 1)
        /\ \A p \in Predecessors(stream[i].of) : TaskState(p, i - 1) = "SUCCEEDED"

(* The world acts on a Task only after its activation is durable, so that  *)
(* whoever finds it ACTIVE after a crash knows to ask.                     *)
ActiveBeforeDispatched ==
    \A t \in executions : Happened("ACTIVE", t, HeadSeq)

(* The three turns' worth of checks meet one state: a turn that was let in *)
(* decides on a seq at which the gate of its lineage was not blocking.     *)
TurnsPassTheGate ==
    \A l \in Loops : loop[l].pc \in {"reconcile", "activate", "dispatch", "decided"} =>
        BoundaryDecision(GatesAt[loop[l].seen], loop[l].on) = "ALLOW"

(* Every call of the dispatcher is counted in the progress, in the turn    *)
(* under way, or was lost with a caller that died; what is counted keeps   *)
(* within the budget.                                                      *)
DispatchesAreCounted ==
    \A l \in Loops :
        /\ calls[l] = loop[l].used + loop[l].attempts + lost[l]
        /\ loop[l].used + loop[l].attempts <= MaxDispatches
        /\ loop[l].cycle <= MaxCycles
=============================================================================
