------------------------------- MODULE HumanGate -------------------------------
(***************************************************************************)
(* r2_6: the Human Gate, a question to a person that holds up one lineage  *)
(* of Attempts (a Task under its root Attempt) until it is decided and,    *)
(* where the decision asks for it, continued.                              *)
(*                                                                         *)
(* A gate is opened, escalated, decided, cancelled, expired and continued  *)
(* by commands.  HumanGateApplicationService reads the gate, then the      *)
(* head, then looks its deterministic command_id up and only then executes *)
(* it: three reads, between which others write.  Handler and reducer each  *)
(* have rules of their own.                                                *)
(*                                                                         *)
(* Tasks, Attempts and Revisions belong to other components; what they say *)
(* at an instant is passed in as CanOpen.                                  *)
(***************************************************************************)
EXTENDS MissionLog, SequencesExt

CONSTANTS
    Gates,            \* gate_ids
    Lineages,         \* Tasks with their root Attempt
    Policies,         \* the decision policies of gates
    Allowed,          \* the <<outcome, route>> pairs each of them allows
    Expiring,         \* those of the gates that have an expiry
    People,           \* callers of the service
    Operations,       \* decision_ids, escalation_ids and operation_ids
    NoGate, Broken,
    CanOpen(_),       \* the lineage's Plan, Task, Attempt and Session are in order
    OtherEvents,      \* what the Mission's other writers write, <<type, lineage>>
    OtherMay(_, _),   \* when they may
    MaxSeq            \* bound on the stream

(* CHOICE_SELECTED, INFORMATION_PROVIDED and EXTERNAL_ACTION_COMPLETED are *)
(* treated as APPROVED is.                                                 *)
Outcomes == {"APPROVED", "REJECTED"}
Continuing == {"RESUME_EXECUTION", "GOAL_REVISION", "PLAN_REVISION"}
Routes == {"NONE", "BLOCK"} \cup Continuing
Statuses == {"PENDING", "RESOLVED", "CANCELLED", "EXPIRED"}

GateEventTypes == {"gate.opened", "gate.decided", "gate.escalated",
                   "gate.cancelled", "gate.expired", "gate.continued"}

GateType ==
    [lineage : Lineages, policy : Policies, status : Statuses, revision : Nat, outcome : Outcomes \cup {"NONE"},
     route : Routes, continuation : {"NOT_REQUIRED", "PENDING", "APPLIED"},
     continuation_revision : Nat]

ASSUME HumanGateAssumption ==
    /\ Allowed \in [Policies -> SUBSET (Outcomes \X Routes)]
    /\ NoGate \notin GateType /\ Broken \notin [Gates -> GateType \cup {NoGate}]
    /\ \A ev \in OtherEvents : ev[1] \notin GateEventTypes
    /\ MaxSeq \in Nat

VARIABLE asks         \* where each person's call of the service is

IsUnfinished(r) ==
    r.status = "PENDING" \/ (r.status = "RESOLVED" /\ r.continuation = "PENDING")
EndedInBlock(r) ==
    r.status \in {"CANCELLED", "EXPIRED"} \/ r.route = "BLOCK" \/ r.outcome = "REJECTED"

(* Fault: a gate that was refused holds nothing up any more.               *)
IsBlockingWhileUnfinished(r) == IsUnfinished(r)

IsBlocking(r) == IsUnfinished(r) \/ EndedInBlock(r)

(* current_cycle; it raises on more than one.                              *)
Cycle(gs, l) == {g \in Gates : gs[g] # NoGate /\ gs[g].lineage = l /\ IsBlocking(gs[g])}
IsCurrentCycle(gs, g) ==
    LET cycle == Cycle(gs, gs[g].lineage)
    IN  cycle = {g} \/ (cycle = {} /\ ~IsUnfinished(gs[g]))

-----------------------------------------------------------------------------
(* Events, and what the reducer makes of them.                             *)

GateEvent(type, p) == [type |-> type, of |-> p.gate, payload |-> p]
IsGateEvent(ev) == ev.type \in GateEventTypes

Opened(p) ==
    [lineage |-> p.lineage, policy |-> p.policy, status |-> "PENDING", revision |-> 1, outcome |-> "NONE", route |-> "NONE",
     continuation |-> "NOT_REQUIRED", continuation_revision |-> 0]

Decided(r, p) ==
    [r EXCEPT !.status = "RESOLVED", !.revision = @ + 1,
              !.outcome = p.outcome, !.route = p.route,
              !.continuation = IF p.route \in Continuing THEN "PENDING" ELSE @,
              !.continuation_revision = IF p.route \in Continuing THEN @ + 1 ELSE @]

Continued(r) ==
    [r EXCEPT !.revision = @ + 1, !.continuation = "APPLIED", !.continuation_revision = @ + 1]

(* The reducer's conditions on an event about a gate it knows.             *)
GateEventFits(r, ev) ==
    LET p == ev.payload
    IN  /\ p.expected_revision = r.revision
        /\ ev.type \in {"gate.decided", "gate.continued"} =>
              p.expected_continuation = r.continuation_revision
        /\ ev.type # "gate.continued" => r.status = "PENDING"
        /\ ev.type = "gate.decided" => <<p.outcome, p.route>> \in Allowed[r.policy]
        /\ ev.type = "gate.expired" => r.policy \in Expiring /\ p.reached
        /\ ev.type = "gate.continued" =>
              /\ r.status = "RESOLVED" /\ r.continuation = "PENDING"
              /\ p.route = r.route /\ p.route \in Continuing

ReduceGate(gs, ev) ==
    LET p == ev.payload
        r == gs[ev.of]
    IN  CASE gs = Broken \/ ~IsGateEvent(ev) -> gs
          [] gs # Broken /\ ev.type = "gate.opened" ->
                IF r # NoGate \/ Cycle(gs, p.lineage) # {} THEN Broken
                ELSE [gs EXCEPT ![ev.of] = Opened(p)]
          [] OTHER ->
                IF r = NoGate \/ ~GateEventFits(r, ev) THEN Broken
                ELSE [gs EXCEPT ![ev.of] =
                        CASE ev.type = "gate.decided"   -> Decided(r, p)
                          [] ev.type = "gate.escalated" -> [r EXCEPT !.revision = @ + 1]
                          [] ev.type = "gate.cancelled" ->
                                [r EXCEPT !.revision = @ + 1, !.status = "CANCELLED"]
                          [] ev.type = "gate.expired"   ->
                                [r EXCEPT !.revision = @ + 1, !.status = "EXPIRED"]
                          [] OTHER                      -> Continued(r)]

(* The gates after the first n events, and now.                            *)
GatesAt[n \in Nat] ==
    IF n = 0 THEN [g \in Gates |-> NoGate] ELSE ReduceGate(GatesAt[n - 1], stream[n])
GatesNow == GatesAt[HeadSeq]

-----------------------------------------------------------------------------
(* The handlers: the event a payload leads to, or none.                    *)

(* _gate, _assert_current_cycle, _require_pending and _cas_gate.           *)
GateMay(gs, p) ==
    /\ gs[p.gate] # NoGate /\ IsCurrentCycle(gs, p.gate)
    /\ gs[p.gate].status = IF p.kind = "continue" THEN "RESOLVED" ELSE "PENDING"
    /\ p.expected_revision = gs[p.gate].revision

(* Fault: a lineage with a blocking gate gets another.                     *)
OpenMayBeside(gs, p) == gs[p.gate] = NoGate /\ CanOpen(p.lineage)

OpenMay(gs, p) ==
    /\ gs[p.gate] = NoGate /\ CanOpen(p.lineage)
    /\ Cycle(gs, p.lineage) = {}

DecisionMay(gs, p) ==
    /\ GateMay(gs, p) /\ p.expected_continuation = gs[p.gate].continuation_revision
    /\ <<p.outcome, p.route>> \in Allowed[gs[p.gate].policy]

(* _validate_continuation_source: the seqs that may anchor a continuation, *)
(* an Attempt that resumed the lineage or any Revision of its Goal or      *)
(* Plan, be it the one the gate was opened on (seq 0).                     *)
SourceType == [r \in Continuing |->
    CASE r = "RESUME_EXECUTION" -> "attempt.resumed"
      [] r = "GOAL_REVISION"    -> "goal.revised"
      [] OTHER                  -> "plan.revised"]
Sources(l, route) ==
    IF route \notin Continuing THEN {}
    ELSE {i \in 1..HeadSeq : /\ stream[i].type = SourceType[route]
                             /\ route = "RESUME_EXECUTION" => stream[i].of = l}
         \cup (IF route = "RESUME_EXECUTION" THEN {} ELSE {0})

ExpiryMay(gs, p) == GateMay(gs, p) /\ gs[p.gate].policy \in Expiring /\ p.reached

ContinuationMay(gs, p) ==
    /\ GateMay(gs, p) /\ p.expected_continuation = gs[p.gate].continuation_revision
    /\ gs[p.gate].continuation = "PENDING" /\ p.route = gs[p.gate].route
    /\ p.source \in Sources(gs[p.gate].lineage, p.route)

GateFacts(gs, p) ==
    CASE p.kind = "open" /\ OpenMay(gs, p)             -> << GateEvent("gate.opened", p) >>
      [] p.kind = "decide" /\ DecisionMay(gs, p)       -> << GateEvent("gate.decided", p) >>
      [] p.kind = "escalate" /\ GateMay(gs, p)         -> << GateEvent("gate.escalated", p) >>
      [] p.kind = "cancel" /\ GateMay(gs, p)           -> << GateEvent("gate.cancelled", p) >>
      [] p.kind = "expire" /\ ExpiryMay(gs, p)         -> << GateEvent("gate.expired", p) >>
      [] p.kind = "continue" /\ ContinuationMay(gs, p) -> << GateEvent("gate.continued", p) >>
      [] OTHER                                         -> << >>

-----------------------------------------------------------------------------
(* The service.                                                            *)

NoAsk == [pc |-> "idle"]

(* What a caller may ask for, given the gate it reads.                     *)
Payload(kind, g, id, r) ==
    [kind |-> kind, gate |-> g, id |-> id, expected_revision |-> r.revision,
     expected_continuation |-> r.continuation_revision,
     outcome |-> "NONE", route |-> r.route, source |-> 0, reached |-> TRUE]
Decision(g, o, d, r) == [Payload("decide", g, o, r) EXCEPT !.outcome = d[1], !.route = d[2]]
Payloads(g, r) ==
    IF r = NoGate
    THEN [kind : {"open"}, gate : {g}, id : {g}, lineage : Lineages, policy : Policies]
    ELSE {Decision(g, o, d, r) : o \in Operations, d \in Allowed[r.policy]}
         \cup {Payload(k, g, o, r) : k \in {"escalate", "cancel"}, o \in Operations}
         \cup {[Payload("expire", g, g, r) EXCEPT !.reached = b] : b \in BOOLEAN}
         \cup {[Payload("continue", g, g, r) EXCEPT !.source = s] : s \in Sources(r.lineage, r.route)}

(* record_decision and the others read the gate and build the payload.     *)
ReadGate(p) ==
    /\ asks[p].pc = "idle" /\ HeadSeq < MaxSeq
    /\ LET gs == GatesNow
       IN  \E g \in Gates : \E pay \in Payloads(g, gs[g]) :
              asks' = [asks EXCEPT ![p] = [pc |-> "read", payload |-> pay]]
    /\ UNCHANGED log

ReadCursor(p) ==
    /\ asks[p].pc = "read"
    /\ asks' = [asks EXCEPT ![p] = [pc |-> "send", payload |-> @.payload, cursor |-> HeadSeq]]
    /\ UNCHANGED log

(* The command_id is computed from the gate, the kind of command and the   *)
(* caller's id, if it has one; it serves as the idempotency key, too.      *)
GateCommand(ask) ==
    LET id == <<ask.payload.gate, ask.payload.kind, ask.payload.id>>
    IN  Command(id, id, ask.cursor, ask.payload)

(* _run_step.  A stored row is answered as it was, whatever is asked now;  *)
(* a head that moved is raised before, or refused and stored in, execute.  *)
RunGateStep(p) ==
    LET ask == asks[p]
        cmd == GateCommand(ask)
    IN  /\ ask.pc = "send"
        /\ asks' = [asks EXCEPT ![p] = NoAsk]
        /\ \/ Known(cmd) # {} /\ UNCHANGED log
           \/ Known(cmd) = {} /\ Execute(cmd, GateFacts(GatesNow, ask.payload), "R2_6_REFUSED")
           \/ Known(cmd) = {} /\ ask.cursor # HeadSeq /\ UNCHANGED log

(* The other writers of the Mission.                                       *)
OtherEvent(type, l) == [type |-> type, of |-> l]
OthersWrite ==
    /\ HeadSeq < MaxSeq
    /\ \E ev \in OtherEvents :
          OtherMay(ev[1], ev[2]) /\ stream' = Append(stream, OtherEvent(ev[1], ev[2]))
    /\ UNCHANGED <<rows, asks>>

GateInit == rows = {} /\ stream = << >> /\ asks = [p \in People |-> NoAsk]
GateNext == (\E p \in People : ReadGate(p) \/ ReadCursor(p) \/ RunGateStep(p)) \/ OthersWrite
GateSpec == GateInit /\ [][GateNext]_<<log, asks>>

(* A call of the service with nothing in between.                          *)
GateStepAtOnce ==
    /\ HeadSeq < MaxSeq
    /\ LET gs == GatesNow
       IN  \E g \in Gates : \E pay \in Payloads(g, gs[g]) :
              /\ GateFacts(gs, pay) # << >>
              /\ Execute(GateCommand([payload |-> pay, cursor |-> HeadSeq]),
                         GateFacts(gs, pay), "R2_6_REFUSED")
    /\ UNCHANGED asks

-----------------------------------------------------------------------------
(* evaluate_human_gate_boundary: ALLOW, WAIT, BLOCK or ROUTE_REVISION.     *)
BoundaryDecision(gs, l) ==
    LET cycle == Cycle(gs, l)
        r == gs[CHOOSE g \in cycle : TRUE]
    IN  CASE cycle = {}                                 -> "ALLOW"
          [] cycle # {} /\ r.status = "PENDING"         -> "WAIT"
          [] cycle # {} /\ EndedInBlock(r)              -> "BLOCK"
          [] OTHER -> IF r.route \in {"GOAL_REVISION", "PLAN_REVISION"}
                      THEN "ROUTE_REVISION" ELSE "WAIT"

(* Whatever the handlers let through at the head, the reducer accepts: the *)
(* Mission can be replayed, and no lineage ever has two gates that block   *)
(* it, on which every later read would raise.                              *)
GatesReplay ==
    LET gs == GatesNow
    IN  /\ gs # Broken
        /\ \A g \in Gates : gs[g] # NoGate => gs[g] \in GateType
        /\ \A l \in Lineages : \A g, h \in Cycle(gs, l) : g = h

(* A person's No is final: a lineage whose gate was refused, cancelled or  *)
(* expired at some time is held up ever after, and the answer never        *)
(* replaced, by no retry, no late second answer and no other gate.         *)
NoIsFinal ==
    LET now == GatesNow
    IN  \A n \in 1..HeadSeq :
          LET then == GatesAt[n]
          IN  \A g \in Gates : then[g] # NoGate /\ EndedInBlock(then[g]) =>
                /\ BoundaryDecision(now, then[g].lineage) = "BLOCK"
                /\ now[g].outcome = then[g].outcome
=============================================================================
