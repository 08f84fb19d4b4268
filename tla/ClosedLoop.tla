------------------------------ MODULE ClosedLoop ------------------------------
(***************************************************************************)
(* r4_8: the closed loop, a quality cycle that runs from a trigger to a    *)
(* readiness decision.  A cycle observes what the other capabilities did,  *)
(* asks their authorities for work, takes their answers (receipts) and is  *)
(* closed on the answers of R3_7 and R4_5.                                 *)
(*                                                                         *)
(* R48ApplicationService checks a call on a state it reads, and only then  *)
(* executes a command; what closing and the answers need is checked there  *)
(* and not by the handler.  A caller may name the seq it has read; else    *)
(* the service takes the head after its checks.                            *)
(*                                                                         *)
(* The authorities are external: they answer anything, at any time.        *)
(***************************************************************************)
EXTENDS MissionLog, FiniteSets, TLC

CONSTANTS
    Cycles,               \* cycle_ids: what they hash
    Phases,               \* the phases observed, of PhaseAuthority
    Authorities,          \* whom operations are asked of
    RequestRefs,          \* their request_refs
    Results,              \* the answers of the authorities
    TextBefore(_, _),     \* the order of their revisions, numbers, as text
    FieldValidationRequired,
    LoopCallers,
    Past,                 \* the calls a behaviour starts after: none closes a cycle
    NoCycle, NoRevision, NoId, Broken,
    MaxSeq, MaxRows       \* bounds on the events and on the commands

Outcomes == {"APPLIED", "REJECTED", "BLOCKED", "STALE", "UNKNOWN", "CONFLICT"}
Final == Outcomes \ {"UNKNOWN"}

(* RESUME is treated as RETRY is, and REVALIDATE as RECONCILE.             *)
ReentryKinds == {"RETRY", "RECONCILE"}

PhaseAuthority ==
    [TRIGGER_OBSERVED |-> "R4_2", IMPACT_OBSERVED |-> "R4_2", WORK_ACTIVE |-> "R2",
     DEFECT_FIX_OBSERVED |-> "R4_3", FIX_VALIDATION_OBSERVED |-> "R4_4",
     REGRESSION_OBSERVED |-> "R4_4", SUFFICIENCY_OBSERVED |-> "R3_7",
     READINESS_OBSERVED |-> "R4_5", LEARNING_ELIGIBLE |-> "R4_6",
     PROMOTION_OBSERVED |-> "R4_6", LEGACY_RECONCILIATION_OBSERVED |-> "R4_7"]
ClosablePhases == {"READINESS_OBSERVED", "PROMOTION_OBSERVED", "LEGACY_RECONCILIATION_OBSERVED"}
RequiredAuthorities ==
    {"R3_7", "R4_5"} \cup (IF FieldValidationRequired THEN {"FIELD_VALIDATION"} ELSE {})

ASSUME ClosedLoopAssumption ==
    /\ Phases \subseteq DOMAIN PhaseAuthority
    /\ \A r \in Results : r.outcome \in Outcomes /\ (r.revision # NoRevision => r.revision \in Nat)
    /\ FieldValidationRequired \in BOOLEAN
    /\ Len(Past) \in Nat /\ \A n \in 1..Len(Past) : Past[n].type # "close"
    /\ MaxSeq \in Nat /\ MaxRows \in Nat

VARIABLE calls        \* where each caller's call of the service is

-----------------------------------------------------------------------------
(* Events, and what the reducer makes of them.                             *)

Event(type, body) == [type |-> type, body |-> body]

NewCycle ==
    [phase |-> "REGISTERED", status |-> "ACTIVE",
     steps |-> [ph \in Phases \cup {"REGISTERED"} |-> IF ph = "REGISTERED" THEN 1 ELSE 0],
     operations |-> << >>, receipts |-> {}]

(* An operation is identified by what was asked.                           *)
NewOperation == [status |-> "REQUESTED", revision |-> NoRevision, authority_id |-> NoId]

Stepped(cycle, body) ==
    [cycle EXCEPT !.phase = body.phase, !.steps[body.phase] = body.revision,
                  !.status = IF body.kind = "RECONCILE" THEN "RECONCILIATION_REQUIRED"
                             ELSE "ACTIVE"]

(* The cycle's status after an answer.                                     *)
StatusAfter(outcome) ==
    CASE outcome = "APPLIED"               -> "ACTIVE"
      [] outcome \in {"UNKNOWN", "CONFLICT"} -> "RECONCILIATION_REQUIRED"
      [] outcome = "BLOCKED"               -> "BLOCKED"
      [] OTHER                             -> "STALE"

(* An answer to operation o: one that is known changes nothing, one older  *)
(* than the APPLIED one (as texts) leaves the operation as it is.          *)
Received(cycle, o, result) ==
    LET operation == cycle.operations[o]
        overtaken == /\ operation.status = "APPLIED"
                     /\ NoRevision \notin {result.revision, operation.revision}
                     /\ TextBefore(result.revision, operation.revision)
        noted == [cycle EXCEPT !.receipts = @ \cup {<<o, result>>}]
    IN  IF <<o, result>> \in cycle.receipts THEN cycle
        ELSE IF overtaken THEN [noted EXCEPT !.status = "RECONCILIATION_REQUIRED"]
        ELSE [noted EXCEPT !.status = StatusAfter(result.outcome),
                           !.operations[o] = [status |-> result.outcome,
                                              revision |-> result.revision,
                                              authority_id |-> result.authority_id]]

(* The effect of an event on a cycle, and the conditions on it.            *)
EventFits(cycle, ev) ==
    IF ev.type = "cycle.registered" THEN cycle = NoCycle
    ELSE /\ cycle # NoCycle
         /\ ev.type = "action.requested" => ev.body.operation \notin DOMAIN cycle.operations
         /\ ev.type = "action.received" => ev.body.operation \in DOMAIN cycle.operations

ReduceCycle(cycle, ev) ==
    CASE ev.type = "cycle.registered"    -> NewCycle
      [] ev.type = "capability.observed" -> Stepped(cycle, ev.body)
      [] ev.type = "action.requested"    ->
            [cycle EXCEPT !.operations = @ @@ (ev.body.operation :> NewOperation)]
      [] ev.type = "action.received"     -> Received(cycle, ev.body.operation, ev.body.result)
      [] ev.type = "cycle.waiting"       -> [cycle EXCEPT !.status = "WAITING"]
      [] ev.type = "cycle.reentered"     -> Stepped(cycle, ev.body)
      [] ev.type = "cycle.closed"        ->
            [cycle EXCEPT !.phase = "CLOSED", !.status = "COMPLETE"]

(* The cycles a sequence of events leads to.                               *)
Replay(events) ==
    LET after[n \in 0..Len(events)] ==
            IF n = 0 THEN [c \in Cycles |-> NoCycle]
            ELSE LET cs == after[n - 1]
                     ev == events[n]
                 IN  IF cs = Broken \/ ~EventFits(cs[ev.body.cycle], ev) THEN Broken
                     ELSE [cs EXCEPT ![ev.body.cycle] = ReduceCycle(@, ev)]
    IN  after[Len(events)]
CyclesAt(n) == Replay(SubSeq(stream, 1, n))
CyclesNow == Replay(stream)

-----------------------------------------------------------------------------
(* The handlers: the event a call leads to, or none.                       *)

Open(cycle) == cycle # NoCycle /\ cycle.status # "COMPLETE"

Observation(cycle, call) ==
    IF Open(cycle) /\ call.authority = PhaseAuthority[call.phase]
    THEN << Event("capability.observed",
                  [cycle |-> call.cycle, phase |-> call.phase, kind |-> "NONE",
                   revision |-> cycle.steps[call.phase] + 1]) >>
    ELSE << >>

Request(cycle, call) ==
    IF /\ Open(cycle)
       /\ call.operation.revision = cycle.steps[call.operation.phase]
       /\ call.operation \notin DOMAIN cycle.operations
    THEN << Event("action.requested", [cycle |-> call.cycle, operation |-> call.operation]) >>
    ELSE << >>

(* RECORD_AUTHORITY_RECEIPT and RECORD_RECONCILIATION differ in names only *)
(* and are treated as one.                                                 *)
AuthorityReceipt(cycle, call) ==
    IF cycle # NoCycle /\ call.operation \in DOMAIN cycle.operations
    THEN << Event("action.received", [cycle |-> call.cycle, operation |-> call.operation,
                                      result |-> call.result]) >>
    ELSE << >>

Reentry(cycle, call) ==
    IF Open(cycle) /\ cycle.steps[call.prior] = call.revision
    THEN << Event("cycle.reentered",
                  [cycle |-> call.cycle, phase |-> call.phase, kind |-> call.kind,
                   revision |-> cycle.steps[call.phase] + 1]) >>
    ELSE << >>

LoopFacts(cs, call) ==
    LET cycle == cs[call.cycle]
    IN  CASE call.type = "register" /\ cycle = NoCycle ->
                << Event("cycle.registered", [cycle |-> call.cycle]) >>
          [] call.type = "observe"                 -> Observation(cycle, call)
          [] call.type = "request"                 -> Request(cycle, call)
          [] call.type = "receipt"                 -> AuthorityReceipt(cycle, call)
          [] call.type = "reentry"                 -> Reentry(cycle, call)
          [] call.type = "waiting" /\ cycle # NoCycle ->
                << Event("cycle.waiting", [cycle |-> call.cycle]) >>
          [] call.type = "close" /\ Open(cycle)    ->
                << Event("cycle.closed", [cycle |-> call.cycle]) >>
          [] OTHER                                 -> << >>

-----------------------------------------------------------------------------
(* The service.                                                            *)

NoCall == [pc |-> "idle"]

(* An operation is asked for, and a cycle reentered, from its last step.   *)
Asked(cycle) ==
    [phase : {cycle.phase}, revision : {cycle.steps[cycle.phase]},
     authority : Authorities, request : RequestRefs]
CallsOn(c, cycle) ==
    IF cycle = NoCycle THEN [type : {"register"}, cycle : {c}]
    ELSE [type : {"observe"}, cycle : {c}, phase : Phases, authority : Authorities]
         \cup [type : {"receipt"}, cycle : {c}, operation : DOMAIN cycle.operations, result : Results]
         \cup [type : {"waiting", "close"}, cycle : {c}]
         \cup (IF cycle.phase = "CLOSED" THEN {}
               ELSE [type : {"request"}, cycle : {c}, operation : Asked(cycle)]
                    \cup [type : {"reentry"}, cycle : {c}, phase : Phases, kind : ReentryKinds,
                          prior : {cycle.phase}, revision : {cycle.steps[cycle.phase]}])

(* close_cycle.                                                            *)
AnsweredWith(cycle, authority, outcomes) ==
    \E o \in DOMAIN cycle.operations :
        o.authority = authority /\ cycle.operations[o].status \in outcomes

(* Fault: an operation counts once it is answered, whatever the answer.    *)
ClosableOnAnyAnswer(cycle) ==
    /\ cycle.phase \in ClosablePhases
    /\ \A a \in RequiredAuthorities : AnsweredWith(cycle, a, Outcomes)

Closable(cycle) ==
    /\ cycle.phase \in ClosablePhases
    /\ \A a \in RequiredAuthorities : AnsweredWith(cycle, a, {"APPLIED"})

(* _record_receipt: a known, older, late or foreign answer is not sent.    *)
Older(result, operation) ==
    /\ NoRevision \notin {result.revision, operation.revision}
    /\ result.revision < operation.revision

Acceptable(cycle, o, result) ==
    LET operation == cycle.operations[o]
    IN  /\ <<o, result>> \notin cycle.receipts
        /\ ~Older(result, operation)
        /\ operation.status \notin Final
        /\ operation.authority_id \in {NoId, result.authority_id}

(* Whether the service sends a command, given the cycle it reads; if not,  *)
(* the call ends as a DUPLICATE, a refusal or an error.                    *)
Sends(cycle, call) ==
    CASE call.type = "request" -> call.operation \notin DOMAIN cycle.operations
      [] call.type = "receipt" -> Acceptable(cycle, call.operation, call.result)
      [] call.type = "close"   -> Closable(cycle)
      [] OTHER                 -> TRUE

(* A caller that names the seq it has read names the command as well.      *)
ReadCycle(p) ==
    /\ calls[p].pc = "idle" /\ HeadSeq < MaxSeq /\ Cardinality(rows) < MaxRows
    /\ LET cs == CyclesNow
       IN  \E c \in Cycles : \E call \in CallsOn(c, cs[c]), named \in BOOLEAN :
              /\ Sends(cs[c], call)
              /\ calls' = [calls EXCEPT ![p] =
                    [pc |-> IF named THEN "send" ELSE "read", call |-> call, named |-> named,
                     seq |-> IF named THEN HeadSeq ELSE 0]]
    /\ UNCHANGED log

(* _metadata, when the caller named none.                                  *)
ReadHead(p) ==
    /\ calls[p].pc = "read"
    /\ calls' = [calls EXCEPT ![p].pc = "send", ![p].seq = HeadSeq]
    /\ UNCHANGED log

(* By default the command_id is made of the kind of call and the seq; it   *)
(* is the idempotency key, too.                                            *)
LoopCommand(call, named, seq) ==
    LET id == IF named THEN [type |-> call.type, at |-> 0, given |-> call]
              ELSE [type |-> call.type, at |-> seq + 1, given |-> NoId]
    IN  Command(id, id, seq, call)

LoopSend(p) ==
    /\ calls[p].pc = "send"
    /\ Execute(LoopCommand(calls[p].call, calls[p].named, calls[p].seq),
               LoopFacts(CyclesNow, calls[p].call), "R4_8_REFUSED")
    /\ calls' = [calls EXCEPT ![p] = NoCall]

(* The calls of the past were made one by one, with nothing in between.    *)
PastStream ==
    LET after[n \in 0..Len(Past)] ==
            IF n = 0 THEN << >> ELSE after[n - 1] \o LoopFacts(Replay(after[n - 1]), Past[n])
    IN  after[Len(Past)]
PastRows == {Row(LoopCommand(Past[n], FALSE, n - 1), Accepted(n)) : n \in 1..Len(Past)}

LoopInit ==
    /\ stream = PastStream /\ rows = PastRows
    /\ calls = [p \in LoopCallers |-> NoCall]
LoopNext == \E p \in LoopCallers : ReadCycle(p) \/ ReadHead(p) \/ LoopSend(p)
LoopSpec == LoopInit /\ [][LoopNext]_<<log, calls>>

-----------------------------------------------------------------------------
(* Whether the caller behind event n named the seq it had read.            *)
NamedBy(n) == \E row \in rows : row.answer = Accepted(n) /\ row.command_id.given # NoId

(* Closing is decided by the service on a state it reads before, while     *)
(* answers keep arriving, and the handler checks nothing of it: still no   *)
(* cycle is closed without an instant at which it stood in a phase that    *)
(* may be closed and R3_7 and R4_5 had APPLIED what they were asked; and   *)
(* one closed by a caller that names the seq it has read is closed at such *)
(* an instant.  How it came to that phase is another matter: see           *)
(* ReadinessWasObserved.                                                   *)
ClosuresWereEarned ==
    \A n \in 1..HeadSeq : stream[n].type = "cycle.closed" =>
        LET c == stream[n].body.cycle
            EarnedAt(m) ==
                LET cycle == CyclesAt(m)[c]
                IN  /\ cycle # NoCycle /\ cycle.phase \in ClosablePhases
                    /\ AnsweredWith(cycle, "R3_7", {"APPLIED"})
                    /\ AnsweredWith(cycle, "R4_5", {"APPLIED"})
        IN  /\ \E m \in 1..(n - 1) : EarnedAt(m)
            /\ NamedBy(n) => EarnedAt(n - 1)

(* "Readiness must be observed before closure", as close_cycle says when   *)
(* it refuses a cycle that stands in any other phase.                      *)
ReadinessWasObserved ==
    \A n \in 1..HeadSeq : stream[n].type = "cycle.closed" =>
        \E m \in 1..(n - 1) : /\ stream[m].type = "capability.observed"
                              /\ stream[m].body.cycle = stream[n].body.cycle
                              /\ stream[m].body.phase = "READINESS_OBSERVED"

(* Two callers may bring the answers of one authority at once, in either   *)
(* order, and the handler takes any: an answer brought by a caller that    *)
(* names the seq it has read never replaces a final answer, nor one of a   *)
(* later revision.                                                         *)
FinalAnswersStand ==
    \A n \in 1..HeadSeq : stream[n].type = "action.received" /\ NamedBy(n) =>
        LET body == stream[n].body
            before == CyclesAt(n - 1)[body.cycle].operations[body.operation]
        IN  before.status \notin Final /\ ~Older(body.result, before)
=============================================================================
