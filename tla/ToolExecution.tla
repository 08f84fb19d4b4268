---------------------------- MODULE ToolExecution ----------------------------
(***************************************************************************)
(* tool_execution: the boundary at which the runtime acts on the world.    *)
(*                                                                         *)
(* A ToolExecutionRequest is recorded as an intent (a REQUEST event), then *)
(* the adapter is invoked outside any transaction, then what it observed   *)
(* is recorded as the execution's one immutable fact.  An execution whose  *)
(* caller died in between is reconciled by a later command.  Callers are   *)
(* concurrent, may die anywhere, and may send a request again.             *)
(*                                                                         *)
(* The commands of a Mission are answered one at a time (MissionLog); the  *)
(* adapter and the other writers of the Mission are external.  BridgeTurn  *)
(* is r4_4/execution_bridge.py: reconcile first, execute if that fails.    *)
(***************************************************************************)
EXTENDS MissionLog

CONSTANTS
    Callers,
    Executions,       \* tool_execution_ids
    Requests,         \* ToolExecutionRequests, retries included
    BridgeRequests,   \* those made through the bridge
    Reconciles,       \* ReconcileToolExecutionRequests
    Outcomes,         \* ToolExecutionOutcomeRequests sent by other than execute()
    Evidence,         \* RecordEvidenceRequests
    Allowed,          \* executions whose adapter is constrained and has the capability
    NoExecution,      \* an event of another component
    NoRequest,        \* a caller outside of execute()
    MaxSeq,           \* bound on the stream: others write no further
    MaxInvocations    \* bound on the adapter calls for one execution

Observed == {"CONFIRMED", "REJECTED", "UNKNOWN"}   \* what an adapter call can end as

ASSUME ToolExecutionAssumption ==
    /\ \A r \in Requests \cup BridgeRequests : r.tool_execution_id \in Executions /\ r.expected_seq \in Nat
    /\ \A q \in Reconciles : q.tool_execution_id \in Executions /\ q.expected_seq \in Nat
    /\ \A o \in Outcomes \cup Evidence : o.tool_execution_id \in Executions
    /\ NoExecution \notin Executions
    /\ NoRequest \notin Requests \cup BridgeRequests

VARIABLES
    phase,            \* where each caller is in execute()
    request,          \* the request it executes
    seen,             \* the Mission head it goes by
    observation,      \* what the adapter told it
    invocations       \* external: how often each execution was carried out

calls == <<phase, request, seen, observation>>
vars  == <<log, calls, invocations>>

-----------------------------------------------------------------------------
(* The state the reducer builds from the first n events.                   *)

Event(type, x, detail) == [type |-> type, execution |-> x, detail |-> detail]
Of(type, x, n) == {i \in 1..n : stream[i].type = type /\ stream[i].execution = x}

Requested(x, n)  == Of("requested", x, n) # {}
Facts(x, n)      == Of("observed", x, n)
FactIs(x, n, obs) == \E i \in Facts(x, n) : stream[i].detail = obs
HasReconciliation(x, rid, n) ==
    \E i \in Of("reconciled", x, n) : stream[i].detail.reconciliation_id = rid
HasEvidence(x, id, n) ==
    \E i \in Of("evidence", x, n) : stream[i].detail.evidence_id = id

(* What other components decide: the Mission is ACTIVE and the Session     *)
(* OPEN; the Task is ACTIVE under the current OPEN Plan Revision.          *)
Live(n)    == \A i \in 1..n : stream[i].type # "session_closed"
Current(n) == \A i \in 1..n : stream[i].type # "task_left"

(* Everything the service checks before it sends a request, and the        *)
(* handler's share of it.                                                  *)
Admissible(n) == Live(n) /\ Current(n)

(* The intent that owns a tool_execution_id or an idempotency_key.         *)
Owners(r, n) ==
    {i \in 1..n : /\ stream[i].type = "requested"
                  /\ \/ stream[i].execution = r.tool_execution_id
                     \/ /\ r.idempotency_key # NoKey
                        /\ stream[i].detail.idempotency_key = r.idempotency_key}

-----------------------------------------------------------------------------
(* The handlers: the events a command proposes on the state at the head.   *)

RequestFacts(r) ==
    IF Live(HeadSeq) /\ Owners(r, HeadSeq) = {}
    THEN << Event("requested", r.tool_execution_id,
                  [idempotency_key |-> r.idempotency_key]) >>
    ELSE << >>

(* Fault: a second outcome is let through.                                 *)
OutcomeFactsAgain(x, obs) ==
    IF Live(HeadSeq) /\ Requested(x, HeadSeq)
    THEN << Event("observed", x, obs) >>
    ELSE << >>

OutcomeFacts(x, obs) ==
    IF Live(HeadSeq) /\ Requested(x, HeadSeq) /\ Facts(x, HeadSeq) = {}
    THEN << Event("observed", x, obs) >>
    ELSE << >>

(* Fault: what an execution was found to be does not matter.               *)
ReconcileRefusalUnasked(q) ==
    LET x == q.tool_execution_id
    IN  IF ~Live(HeadSeq) THEN "EXECUTION_SESSION_NOT_OPEN"
        ELSE IF ~Requested(x, HeadSeq) THEN "TOOL_EXECUTION_NOT_FOUND"
        ELSE IF HasReconciliation(x, q.reconciliation_id, HeadSeq)
             THEN "TOOL_EXECUTION_RECONCILIATION_DUPLICATE"
        ELSE "NONE"

ReconcileRefusal(q) ==
    LET x == q.tool_execution_id
    IN  IF ~Live(HeadSeq) THEN "EXECUTION_SESSION_NOT_OPEN"
        ELSE IF ~Requested(x, HeadSeq) THEN "TOOL_EXECUTION_NOT_FOUND"
        ELSE IF HasReconciliation(x, q.reconciliation_id, HeadSeq)
             THEN "TOOL_EXECUTION_RECONCILIATION_DUPLICATE"
        ELSE IF FactIs(x, HeadSeq, "CONFIRMED") THEN "TOOL_EXECUTION_ALREADY_CONFIRMED"
        ELSE "NONE"

ReconcileFacts(q) ==
    IF ReconcileRefusal(q) = "NONE"
    THEN << Event("reconciled", q.tool_execution_id,
                  [reconciliation_id |-> q.reconciliation_id, status |-> q.observation]) >>
    ELSE << >>

EvidenceFacts(v) ==
    IF /\ Live(HeadSeq) /\ v.fact_seq \in Facts(v.tool_execution_id, HeadSeq)
       /\ ~HasEvidence(v.tool_execution_id, v.evidence_id, HeadSeq)
    THEN << Event("evidence", v.tool_execution_id,
                  [evidence_id |-> v.evidence_id, fact_seq |-> v.fact_seq]) >>
    ELSE << >>

-----------------------------------------------------------------------------
Init ==
    /\ rows = {} /\ stream = << >>
    /\ phase = [c \in Callers |-> "idle"]
    /\ request = [c \in Callers |-> NoRequest]
    /\ seen = [c \in Callers |-> 0]
    /\ observation = [c \in Callers |-> "UNKNOWN"]
    /\ invocations = [x \in Executions |-> 0]

Goto(c, p) == phase' = [phase EXCEPT ![c] = p]

(* The call returns or raises, or its process dies.                        *)
Leave(c) ==
    /\ Goto(c, "idle")
    /\ request' = [request EXCEPT ![c] = NoRequest]
    /\ seen' = [seen EXCEPT ![c] = 0]
    /\ observation' = [observation EXCEPT ![c] = "UNKNOWN"]

(* execute(): the preconditions are checked on the state at the seq the    *)
(* request names, not at the head, and so is whether it was made before.   *)
(* A call that fails here, or finds its own intent, changes nothing.       *)
Prepared(r) ==
    /\ r.expected_seq <= HeadSeq
    /\ Admissible(r.expected_seq)
    /\ Owners(r, r.expected_seq) = {}

(* Fault: the adapter is invoked before the intent is recorded.            *)
PrepareAndInvoke(c, r) ==
    /\ phase[c] = "idle"
    /\ Prepared(r)
    /\ Goto(c, "invoking")
    /\ request' = [request EXCEPT ![c] = r]
    /\ UNCHANGED <<log, seen, observation, invocations>>

Prepare(c, r) ==
    /\ phase[c] = "idle"
    /\ Prepared(r)
    /\ Goto(c, "requesting")
    /\ request' = [request EXCEPT ![c] = r]
    /\ UNCHANGED <<log, seen, observation, invocations>>

RequestCommand(r) ==
    Command(r.command_id, r.idempotency_key, r.expected_seq,
            [type |-> "REQUEST", execution |-> r.tool_execution_id])

(* The REQUEST command.  Any answer that is ok counts as APPLIED, also     *)
(* the stored answer to the same command sent before.                      *)
SendRequest(c) ==
    LET r == request[c]
        answer == Answer(RequestCommand(r), RequestFacts(r), "REFUSED")
    IN  /\ phase[c] = "requesting"
        /\ Execute(RequestCommand(r), RequestFacts(r), "REFUSED")
        /\ IF answer.ok
           THEN /\ Goto(c, "invoking")
                /\ seen' = [seen EXCEPT ![c] = answer.last_seq]
                /\ UNCHANGED <<request, observation>>
           ELSE Leave(c)
        /\ UNCHANGED invocations

(* The adapter call, outside any transaction.  Whatever goes wrong with it *)
(* is an UNKNOWN observation.                                              *)
Invoke(c) ==
    LET x == request[c].tool_execution_id
    IN  /\ phase[c] = "invoking" /\ x \in Allowed
        /\ invocations[x] < MaxInvocations
        /\ invocations' = [invocations EXCEPT ![x] = @ + 1]
        /\ \E obs \in Observed : observation' = [observation EXCEPT ![c] = obs]
        /\ Goto(c, "invoked")
        /\ UNCHANGED <<log, request, seen>>

AdapterRefused(c) ==
    /\ phase[c] = "invoking" /\ request[c].tool_execution_id \notin Allowed
    /\ Leave(c)
    /\ UNCHANGED <<log, invocations>>

(* _assert_head_unchanged: the outcome is dropped if anyone else wrote.    *)
AssertHeadUnchanged(c) ==
    /\ phase[c] = "invoked"
    /\ IF seen[c] = HeadSeq
       THEN Goto(c, "asserted") /\ UNCHANGED <<request, seen, observation>>
       ELSE Leave(c)
    /\ UNCHANGED <<log, invocations>>

(* The outcome command takes the head anew as its expected_seq.            *)
ReadHead(c) ==
    /\ phase[c] = "asserted"
    /\ seen' = [seen EXCEPT ![c] = HeadSeq]
    /\ Goto(c, "recording")
    /\ UNCHANGED <<log, request, observation, invocations>>

OutcomeCommand(r, seq, obs) ==
    Command(<<r.command_id, "outcome">>,
            IF r.idempotency_key = NoKey THEN NoKey ELSE <<r.idempotency_key, "outcome">>,
            seq, [type |-> "OUTCOME", execution |-> r.tool_execution_id, observation |-> obs])

RecordOutcome(c) ==
    LET r == request[c]
        obs == observation[c]
    IN  /\ phase[c] = "recording"
        /\ Execute(OutcomeCommand(r, seen[c], obs),
                   OutcomeFacts(r.tool_execution_id, obs), "REFUSED")
        /\ Leave(c)
        /\ UNCHANGED invocations

(* record_outcome is a public operation: whoever observed an execution -   *)
(* a caller whose execute() was dropped - may send the outcome itself.     *)
SendOutcome(o) ==
    /\ Execute(Command(o.command_id, o.idempotency_key, o.expected_seq,
                       [type |-> "OUTCOME", execution |-> o.tool_execution_id,
                        observation |-> o.observation]),
               OutcomeFacts(o.tool_execution_id, o.observation), "REFUSED")
    /\ UNCHANGED <<calls, invocations>>

ReconcileCommand(q) ==
    Command(q.command_id, q.idempotency_key, q.expected_seq,
            [type |-> "RECONCILE", execution |-> q.tool_execution_id,
             reconciliation_id |-> q.reconciliation_id, observation |-> q.observation])
ReconcileAnswer(q) ==
    Answer(ReconcileCommand(q), ReconcileFacts(q), ReconcileRefusal(q))

Reconcile(q) ==
    /\ Execute(ReconcileCommand(q), ReconcileFacts(q), ReconcileRefusal(q))
    /\ UNCHANGED <<calls, invocations>>

(* record_evidence: evidence that is there already is not sent again.      *)
RecordEvidence(v) ==
    /\ Requested(v.tool_execution_id, HeadSeq)
    /\ ~HasEvidence(v.tool_execution_id, v.evidence_id, HeadSeq)
    /\ Execute(Command(v.command_id, v.idempotency_key, v.expected_seq,
                       [type |-> "EVIDENCE", execution |-> v.tool_execution_id,
                        evidence_id |-> v.evidence_id, fact_seq |-> v.fact_seq]),
               EvidenceFacts(v), "REFUSED")
    /\ UNCHANGED <<calls, invocations>>

(* execute_or_reconcile(allow_dispatch=True): if reconciliation fails, for *)
(* whatever reason, the request is executed.                               *)
BridgeTurn(c, q, r) ==
    /\ phase[c] = "idle" /\ q.tool_execution_id = r.tool_execution_id
    /\ Execute(ReconcileCommand(q), ReconcileFacts(q), ReconcileRefusal(q))
    /\ IF ReconcileAnswer(q).ok
       THEN UNCHANGED calls
       ELSE /\ Goto(c, "dispatching")
            /\ request' = [request EXCEPT ![c] = r]
            /\ UNCHANGED <<seen, observation>>
    /\ UNCHANGED invocations

BridgeExecute(c) ==
    /\ phase[c] = "dispatching"
    /\ IF Prepared(request[c])
       THEN Goto(c, "requesting") /\ UNCHANGED <<request, seen, observation>>
       ELSE Leave(c)
    /\ UNCHANGED <<log, invocations>>

Crash(c) ==
    /\ phase[c] # "idle"
    /\ Leave(c)
    /\ UNCHANGED <<log, invocations>>

(* Another component of the runtime writes to the Mission.                 *)
OthersWrite ==
    /\ \E type \in {"other", "session_closed", "task_left"} :
          stream' = Append(stream, Event(type, NoExecution, "NONE"))
    /\ UNCHANGED <<rows, calls, invocations>>

Step(c) ==
    \/ SendRequest(c) \/ Invoke(c) \/ AdapterRefused(c) \/ AssertHeadUnchanged(c)
    \/ ReadHead(c) \/ RecordOutcome(c) \/ BridgeExecute(c) \/ Crash(c)

Next ==
    \/ \E c \in Callers :
          \/ Step(c)
          \/ \E r \in Requests : Prepare(c, r)
          \/ \E q \in Reconciles, r \in BridgeRequests : BridgeTurn(c, q, r)
    \/ \E o \in Outcomes : SendOutcome(o)
    \/ \E q \in Reconciles : Reconcile(q)
    \/ \E v \in Evidence : RecordEvidence(v)
    \/ HeadSeq < MaxSeq /\ OthersWrite

Spec == Init /\ [][Next]_vars

-----------------------------------------------------------------------------
(* Properties.                                                             *)

(* The Mission's log, the callers and the world are typed.                 *)
TypeOK ==
    /\ \A row \in rows : row.answer.ok => row.answer.last_seq \in 1..HeadSeq
    /\ \A i \in 1..HeadSeq : stream[i].execution \in Executions \cup {NoExecution}
    /\ phase \in [Callers -> {"idle", "dispatching", "requesting", "invoking", "invoked",
                              "asserted", "recording"}]
    /\ request \in [Callers -> Requests \cup BridgeRequests \cup {NoRequest}]
    /\ \A c \in Callers : request[c] = NoRequest <=> phase[c] = "idle"
    /\ seen \in [Callers -> Nat]
    /\ observation \in [Callers -> Observed]
    /\ invocations \in [Executions -> Nat]

(* Nothing is done to the world that the Mission's history does not        *)
(* announce: whatever crashes, an execution that was carried out has its   *)
(* intent on record, so that it can be found and reconciled.               *)
IntentBeforeEffect ==
    \A x \in Executions : invocations[x] > 0 => Requested(x, HeadSeq)

(* An execution has at most one intent and one fact, the fact after the    *)
(* intent, and an idempotency key belongs to one intent of all executions, *)
(* however many callers race.                                              *)
OneFactPerIntent ==
    /\ \A x \in Executions :
          /\ \A i, j \in Of("requested", x, HeadSeq) \cup Facts(x, HeadSeq) :
                stream[i].type = stream[j].type => i = j
          /\ \A i \in Facts(x, HeadSeq) : Requested(x, i - 1)
    /\ \A i, j \in 1..HeadSeq :
          /\ stream[i].type = "requested" /\ stream[j].type = "requested"
          /\ stream[i].detail.idempotency_key = stream[j].detail.idempotency_key
          /\ stream[i].detail.idempotency_key # NoKey
          => i = j

(* The service checks its preconditions outside the transaction, on the    *)
(* state at the seq the request names, and the handler does not repeat     *)
(* them all: still no intent is recorded that they did not hold for.       *)
IntentsAreAdmissible ==
    \A i \in 1..HeadSeq : stream[i].type = "requested" => Admissible(i - 1)

(* A fact that says CONFIRMED stands: no reconciliation follows it, be it  *)
(* sent before the outcome was known, or by the bridge on a retry.         *)
ConfirmedIsFinal ==
    \A i, j \in 1..HeadSeq :
        /\ stream[i].type = "observed" /\ stream[i].detail = "CONFIRMED"
        /\ stream[j].type = "reconciled" /\ stream[j].execution = stream[i].execution
        => j < i

(* Evidence rests on the fact of its own execution, recorded before it,    *)
(* and no evidence_id is attached twice.                                   *)
EvidenceRestsOnFacts ==
    \A i \in 1..HeadSeq : stream[i].type = "evidence" =>
        /\ stream[i].detail.fact_seq \in Facts(stream[i].execution, i - 1)
        /\ ~HasEvidence(stream[i].execution, stream[i].detail.evidence_id, i - 1)

(* What is recorded of an execution beside its fact goes with that fact,   *)
(* in whatever order the late outcome of a call, reconciliations of it and *)
(* evidence arrive.                                                        *)
RecordsGoWithTheFact == ConfirmedIsFinal /\ EvidenceRestsOnFacts
=============================================================================
