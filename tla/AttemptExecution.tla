--------------------------- MODULE AttemptExecution ---------------------------
(***************************************************************************)
(* execution_resume, provider_binding and opencode_bridge: the Attempts of *)
(* a Task, the provider bound to an Attempt, and the requests sent to it.  *)
(*                                                                         *)
(* Every service reads the Mission at the cursor its caller names, which   *)
(* may be old, decides, and sends a command whose handler decides again at *)
(* the head.  The bridge calls the transport in between, outside any       *)
(* transaction and with no intent on record.  Other writers close          *)
(* Sessions, finish the Task, replace the Revision or pause the Mission.   *)
(*                                                                         *)
(* One Plan with one Revision: a Task is current until "PLAN" has changed. *)
(* The digest of a Context is left out: it is a function of the cursor.    *)
(***************************************************************************)
EXTENDS MissionLog, FiniteSets, FiniteSetsExt

CONSTANTS Callers,       \* processes that use the services
          Tasks, Attempts, Sessions,
          Requests,      \* bridge_request_ids
          Providers,     \* provider_request_ids the transport may answer with
          None,          \* no predecessor, no id, no call
          MaxSeq,        \* bound on the stream
          MaxChanges,    \* bound on what other writers do
          MaxRefusals    \* bound on refused commands

ASSUME AttemptAssumption == {MaxSeq, MaxChanges, MaxRefusals} \subseteq Nat /\ None \notin Attempts \cup Providers

VARIABLES call,          \* what each caller is doing
          sent,          \* history: calls that reached the transport
          told           \* history: bridge answers that reached a caller

vars == <<log, call, sent, told>>

Idle == [at |-> "idle"]

-----------------------------------------------------------------------------
(* Facts.  An Attempt is anchored at the cursor of its Context.            *)
Fact(type, id, session, task) ==
    [type |-> type, id |-> id, session |-> session, task |-> task,
     from |-> None, root |-> None, ordinal |-> 0, cursor |-> 0, provider |-> None]

StartedAttempt(cmd) ==
    [Fact("started", cmd.id, cmd.session, cmd.task) EXCEPT
        !.root = cmd.id, !.ordinal = 1, !.cursor = cmd.cursor]
ResumedAttempt(cmd, predecessor) ==
    [Fact("resumed", cmd.id, cmd.session, cmd.task) EXCEPT
        !.from = cmd.from, !.root = predecessor.root,
        !.ordinal = predecessor.ordinal + 1, !.cursor = cmd.cursor]
Binding(cmd) == Fact("bound", cmd.id, cmd.session, None)
Observation(cmd) ==
    [Fact("observed", cmd.id, cmd.session, None) EXCEPT
        !.from = cmd.from, !.cursor = cmd.cursor, !.provider = cmd.provider]
Change(what) == Fact("changed", what, None, None)

-----------------------------------------------------------------------------
(* The composed state after the first n events.                            *)
FactsAt(n, types) == {i \in 1..n : stream[i].type \in types}
Gone(what, n) == \E i \in FactsAt(n, {"changed"}) : stream[i].id = what

AttemptsForTask(task, n) == {i \in FactsAt(n, {"started", "resumed"}) : stream[i].task = task}
AttemptIs(id, n) == {i \in FactsAt(n, {"started", "resumed"}) : stream[i].id = id}
TheAttempt(id, n) == stream[CHOOSE i \in AttemptIs(id, n) : TRUE]
IsLatest(id, n) ==
    /\ AttemptIs(id, n) # {}
    /\ stream[Max(AttemptsForTask(TheAttempt(id, n).task, n))].id = id

BindingOf(id, n) == {i \in FactsAt(n, {"bound"}) : stream[i].id = id}
ByRequest(id, n) == {i \in FactsAt(n, {"observed"}) : stream[i].id = id}
ByProvider(id, n) == {i \in FactsAt(n, {"observed"}) : stream[i].provider = id}

-----------------------------------------------------------------------------
(* What service and handler both ask, each at its own n.                   *)
SessionOpen(session, n) == ~Gone(session, n)
TaskIsWorkedOn(task, n) == ~Gone("PLAN", n) /\ ~Gone(task, n)

(* Fault: the Session may be closed.                                       *)
MayAttemptAnywhere(cmd, n) ==
    /\ ~Gone("MISSION", n) /\ TaskIsWorkedOn(cmd.task, n)
    /\ AttemptIs(cmd.id, n) = {}
    /\ \/ cmd.kind = "START" /\ AttemptsForTask(cmd.task, n) = {}
       \/ /\ cmd.kind = "RESUME" /\ IsLatest(cmd.from, n)
          /\ TheAttempt(cmd.from, n).task = cmd.task

MayAttempt(cmd, n) ==
    /\ ~Gone("MISSION", n) /\ SessionOpen(cmd.session, n)
    /\ TaskIsWorkedOn(cmd.task, n)
    /\ AttemptIs(cmd.id, n) = {}
    /\ \/ cmd.kind = "START" /\ AttemptsForTask(cmd.task, n) = {}
       \/ /\ cmd.kind = "RESUME" /\ IsLatest(cmd.from, n)
          /\ TheAttempt(cmd.from, n).task = cmd.task

MayBind(cmd, n) ==
    /\ SessionOpen(cmd.session, n)
    /\ IsLatest(cmd.id, n) /\ TheAttempt(cmd.id, n).session = cmd.session
    /\ BindingOf(cmd.id, n) = {}

(* _rehydrate_runtime_facts, and the same questions of the handler.        *)
MayCall(cmd, n) ==
    /\ SessionOpen(cmd.session, n)
    /\ IsLatest(cmd.from, n) /\ BindingOf(cmd.from, n) # {}
    /\ TheAttempt(cmd.from, n).session = cmd.session
    /\ TheAttempt(cmd.from, n).cursor = cmd.cursor

(* The three command contributions.                                        *)
HandleAttempt(cmd, n) ==
    IF cmd.cursor # cmd.seq \/ ~MayAttempt(cmd, n) THEN << >>
    ELSE IF cmd.kind = "START" THEN << StartedAttempt(cmd) >>
    ELSE << ResumedAttempt(cmd, TheAttempt(cmd.from, n)) >>

HandleBinding(cmd, n) ==
    IF ~Gone("MISSION", n) /\ MayBind(cmd, n) THEN << Binding(cmd) >> ELSE << >>

HandleCall(cmd, n) ==
    IF /\ ~Gone("MISSION", n) /\ cmd.cursor <= cmd.seq
       /\ MayCall(cmd, n) /\ ByRequest(cmd.id, n) = {} /\ ByProvider(cmd.provider, n) = {}
    THEN << Observation(cmd) >> ELSE << >>

Handle(cmd) ==
    CASE cmd.kind \in {"START", "RESUME"} -> HandleAttempt(cmd, HeadSeq)
      [] cmd.kind = "BIND"               -> HandleBinding(cmd, HeadSeq)
      [] cmd.kind = "CALL"               -> HandleCall(cmd, HeadSeq)

(* One command_id for one thing wanted, as the deterministic ids of g2_1.  *)
Envelope(cmd) == Command(<<cmd.kind, cmd.id>>, NoKey, cmd.seq, cmd)
Submit(cmd) == Execute(Envelope(cmd), Handle(cmd), "REFUSED")

-----------------------------------------------------------------------------
Init ==
    /\ rows = {} /\ stream = << >>
    /\ call = [c \in Callers |-> Idle]
    /\ sent = {} /\ told = {}

Request(kind, id, session, task, from, cursor, provider, seq) ==
    [kind |-> kind, id |-> id, session |-> session, task |-> task, from |-> from,
     cursor |-> cursor, provider |-> provider, seq |-> seq]

Refused == {row \in rows : ~row.answer.ok}
Room == HeadSeq < MaxSeq /\ Cardinality(Refused) <= MaxRefusals
Go(c, place) == call' = [call EXCEPT ![c] = place]

(* start, resume: rehydrate at expected_seq, check, build the Context at   *)
(* the same cursor.  What fails here leaves nothing behind.                *)
PrepareAttempt(c, kind, id, session, task, from, n) ==
    LET cmd == Request(kind, id, session, task, from, n, None, n)
    IN  /\ call[c] = Idle /\ Room
        /\ (kind = "START") = (from = None)
        /\ MayAttempt(cmd, n)
        /\ Go(c, [at |-> "submit", cmd |-> cmd])
        /\ UNCHANGED <<log, sent, told>>

(* bind                                                                    *)
PrepareBinding(c, id, session, n) ==
    LET cmd == Request("BIND", id, session, None, None, 0, None, n)
    IN  /\ call[c] = Idle /\ Room
        /\ MayBind(cmd, n)
        /\ Go(c, [at |-> "submit", cmd |-> cmd])
        /\ UNCHANGED <<log, sent, told>>

(* The command; the services then read their own event back.               *)
SubmitCommand(c) ==
    /\ call[c].at = "submit" /\ Room
    /\ Submit(call[c].cmd)
    /\ Go(c, Idle)
    /\ UNCHANGED <<sent, told>>

-----------------------------------------------------------------------------
(* OpenCodeBridgeApplicationService.execute                                *)
CallRequest(r, attempt, provider, n) ==
    LET a == TheAttempt(attempt, n)
    IN  Request("CALL", r, a.session, None, attempt, a.cursor, provider, n)

(* Fault: only the request's own id is compared.                           *)
SameRequest(seen, cmd) == seen.id = cmd.id

SameIntent(seen, cmd) ==
    /\ seen.from = cmd.from /\ seen.session = cmd.session /\ seen.cursor = cmd.cursor
    /\ cmd.provider = None \/ seen.provider = cmd.provider

(* The request is on record, at the cursor or since: it is not sent again. *)
(* A different intent under the same id is refused.                        *)
AnswerFromRecord(c, r, attempt, provider, n) ==
    LET cmd == CallRequest(r, attempt, provider, n)
    IN  /\ call[c] = Idle
        /\ IsLatest(attempt, n) /\ MayCall(cmd, n)
        /\ \E i \in ByRequest(r, HeadSeq) :
              /\ SameIntent(stream[i], cmd)
              /\ told' = told \cup {[request |-> r, attempt |-> attempt, got |-> stream[i]]}
        /\ UNCHANGED <<log, call, sent>>

(* Nothing on record, and the head is still the cursor.                    *)
PrepareCall(c, r, attempt, provider) ==
    LET n == HeadSeq
        cmd == CallRequest(r, attempt, provider, n)
    IN  /\ call[c] = Idle /\ Room
        /\ IsLatest(attempt, n) /\ MayCall(cmd, n)
        /\ ByRequest(r, n) = {}
        /\ provider # None => ByProvider(provider, n) = {}
        /\ Go(c, [at |-> "call", cmd |-> cmd])
        /\ UNCHANGED <<log, sent, told>>

(* The transport is called, whatever the head is by now.  It accepts under *)
(* an id of its own, or fails with the effect done all the same.           *)
CallTransport(c) ==
    LET cmd == call[c].cmd
    IN  /\ call[c].at = "call"
        /\ sent' = sent \cup {[request |-> cmd.id, attempt |-> cmd.from, at |-> HeadSeq]}
        /\ \/ \E p \in Providers :
                /\ cmd.provider \in {None, p}
                /\ Go(c, [at |-> "check", cmd |-> [cmd EXCEPT !.provider = p]])
           \/ Go(c, Idle)
        /\ UNCHANGED <<log, told>>

(* _assert_head_unchanged after the call; the command follows.             *)
CheckHead(c) ==
    /\ call[c].at = "check"
    /\ Go(c, IF HeadSeq = call[c].cmd.seq THEN [call[c] EXCEPT !.at = "record"] ELSE Idle)
    /\ UNCHANGED <<log, sent, told>>

RecordCall(c) ==
    LET cmd == call[c].cmd
    IN  /\ call[c].at = "record" /\ Room
        /\ Submit(cmd)
        /\ Go(c, Idle)
        /\ told' = IF Answer(Envelope(cmd), Handle(cmd), "REFUSED").ok
                   THEN told \cup {[request |-> cmd.id, attempt |-> cmd.from,
                                    got |-> Observation(cmd)]}
                   ELSE told
        /\ UNCHANGED sent

-----------------------------------------------------------------------------
(* A caller dies, or gives up: nothing of it is left but what it sent.     *)
Die(c) ==
    /\ call[c] # Idle
    /\ Go(c, Idle)
    /\ UNCHANGED <<log, sent, told>>

(* Other writers.                                                          *)
Changes == Sessions \cup Tasks \cup {"PLAN", "MISSION", "OTHER"}
OtherWriter ==
    /\ Room /\ Cardinality(FactsAt(HeadSeq, {"changed"})) < MaxChanges
    /\ \E what \in Changes :
          /\ ~Gone(what, HeadSeq)
          /\ stream' = Append(stream, Change(what))
    /\ UNCHANGED <<rows, call, sent, told>>

Step(c) ==
    \/ \E kind \in {"START", "RESUME"}, id \in Attempts, session \in Sessions,
          task \in Tasks, from \in Attempts \cup {None}, n \in 0..HeadSeq :
          PrepareAttempt(c, kind, id, session, task, from, n)
    \/ \E id \in Attempts, session \in Sessions, n \in 0..HeadSeq :
          PrepareBinding(c, id, session, n)
    \/ SubmitCommand(c)
    \/ \E r \in Requests, attempt \in Attempts, provider \in Providers \cup {None} :
          \/ PrepareCall(c, r, attempt, provider)
          \/ \E n \in 0..HeadSeq : AnswerFromRecord(c, r, attempt, provider, n)
    \/ CallTransport(c) \/ CheckHead(c) \/ RecordCall(c)
    \/ Die(c)

Next == OtherWriter \/ \E c \in Callers : Step(c)

Spec == Init /\ [][Next]_vars

-----------------------------------------------------------------------------
(* The three reducers, which replay the stream.                            *)
ReduceAttempt(f, n) ==
    /\ f.cursor = n /\ AttemptIs(f.id, n) = {}
    /\ \/ /\ f.type = "started" /\ AttemptsForTask(f.task, n) = {}
          /\ f.from = None /\ f.root = f.id /\ f.ordinal = 1
       \/ /\ f.type = "resumed" /\ IsLatest(f.from, n)
          /\ LET p == TheAttempt(f.from, n)
             IN  f.root = p.root /\ f.task = p.task /\ f.ordinal = p.ordinal + 1

ReduceBinding(f, n) == BindingOf(f.id, n) = {}

ReduceObservation(f, n) ==
    f.cursor <= n /\ ByRequest(f.id, n) = {} /\ ByProvider(f.provider, n) = {}

ReducerTakes(f, n) ==
    CASE f.type \in {"started", "resumed"} -> ReduceAttempt(f, n)
      [] f.type = "bound"                 -> ReduceBinding(f, n)
      [] f.type = "observed"              -> ReduceObservation(f, n)
      [] f.type = "changed"               -> TRUE

(* What the handlers let through under races and retries, every reducer    *)
(* takes: one unbroken chain of Attempts for each Task, each anchored at   *)
(* the event just before it, one Binding for each, and requests and        *)
(* provider ids used once.                                                 *)
AttemptsReplay == \A i \in 1..HeadSeq : ReducerTakes(stream[i], i - 1)

(* The Context of an Attempt, built from a read before the command, shows  *)
(* the Mission the Attempt begins in: its Session OPEN, its Task worked on *)
(* and of the current Revision.                                            *)
ContextsStillHold ==
    \A i \in FactsAt(HeadSeq, {"started", "resumed"}) :
        LET a == stream[i]
        IN  SessionOpen(a.session, i) /\ TaskIsWorkedOn(a.task, i) /\ ~Gone("MISSION", i)

(* A record of a transport call comes straight after the state the call    *)
(* was made in: the Attempt it speaks for was bound, in an OPEN Session    *)
(* and the latest of its Task, then and now.  A call that another writer   *)
(* overtook is never recorded.                                             *)
ObservationsAreCurrent ==
    \A i \in FactsAt(HeadSeq, {"observed"}) :
        LET f == stream[i]
        IN  /\ \E s \in sent : s.request = f.id /\ s.attempt = f.from /\ s.at = i - 1
            /\ SessionOpen(f.session, i) /\ IsLatest(f.from, i) /\ BindingOf(f.from, i) # {}

(* Whoever is answered, after a retry as well, is told of a record of its  *)
(* own request and its own Attempt, and the record is in the log.          *)
AnswersAreOfTheAsker ==
    \A t \in told : /\ t.got.id = t.request /\ t.got.from = t.attempt
                    /\ \E i \in 1..HeadSeq : stream[i] = t.got
=============================================================================
