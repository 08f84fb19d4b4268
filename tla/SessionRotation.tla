--------------------------- MODULE SessionRotation ---------------------------
(***************************************************************************)
(* Rotation of the OpenCode Session an ACTIVE Task runs in: g2_1 decides   *)
(* and keeps the durable records, autonomous_orchestration creates the     *)
(* external Session, r2_5 moves the Core Sessions and resumes the Attempt. *)
(* A call is some ten commands and four calls of the OpenCode server; it   *)
(* may die between any two of them, and the next call takes it up from     *)
(* what the Mission's events and commands say.                             *)
(*                                                                         *)
(* One Task of one Mission, whose first Attempt runs in Session 1.         *)
(* Commands are answered one at a time (MissionLog) and carry ids that a   *)
(* repeated call computes again.  The OpenCode server and the Mission's    *)
(* other writers are external.                                             *)
(***************************************************************************)
EXTENDS MissionLog, FiniteSetsExt

CONSTANTS
    Callers,           \* the control loop's ticks and the product actions
    FirstStatus,       \* what Session 1 may be when the first rotation begins
    OtherEvents,       \* events other components may write meanwhile
    MaxOthers,         \* bound on the events they write
    MaxSessions,       \* bound on the Sessions OpenCode creates
    MaxAttempts,       \* no rotation is begun beyond this ordinal
    MaxCrashes         \* bound on callers that die

CoreEvents == {"opened", "suspended", "closed", "failed"}

ASSUME SessionRotationAssumption ==
    /\ FirstStatus \subseteq CoreEvents
    /\ OtherEvents \subseteq {"other", "task_left", "task_session_closed"}
    /\ {MaxOthers, MaxSessions, MaxAttempts, MaxCrashes} \subseteq Nat

VARIABLES
    phase,             \* where each caller is in rotate_session
    job,               \* what it has read so far
    opencode,          \* external: its Sessions, with the token in their title
    created,           \* external: how many it has created
    briefed,           \* external: the Sessions that were sent the ContextPack
    crashes

calls == <<phase, job>>
world == <<opencode, created, briefed>>
vars  == <<log, calls, world, crashes>>

NoSession == 0
Sessions  == 1..MaxSessions

-----------------------------------------------------------------------------
(* The state the reducers build from the first n events.  A rotation and   *)
(* the provision token of its successor are named by the predecessor.      *)

Event(type, s, about) == [type |-> type, session |-> s, about |-> about]
Of(type, about, n) == {i \in 1..n : stream[i].type = type /\ stream[i].about = about}

CoreStatus(s, n) ==
    LET turns == {i \in 1..n : stream[i].session = s /\ stream[i].type \in CoreEvents}
    IN  IF turns = {} THEN "none" ELSE stream[Max(turns)].type

Attempts(n) == {i \in 1..n : stream[i].type = "attempt"}
Latest(n)   == LET a == stream[Max(Attempts(n))] IN [session |-> a.session, ordinal |-> a.about]
TaskActive(n) == \A i \in 1..n : stream[i].type # "task_left"

RotationRequested(p, n) == Of("rotation_requested", p, n) # {}
RotationCompleted(p, n) == Of("rotation_completed", p, n) # {}
Pending(n) == {i \in 1..n : /\ stream[i].type = "rotation_requested"
                            /\ ~RotationCompleted(stream[i].about, n)}
ProvisionRequested(p, n) == Of("provision_requested", p, n) # {}

(* The Session the provision is BOUND to: every binding replaces the one   *)
(* before it.                                                              *)
BoundTo(p, n) ==
    LET bindings == Of("provision_bound", p, n)
    IN  IF bindings = {} THEN NoSession ELSE stream[Max(bindings)].session

-----------------------------------------------------------------------------
NoJob == [predecessor |-> NoSession, source |-> NoSession, ordinal |-> 0,
          successor |-> NoSession, mode |-> "none", cursor |-> 0, sending |-> FALSE]

(* A dispatch asks for the successor's provision before it rotates.        *)
Init ==
    /\ rows = {}
    /\ \E status \in FirstStatus, dispatched \in BOOLEAN :
          stream = << Event("opened", 1, 0), Event("attempt", 1, 1) >>
                   \o (IF status = "opened" THEN << >> ELSE << Event(status, 1, 0) >>)
                   \o (IF dispatched THEN << Event("provision_requested", NoSession, 1) >>
                       ELSE << >>)
    /\ phase = [c \in Callers |-> "idle"]
    /\ job = [c \in Callers |-> NoJob]
    /\ opencode = {[session |-> 1, token |-> NoSession]}
    /\ created = 1
    /\ briefed = {1}
    /\ crashes = 0

(* Go on with what was learned, or return, raise or die.                   *)
Goto(c, p, j) == /\ phase' = [phase EXCEPT ![c] = p]
                 /\ job' = [job EXCEPT ![c] = j]
Leave(c) == Goto(c, "idle", NoJob)

-----------------------------------------------------------------------------
(* The commands of a rotation: their ids and what their handlers make of   *)
(* them at the head.                                                       *)

OperationId(j, step) == <<"operation", j.ordinal + 1, step>>
Plain == [session |-> NoSession, mode |-> "none"]
Request(id, intent, facts) == [id |-> id, intent |-> intent, facts |-> facts]

MoveFacts(s, from, to) ==
    IF CoreStatus(s, HeadSeq) \in from THEN << Event(to, s, 0) >> ELSE << >>

(* execution_resume: what the service checks at the cursor, and the        *)
(* handler again at the head.                                              *)
Resumable(j, n) ==
    /\ TaskActive(n) /\ CoreStatus(j.successor, n) = "opened"
    /\ Latest(n) = [session |-> j.source, ordinal |-> j.ordinal]

CommandOf(c) ==
    LET j == job[c]
        p == j.predecessor
    IN  CASE phase[c] = "rotation" ->
               Request(<<"rotation", p, "REQUEST">>, Plain,
                       << Event("rotation_requested", NoSession, p) >>)
          [] phase[c] = "provision" ->
               Request(<<"provision", p, "REQUEST">>, Plain,
                       << Event("provision_requested", NoSession, p) >>)
          [] phase[c] = "transition" ->
               Request(OperationId(j, j.mode), Plain,
                       IF j.mode = "SUSPEND"
                       THEN MoveFacts(j.source, {"opened"}, "suspended")
                       ELSE MoveFacts(j.source, {"opened", "suspended"}, "closed"))
          [] phase[c] = "opening" ->
               Request(OperationId(j, "OPEN"), [session |-> j.successor, mode |-> j.mode],
                       MoveFacts(j.successor, {"none"}, "opened"))
          [] phase[c] = "resuming" ->
               Request(OperationId(j, "RESUME"), [session |-> j.successor, mode |-> "none"],
                       IF Resumable(j, HeadSeq)
                       THEN << Event("attempt", j.successor, j.ordinal + 1) >> ELSE << >>)
          [] phase[c] = "bind" ->
               Request(<<"provision", p, "BIND", j.successor>>, Plain,
                       << Event("provision_bound", j.successor, p) >>)
          [] phase[c] = "close" ->
               Request(<<"rotation", p, "CLOSE">>, Plain,
                       MoveFacts(p, {"opened", "suspended"}, "closed"))
          [] phase[c] = "complete" ->
               Request(<<"rotation", p, "COMPLETE", j.successor>>, Plain,
                       << Event("rotation_completed", j.successor, p) >>)

(* Fault: the predecessor is not closed.                                   *)
AfterWithoutClose ==
    [rotation |-> "provisioning", provision |-> "recheck", transition |-> "opening",
     opening |-> "resuming", resuming |-> "context", bind |-> "complete",
     close |-> "delete", complete |-> "idle"]

(* What is done after a command that was accepted.                         *)
After == [rotation |-> "provisioning", provision |-> "recheck", transition |-> "opening",
          opening |-> "resuming", resuming |-> "context", bind |-> "closing",
          close |-> "delete", complete |-> "idle"]

(* The step answered at seq is done.                                       *)
Proceed(c, seq) ==
    IF phase[c] = "complete" THEN Leave(c)
    ELSE Goto(c, After[phase[c]], [job[c] EXCEPT !.cursor = seq, !.sending = FALSE])

Stored(id) == {row \in rows : row.command_id = id}

(* RuntimeService.execute.  A refused command leaves its row behind.       *)
Send(c) ==
    LET request == CommandOf(c)
        cmd == Command(request.id, NoKey, job[c].cursor, request.intent)
        answer == Answer(cmd, request.facts, "REFUSED")
    IN  /\ job[c].sending
        /\ Execute(cmd, request.facts, "REFUSED")
        /\ IF answer.ok THEN Proceed(c, answer.last_seq) ELSE Leave(c)
        /\ UNCHANGED <<world, crashes>>

-----------------------------------------------------------------------------
(* g2_1.rotate_session up to the Sessions.                                 *)

(* Fault: the rotation is not asked for before it is begun.                *)
BeginUnasked(c) ==
    /\ phase[c] = "idle"
    /\ Latest(HeadSeq).ordinal < MaxAttempts
    /\ Goto(c, "provisioning", [NoJob EXCEPT !.predecessor = Latest(HeadSeq).session])
    /\ UNCHANGED <<log, world, crashes>>

(* A pending rotation is taken up before a new one is asked for.           *)
Begin(c) ==
    /\ phase[c] = "idle"
    /\ LET latest == Latest(HeadSeq)
       IN  IF Pending(HeadSeq) # {}
           THEN Goto(c, "provisioning",
                     [NoJob EXCEPT !.predecessor = stream[Max(Pending(HeadSeq))].about])
           ELSE /\ ~RotationCompleted(latest.session, HeadSeq)
                /\ latest.ordinal < MaxAttempts
                /\ Goto(c, "rotation", [NoJob EXCEPT !.predecessor = latest.session])
    /\ UNCHANGED <<log, world, crashes>>

(* Is the effect of the next command there already?  Nobody asks again     *)
(* where it is sent.                                                       *)
CheckEffect(c) ==
    LET j == job[c]
        bound == BoundTo(j.predecessor, HeadSeq)
    IN  /\ \/ /\ phase[c] = "provisioning"
              /\ Goto(c, IF ProvisionRequested(j.predecessor, HeadSeq) THEN "recheck"
                         ELSE "provision", j)
           \/ /\ phase[c] = "binding"
              /\ IF bound = NoSession THEN Goto(c, "bind", j)
                 ELSE IF bound = j.successor THEN Goto(c, "closing", j)
                 ELSE Leave(c)
           \/ /\ phase[c] = "closing"
              /\ Goto(c, IF CoreStatus(j.predecessor, HeadSeq) = "closed" THEN "delete"
                         ELSE "close", j)
        /\ UNCHANGED <<log, world, crashes>>

(* The commands of g2_1 take the head of that instant as expected_seq.     *)
ReadHead(c) ==
    /\ phase[c] \in {"rotation", "provision", "bind", "close", "complete"}
    /\ ~job[c].sending
    /\ Goto(c, phase[c], [job[c] EXCEPT !.cursor = HeadSeq, !.sending = TRUE])
    /\ UNCHANGED <<log, world, crashes>>

(* Fault: a Session that was opened for the rotation is taken for the one  *)
(* the Attempt resumed in.                                                 *)
RecheckSession(c) ==
    LET j == job[c]
        open == {x.session : x \in {y \in opencode : /\ y.token = j.predecessor
                                                     /\ CoreStatus(y.session, HeadSeq) = "opened"}}
    IN  /\ phase[c] = "recheck"
        /\ IF open = {} THEN Goto(c, "listing", j)
           ELSE Goto(c, "context", [j EXCEPT !.successor = Max(open)])
        /\ UNCHANGED <<log, world, crashes>>

(* If the Attempt has moved on to a successor already, an earlier call     *)
(* died after that: what is left of its rotation is done.                  *)
Recheck(c) ==
    LET j == job[c]
        latest == Latest(HeadSeq)
    IN  /\ phase[c] = "recheck"
        /\ CASE latest.session = j.predecessor -> Goto(c, "listing", j)
             [] /\ latest.session # j.predecessor
                /\ CoreStatus(latest.session, HeadSeq) = "opened"
                /\ [session |-> latest.session, token |-> j.predecessor] \in opencode ->
                   Goto(c, "context", [j EXCEPT !.successor = latest.session])
             [] OTHER -> Leave(c)
        /\ UNCHANGED <<log, world, crashes>>

(* Fault: a Session that bears the token is not looked for.                *)
ListNothing(c) ==
    LET latest == Latest(HeadSeq)
    IN  /\ phase[c] = "listing"
        /\ Goto(c, "creating", [job[c] EXCEPT !.source = latest.session, !.ordinal = latest.ordinal])
        /\ UNCHANGED <<log, world, crashes>>

(* autonomous_orchestration.rotate_session reads the latest Attempt anew;  *)
(* create_session looks for a Session that bears the token.                *)
List(c) ==
    LET latest == Latest(HeadSeq)
        j == [job[c] EXCEPT !.source = latest.session, !.ordinal = latest.ordinal]
        matches == {x.session : x \in {y \in opencode : y.token = j.predecessor}}
    IN  /\ phase[c] = "listing"
        /\ CASE matches = {} -> Goto(c, "creating", j)
             [] \E s \in matches : matches = {s} ->
                   Goto(c, "deciding", [j EXCEPT !.successor = CHOOSE s \in matches : TRUE])
             [] OTHER -> Leave(c)
        /\ UNCHANGED <<log, world, crashes>>

Create(c) ==
    /\ phase[c] = "creating" /\ created < MaxSessions
    /\ created' = created + 1
    /\ opencode' = opencode \cup {[session |-> created + 1, token |-> job[c].predecessor]}
    /\ Goto(c, "deciding", [job[c] EXCEPT !.successor = created + 1])
    /\ UNCHANGED <<log, briefed, crashes>>

-----------------------------------------------------------------------------
(* r2_5.rotate_session: predecessor out, successor in, Attempt resumed.    *)

(* Fault: the predecessor is left as it is.                                *)
DecideToOpen(c) ==
    LET j == job[c]
        opened == Stored(OperationId(j, "OPEN"))
    IN  /\ phase[c] = "deciding"
        /\ IF \/ j.successor = j.source
              \/ \E row \in opened : row.fingerprint.intent.session # j.successor
           THEN Leave(c)
           ELSE Goto(c, "opening", [j EXCEPT !.cursor = HeadSeq])
        /\ UNCHANGED <<log, world, crashes>>

(* Which way the predecessor goes: as the operation's stored commands say, *)
(* else by its status.  One step: the caller's expected_seq, read before,  *)
(* is compared with the head at the first command.                         *)
Decide(c) ==
    LET j == job[c]
        opened == Stored(OperationId(j, "OPEN"))
        moves == {m \in {"SUSPEND", "CLOSE"} : Stored(OperationId(j, m)) # {}}
        told == {row.fingerprint.intent.mode : row \in opened}
        durable == IF moves # {} THEN moves ELSE told
        status == CoreStatus(j.source, HeadSeq)
        mode == IF durable # {} THEN CHOOSE m \in durable : TRUE
                ELSE CASE status = "opened"    -> "SUSPEND"
                       [] status = "suspended" -> "CLOSE"
                       [] OTHER                -> "ALREADY_TERMINAL"
    IN  /\ phase[c] = "deciding"
        /\ IF \/ j.successor = j.source
              \/ moves = {"SUSPEND", "CLOSE"}
              \/ \E row \in opened : row.fingerprint.intent.session # j.successor
              \/ moves # {} /\ told \notin {{}, moves}
              \/ durable = {"ALREADY_TERMINAL"}
           THEN Leave(c)
           ELSE Goto(c, IF mode = "ALREADY_TERMINAL" THEN "opening" ELSE "transition",
                     [j EXCEPT !.mode = mode, !.cursor = HeadSeq])
        /\ UNCHANGED <<log, world, crashes>>

(* _run_step and _run_resume_step: a stored command is answered as it was, *)
(* whatever has happened since; a new one is sent only if no one else has  *)
(* written since the step before it.                                       *)
CheckStep(c) ==
    LET j == job[c]
        stored == Stored(CommandOf(c).id)
        ready == IF phase[c] = "resuming" THEN Resumable(j, j.cursor) ELSE HeadSeq = j.cursor
    IN  /\ phase[c] \in {"transition", "opening", "resuming"} /\ ~j.sending
        /\ CASE stored # {} ->
                   LET row == CHOOSE r \in stored : TRUE
                   IN  IF row.answer.ok THEN Proceed(c, row.answer.last_seq) ELSE Leave(c)
             [] stored = {} /\ ready -> Goto(c, phase[c], [j EXCEPT !.sending = TRUE])
             [] OTHER -> Leave(c)
        /\ UNCHANGED <<log, world, crashes>>

-----------------------------------------------------------------------------
(* g2_1.rotate_session from there on.                                      *)

IsAlive(s) == \E x \in opencode : x.session = s

(* send_context: the successor is told what to resume.                     *)
SendContext(c) ==
    /\ phase[c] = "context"
    /\ IF IsAlive(job[c].successor)
       THEN /\ briefed' = briefed \cup {job[c].successor}
            /\ Goto(c, "binding", job[c])
       ELSE Leave(c) /\ UNCHANGED briefed
    /\ UNCHANGED <<log, opencode, created, crashes>>

(* The predecessor is deleted, or OpenCode fails and no one minds.         *)
Delete(c) ==
    /\ phase[c] = "delete"
    /\ opencode' \in {opencode, {x \in opencode : x.session # job[c].predecessor}}
    /\ Goto(c, "complete", job[c])
    /\ UNCHANGED <<log, created, briefed, crashes>>

-----------------------------------------------------------------------------
Crash(c) ==
    /\ phase[c] # "idle" /\ crashes < MaxCrashes
    /\ crashes' = crashes + 1
    /\ Leave(c)
    /\ UNCHANGED <<log, world>>

(* Another component writes to the Mission; the Task's outcome is reported *)
(* and its Session closed for that.                                        *)
OthersWrite ==
    LET latest == Latest(HeadSeq).session
    IN  /\ Cardinality({i \in 1..HeadSeq : stream[i].type \in {"other", "task_left"}}) < MaxOthers
        /\ \E type \in OtherEvents :
              /\ CASE type = "other" -> TRUE
                   [] type = "task_left" -> TaskActive(HeadSeq)
                   [] OTHER -> ~TaskActive(HeadSeq) /\ CoreStatus(latest, HeadSeq) \in {"opened", "suspended"}
              /\ stream' = Append(stream, IF type = "task_session_closed"
                                          THEN Event("closed", latest, 0)
                                          ELSE Event(type, NoSession, 0))
        /\ UNCHANGED <<rows, calls, world, crashes>>

Step(c) ==
    \/ Begin(c) \/ CheckEffect(c) \/ ReadHead(c) \/ Send(c) \/ Recheck(c)
    \/ List(c) \/ Create(c) \/ Decide(c) \/ CheckStep(c) \/ SendContext(c) \/ Delete(c)

Next ==
    \/ \E c \in Callers : Step(c) \/ Crash(c)
    \/ OthersWrite

(* The control loop calls again.                                           *)
Spec == Init /\ [][Next]_vars /\ \A c \in Callers : WF_vars(Step(c))

-----------------------------------------------------------------------------
(* Properties.                                                             *)

Phases == {"idle", "recheck", "listing", "creating", "deciding", "context", "delete",
           "provisioning", "binding", "closing"} \cup DOMAIN After

(* A Task has one worker: whatever dies or races, never two of its         *)
(* Sessions are OPEN.                                                      *)
OneOpenSession ==
    Cardinality({s \in 1..created : CoreStatus(s, HeadSeq) = "opened"}) <= 1

(* "Never rotate the successor again": every Attempt but the first stands  *)
(* for a rotation of its own, and their ordinals leave no gap.  This holds *)
(* of one caller and its recoveries, not of two.                           *)
OneAttemptPerRotation ==
    /\ {stream[i].about : i \in Attempts(HeadSeq)} = 1..Cardinality(Attempts(HeadSeq))
    /\ \A i \in Attempts(HeadSeq) :
          stream[i].about > 1 => RotationRequested(Latest(i - 1).session, i - 1)

(* "Two-phase completion: successor exists + ContextPack is accepted, then *)
(* predecessor closes, and only then RotationRequest becomes COMPLETED":   *)
(* the successor it names was briefed and bound to this rotation.  That it *)
(* is bound alone, or still, nobody sees to in the transaction that binds. *)
TwoPhaseCompletion ==
    \A i \in 1..HeadSeq : stream[i].type = "rotation_completed" =>
        /\ stream[i].session \in briefed
        /\ \E b \in Of("provision_bound", stream[i].about, i - 1) :
              stream[b].session = stream[i].session
        /\ CoreStatus(stream[i].about, i - 1) = "closed"

(* The successor a completed rotation names is the Session that the Task's *)
(* Attempt resumed in when it left the predecessor.                        *)
SuccessorIsTheWorker ==
    \A i \in 1..HeadSeq : stream[i].type = "rotation_completed" =>
        \E a \in Attempts(i - 1) \ {2} : /\ stream[a].session = stream[i].session
                                        /\ Latest(a - 1).session = stream[i].about

(* Every rotation the control loop sees the need for is completed, by it   *)
(* or by the loop that is started after it.                                *)
RotationFinishes == <>(Latest(HeadSeq).ordinal = MaxAttempts /\ Pending(HeadSeq) = {})
=============================================================================
