------------------------------ MODULE CommandBus ------------------------------
(***************************************************************************)
(* durable_core/command_bus.py over the tables of durable_core/schema.py.  *)
(*                                                                         *)
(* Callers in several processes (the CLI, the server, recovery) share one  *)
(* SQLite file.  A call of CommandBus.execute is one BEGIN IMMEDIATE       *)
(* transaction: it looks the command up, replays the Mission's stream,     *)
(* lets the handler of the command's owner propose events, and writes the  *)
(* command row, the events and the projection together, or nothing.        *)
(*                                                                         *)
(* The bus knows nothing of what a command means: Handle and Reduce are    *)
(* parameters, as command and event owners are looked up in the            *)
(* ExtensionRegistry.  Tables are sets of rows, so that the constraints of *)
(* the schema are statements about rows and not the shape of the model.    *)
(*                                                                         *)
(* SQLite itself is external: one writer at a time holds the lock from     *)
(* BEGIN IMMEDIATE to COMMIT or ROLLBACK, a COMMIT is atomic and durable,  *)
(* and a process that dies rolls its transaction back.                     *)
(***************************************************************************)
EXTENDS Integers, SequencesExt

CONSTANTS
    Missions, CommandIds, Keys, Intents, Events, Clients,
    Envelopes,      \* the commands callers may send, retries included
    NoKey,          \* idempotency_key is None
    NoCommand,      \* duplicate_of is None
    NoClient,       \* nobody holds the write lock
    NoEnvelope,     \* a caller that is not in a call
    InitialState,   \* the replay of an empty stream
    ReducerRaised,  \* a reducer raised while folding a stream
    Handle(_, _),   \* Handle(intent, state): the proposed events, <<>> if it raised
    Reduce(_, _),   \* Reduce(state, event): the next state, or ReducerRaised
    Creates(_)      \* Creates(intent): the command is CREATE_MISSION

EnvelopeType ==
    [command_id : CommandIds, idempotency_key : Keys \cup {NoKey},
     mission_id : Missions, expected_seq : Nat, intent : Intents]

ASSUME BusAssumption ==
    /\ Envelopes \subseteq EnvelopeType
    /\ NoKey \notin Keys
    /\ NoCommand \notin CommandIds
    /\ NoClient \notin Clients
    /\ NoEnvelope \notin Envelopes
    /\ InitialState # ReducerRaised

VARIABLES
    commands,       \* table commands
    events,         \* table events
    projection,     \* table mission_projection and what is rebuilt with it
    lock,           \* who holds SQLite's write lock
    phase,          \* where each caller is in execute()
    envelope,       \* the command it is executing
    proposed,       \* pending: the events its handler produced
    result          \* the CommandResult it is about to store or return

tables == <<commands, events, projection>>
calls  == <<phase, envelope, proposed, result>>
vars   == <<tables, lock, calls>>

-----------------------------------------------------------------------------
(* Rows.  The fingerprint covers everything the handler sees, and neither  *)
(* the command_id nor the idempotency_key.                                 *)

Fingerprint(e) == [mission_id |-> e.mission_id, expected_seq |-> e.expected_seq,
                   intent |-> e.intent]

Outcomes == {"APPLIED", "REJECTED", "DUPLICATE", "RAISED"}
ErrorCodes == {"NONE", "COMMAND_ID_CONFLICT", "IDEMPOTENCY_CONFLICT",
               "EXPECTED_SEQ_MISMATCH", "MISSION_NOT_FOUND", "HANDLER_REFUSED",
               "STORAGE_BUSY", "STORAGE_FAILURE"}

Result(outcome, code, first, last, owner) ==
    [outcome |-> outcome, error_code |-> code, first_seq |-> first,
     last_seq |-> last, duplicate_of |-> owner]
Rejected(code) == Result("REJECTED", code, 0, 0, NoCommand)
Raised  == Result("RAISED", "NONE", 0, 0, NoCommand)
Unknown == Rejected("NONE")      \* no answer yet

Row(e, r) == [command_id |-> e.command_id, idempotency_key |-> e.idempotency_key,
              fingerprint |-> Fingerprint(e), result |-> r]

Applied(row) == row.result.outcome = "APPLIED"
RowsOf(e) == {row \in commands : row.command_id = e.command_id}
(* Fault: nobody looks the idempotency_key up, and no index guards it.     *)
KeyOwnersForgotten(e) == {row \in commands : row.command_id = e.command_id /\ FALSE}
KeyOwners(e) ==
    {row \in commands : /\ e.idempotency_key # NoKey
                        /\ row.idempotency_key = e.idempotency_key
                        /\ Applied(row)}
Fresh(e) == RowsOf(e) = {} /\ KeyOwners(e) = {}

(* The event stream of a Mission, ORDER BY seq.                            *)
Stream(m) == {ev \in events : ev.mission_id = m}
HeadSeq(m) == Max({ev.seq : ev \in Stream(m)} \cup {0})
EventAt(m, i) == CHOOSE ev \in Stream(m) : ev.seq = i
Facts(m) == [i \in 1..HeadSeq(m) |-> EventAt(m, i).event]
Reduced(state, facts) == FoldLeft(Reduce, state, facts)
Replay(m) == Reduced(InitialState, Facts(m))

(* What the handler of the command's owner proposes on the replayed state. *)
(* Events its Extension does not own are refused (EVENT_NOT_OWNED).        *)
Pending(e) ==
    LET ps == Handle(e.intent, Replay(e.mission_id))
    IN  IF ps \in Seq(Events) THEN ps ELSE << >>
StateAfter(m, ps) == Reduced(Replay(m), ps)

(* The reasons to refuse a command that is neither known nor a duplicate.  *)
RefusalCode(e) ==
    IF Creates(e.intent)
    THEN IF e.expected_seq # 0 THEN "EXPECTED_SEQ_MISMATCH"
         ELSE IF Pending(e) = << >> THEN "HANDLER_REFUSED" ELSE "NONE"
    ELSE IF Replay(e.mission_id) = InitialState THEN "MISSION_NOT_FOUND"
         ELSE IF e.expected_seq # HeadSeq(e.mission_id) THEN "EXPECTED_SEQ_MISMATCH"
         ELSE IF Pending(e) = << >> THEN "HANDLER_REFUSED" ELSE "NONE"

(* append_events: the events of a command, numbered from the head on.      *)
EventRows(e, ps, head) ==
    {[mission_id |-> e.mission_id, seq |-> head + i, command_id |-> e.command_id,
      event |-> ps[i]] : i \in DOMAIN ps}

(* The constraints the writes of a transaction would trip over: the        *)
(* primary key and the unique index of commands, and the contiguity check  *)
(* and unique(mission_id, seq) of events.                                  *)
ConstraintBites(e, r) ==
    \/ RowsOf(e) # {}
    \/ r.outcome = "APPLIED" /\ KeyOwners(e) # {}
    \/ r.outcome = "APPLIED" /\ r.first_seq # HeadSeq(e.mission_id) + 1

-----------------------------------------------------------------------------
Init ==
    /\ commands = {} /\ events = {}
    /\ projection = [m \in Missions |-> [seq |-> 0, state |-> InitialState]]
    /\ lock = NoClient
    /\ phase = [c \in Clients |-> "idle"]
    /\ envelope = [c \in Clients |-> NoEnvelope]
    /\ proposed = [c \in Clients |-> << >>]
    /\ result = [c \in Clients |-> Unknown]

(* A caller enters execute() with a command that normalize_command accepts *)
(* - a new one, or one it has sent before and has no answer to.            *)
Submit(c, e) ==
    /\ phase[c] = "idle"
    /\ phase' = [phase EXCEPT ![c] = "waiting"]
    /\ envelope' = [envelope EXCEPT ![c] = e]
    /\ UNCHANGED <<tables, lock, proposed, result>>

(* Fault: waiting without a busy_timeout.                                  *)
BusyNever(c) ==
    /\ phase[c] = "waiting" /\ lock = c
    /\ UNCHANGED vars

(* BEGIN IMMEDIATE: takes the write lock, or gives up after busy_timeout.  *)
Begin(c) ==
    /\ phase[c] = "waiting" /\ lock = NoClient
    /\ lock' = c
    /\ phase' = [phase EXCEPT ![c] = "locked"]
    /\ UNCHANGED <<tables, envelope, proposed, result>>

Busy(c) ==
    /\ phase[c] = "waiting" /\ lock # NoClient
    /\ phase' = [phase EXCEPT ![c] = "answering"]
    /\ result' = [result EXCEPT ![c] = Rejected("STORAGE_BUSY")]
    /\ UNCHANGED <<tables, lock, envelope, proposed>>

(* A transaction that has written nothing, or is rolled back, ends with    *)
(* its answer.                                                             *)
Answer(c, r) ==
    /\ phase' = [phase EXCEPT ![c] = "answering"]
    /\ result' = [result EXCEPT ![c] = r]
    /\ lock' = NoClient
    /\ UNCHANGED <<tables, envelope, proposed>>

(* Fault: the stored result whatever the command says now.                 *)
AnswerFromRowUnchecked(c) ==
    /\ phase[c] = "locked"
    /\ \E row \in RowsOf(envelope[c]) : Answer(c, row.result)

(* The command_id is known: its stored result, verbatim, or a conflict.    *)
AnswerFromRow(c) ==
    /\ phase[c] = "locked"
    /\ \E row \in RowsOf(envelope[c]) :
        Answer(c, IF row.fingerprint = Fingerprint(envelope[c])
                  THEN row.result
                  ELSE Rejected("COMMAND_ID_CONFLICT"))

(* The idempotency_key belongs to an applied command.                      *)
AnswerFromKeyOwner(c) ==
    /\ phase[c] = "locked"
    /\ RowsOf(envelope[c]) = {}
    /\ \E row \in KeyOwners(envelope[c]) :
        Answer(c, IF row.fingerprint = Fingerprint(envelope[c])
                  THEN Result("DUPLICATE", "NONE", row.result.first_seq,
                              row.result.last_seq, row.command_id)
                  ELSE Rejected("IDEMPOTENCY_CONFLICT"))

Decide(c, r, ps) ==
    /\ phase' = [phase EXCEPT ![c] = "writing"]
    /\ result' = [result EXCEPT ![c] = r]
    /\ proposed' = [proposed EXCEPT ![c] = ps]
    /\ UNCHANGED <<tables, lock, envelope>>

(* Every refusal of a fresh command is stored under its command_id.        *)
Refuse(c) ==
    /\ phase[c] = "locked" /\ Fresh(envelope[c])
    /\ Replay(envelope[c].mission_id) # ReducerRaised
    /\ RefusalCode(envelope[c]) # "NONE"
    /\ Decide(c, Rejected(RefusalCode(envelope[c])), << >>)

(* Fault: the handler's events are not reduced before they are written.    *)
AcceptUnreduced(c) ==
    LET e == envelope[c]
        head == HeadSeq(e.mission_id)
    IN  /\ phase[c] = "locked" /\ Fresh(e) /\ RefusalCode(e) = "NONE"
        /\ Decide(c, Result("APPLIED", "NONE", head + 1, head + Len(Pending(e)), NoCommand),
                  Pending(e))

Accept(c) ==
    LET e == envelope[c]
        head == HeadSeq(e.mission_id)
    IN  /\ phase[c] = "locked" /\ Fresh(e)
        /\ Replay(e.mission_id) # ReducerRaised
        /\ RefusalCode(e) = "NONE"
        /\ StateAfter(e.mission_id, Pending(e)) # ReducerRaised
        /\ Decide(c, Result("APPLIED", "NONE", head + 1, head + Len(Pending(e)), NoCommand),
                  Pending(e))

(* The reducer raises on what the handler proposed, or on the stream as it *)
(* stands: the transaction is rolled back and the caller gets the error.   *)
ReducerRaises(c) ==
    LET e == envelope[c]
    IN  /\ phase[c] = "locked" /\ Fresh(e)
        /\ \/ Replay(e.mission_id) = ReducerRaised
           \/ /\ RefusalCode(e) = "NONE"
              /\ StateAfter(e.mission_id, Pending(e)) = ReducerRaised
        /\ Answer(c, Raised)

(* What COMMIT leaves in the tables.                                       *)
WithRow(e, r) == commands \cup {Row(e, r)}

Projected(m, r, ps) ==
    IF ps = << >> THEN projection
    ELSE [projection EXCEPT ![m] = [seq |-> r.last_seq, state |-> StateAfter(m, ps)]]

(* The inserts, the projection and COMMIT.                                 *)
Commit(c) ==
    LET e == envelope[c]
        m == e.mission_id
    IN  /\ phase[c] = "writing"
        /\ ~ConstraintBites(e, result[c])
        /\ commands' = WithRow(e, result[c])
        /\ events' = events \cup EventRows(e, proposed[c], HeadSeq(m))
        /\ projection' = Projected(m, result[c], proposed[c])
        /\ lock' = NoClient
        /\ phase' = [phase EXCEPT ![c] = "answering"]
        /\ UNCHANGED <<envelope, proposed, result>>

(* SQLite fails - a full disk, an I/O error, a constraint of the schema -  *)
(* and what the transaction has written is rolled back.                    *)
StorageFails(c) ==
    /\ phase[c] \in {"locked", "writing"}
    /\ Answer(c, Rejected("STORAGE_FAILURE"))

(* A call ends, and its caller forgets it.                                 *)
Leave(c) ==
    /\ phase' = [phase EXCEPT ![c] = "idle"]
    /\ envelope' = [envelope EXCEPT ![c] = NoEnvelope]
    /\ proposed' = [proposed EXCEPT ![c] = << >>]
    /\ result' = [result EXCEPT ![c] = Unknown]

(* execute() returns; the caller may now send its next command.            *)
Return(c) ==
    /\ phase[c] = "answering"
    /\ Leave(c)
    /\ UNCHANGED <<tables, lock>>

(* Fault: each insert is a transaction of its own.                         *)
CrashHalfway(c) ==
    /\ phase[c] # "idle"
    /\ Leave(c)
    /\ lock' = IF lock = c THEN NoClient ELSE lock
    /\ events' = IF phase[c] = "writing"
                 THEN events \cup EventRows(envelope[c], proposed[c],
                                            HeadSeq(envelope[c].mission_id))
                 ELSE events
    /\ UNCHANGED <<commands, projection>>

(* The process dies, or an injected failure raises, anywhere in execute(). *)
(* Before COMMIT everything is rolled back; after it only the answer is    *)
(* lost.                                                                   *)
Crash(c) ==
    /\ phase[c] # "idle"
    /\ Leave(c)
    /\ lock' = IF lock = c THEN NoClient ELSE lock
    /\ UNCHANGED tables

Execute(c) ==
    \/ Begin(c) \/ Busy(c)
    \/ AnswerFromRow(c) \/ AnswerFromKeyOwner(c)
    \/ Refuse(c) \/ Accept(c) \/ ReducerRaises(c)
    \/ Commit(c) \/ Return(c)

Next == \E c \in Clients :
    \/ \E e \in Envelopes : Submit(c, e)
    \/ Execute(c)
    \/ StorageFails(c)
    \/ Crash(c)

Spec == Init /\ [][Next]_vars

-----------------------------------------------------------------------------
(* Properties.                                                             *)

ResultType ==
    [outcome : Outcomes, error_code : ErrorCodes, first_seq : Nat, last_seq : Nat,
     duplicate_of : CommandIds \cup {NoCommand}]

(* Every table, and every caller's place in execute(), has its type.       *)
TypeOK ==
    /\ commands \subseteq
         [command_id : CommandIds, idempotency_key : Keys \cup {NoKey},
          fingerprint : [mission_id : Missions, expected_seq : Nat, intent : Intents],
          result : ResultType]
    /\ events \subseteq
         [mission_id : Missions, seq : Nat \ {0}, command_id : CommandIds, event : Events]
    /\ DOMAIN projection = Missions
    /\ lock \in Clients \cup {NoClient}
    /\ phase \in [Clients -> {"idle", "waiting", "locked", "writing", "answering"}]
    /\ envelope \in [Clients -> Envelopes \cup {NoEnvelope}]
    /\ \A c \in Clients : envelope[c] = NoEnvelope <=> phase[c] = "idle"
    /\ proposed \in [Clients -> Seq(Events)]
    /\ result \in [Clients -> ResultType]

(* The events of a Mission are numbered 1, 2, ... with no gap and no       *)
(* number used twice, whoever writes and whatever crashes.                 *)
StreamContiguous ==
    \A m \in Missions :
        /\ {ev.seq : ev \in Stream(m)} = 1..HeadSeq(m)
        /\ \A a, b \in Stream(m) : a.seq = b.seq => a = b

(* A command row and its events are in the store together: an APPLIED      *)
(* command owns exactly the events first_seq..last_seq of its Mission, a   *)
(* rejected one owns none, and no event lacks its command.                 *)
CommandsOwnTheirEvents ==
    /\ \A ev \in events : \E row \in commands :
          /\ Applied(row) /\ row.command_id = ev.command_id
          /\ row.fingerprint.mission_id = ev.mission_id
          /\ ev.seq \in row.result.first_seq..row.result.last_seq
    /\ \A row \in commands : Applied(row) =>
          /\ row.result.first_seq <= row.result.last_seq
          /\ row.result.first_seq..row.result.last_seq \subseteq
               {ev.seq : ev \in {x \in Stream(row.fingerprint.mission_id) :
                                    x.command_id = row.command_id}}

(* A command_id is answered for once, and at most one applied command      *)
(* holds an idempotency_key: a retry under a new command_id, by another    *)
(* caller or after a crash, does not apply the intent a second time.       *)
AppliedOncePerKey ==
    \A a, b \in commands :
        /\ a.command_id = b.command_id => a = b
        /\ /\ Applied(a) /\ Applied(b)
           /\ a.idempotency_key = b.idempotency_key /\ a.idempotency_key # NoKey
           => a = b

(* Optimistic concurrency: what is applied to a Mission follows directly on *)
(* the event its author had seen, so nothing that other callers appended   *)
(* in the meantime is overlooked.                                          *)
DecidedOnSeenState ==
    \A row \in commands :
        Applied(row) /\ ~Creates(row.fingerprint.intent)
            => row.result.first_seq = row.fingerprint.expected_seq + 1

(* What the handlers accept the reducers accept: no stream in the store    *)
(* makes a replay raise, which would stop its Mission for good.            *)
StreamsReplay == \A m \in Missions : Replay(m) # ReducerRaised

(* A caller that is told APPLIED or DUPLICATE can rely on it: the command, *)
(* or the one it repeats, is in the store with the events it was told of.  *)
AnswersAreDurable ==
    \A c \in Clients :
        /\ phase[c] = "answering"
        /\ result[c].outcome \in {"APPLIED", "DUPLICATE"}
        => \E row \in commands :
              /\ Applied(row)
              /\ row.fingerprint = Fingerprint(envelope[c])
              /\ row.result.first_seq = result[c].first_seq
              /\ row.result.last_seq = result[c].last_seq
              /\ row.command_id = IF result[c].outcome = "APPLIED"
                                  THEN envelope[c].command_id
                                  ELSE result[c].duplicate_of

(* The schema's constraints are a second line of defence only: what was    *)
(* decided under the lock can always be written.                           *)
DecisionsCanBeWritten ==
    \A c \in Clients : phase[c] = "writing" => ~ConstraintBites(envelope[c], result[c])

(* History is immutable: no step, rollback or crash of any caller changes  *)
(* or removes a stored verdict or event.                                   *)
HistoryIsImmutable == [][commands \subseteq commands' /\ events \subseteq events']_vars

(* Every call ends - with an answer, or with the death of its caller - even *)
(* when callers queue for the write lock.                                  *)
EveryCallEnds == \A c \in Clients : phase[c] = "waiting" ~> phase[c] = "idle"

-----------------------------------------------------------------------------
(* The bus implements the ledger: the command table is the set of verdicts *)
(* and the event table, read in the order of seq, the streams.  COMMIT is  *)
(* the instant of the verdict.                                             *)
Verdicts ==
    {[command_id |-> row.command_id, idempotency_key |-> row.idempotency_key,
      mission_id |-> row.fingerprint.mission_id, intent |-> row.fingerprint.intent,
      applied |-> Applied(row)] : row \in commands}
Streams ==
    [m \in Missions |-> [i \in 1..HeadSeq(m) |->
        [command_id |-> EventAt(m, i).command_id, event |-> EventAt(m, i).event]]]

Ledger == INSTANCE CommandLedger WITH verdicts <- Verdicts, streams <- Streams
LedgerSpec == Ledger!LedgerSpec
=============================================================================
