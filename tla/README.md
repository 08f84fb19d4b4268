# Verification of the ai-test runtime

TLA+ specifications of the runtime under
`src/workspace-template/ai-test/runtime/aitest_runtime` (called `R/` below),
model-checked with TLC on small instances, with theorems about the core that
hold for every instance and are checked by TLAPS.

The runtime is event-sourced: everything that happens to a *Mission* (its
Goals, Sessions, Plans, Tasks, tool executions, ...) is a command that one
SQLite transaction turns into numbered, immutable events. Extensions add their
own commands and events to the same stream. Several processes use one database
file at the same time, and each of them may die at any line.

## Inventory

| Component | State | Operations | Works with | What is hard | What makes it correct |
|---|---|---|---|---|---|
| `R/durable_core` Command Bus | `commands`, `events`, projection tables; SQLite's write lock | `CommandBus.execute` | every other component writes through it | concurrent callers, retries, crash between statements, rollback, a busy lock | one answer for each command id; one application for each idempotency key; contiguous streams; no half-written command |
| `R/durable_core` state machine | Mission, Goals, Sessions | 15 core commands; `reduce` | called by the bus inside its transaction | handler and reducer have rules of their own; long histories | they agree; completion is earned; ends are final |
| `R/durable_core` projections, `R/r1_5/recovery.py` | projection rows | verify, rebuild, `recover` | reads and overwrites the bus's tables while commands run | two reads at two instants; a rebuild beside writers | drift has a cause outside the runtime; RECOVERED is true |
| `R/tool_execution` | intents, facts, reconciliations, evidence | request, execute, record_outcome, reconcile, record_evidence | an adapter that acts on the world outside any transaction | crash around the effect, retry, head moved meanwhile, late outcome | intent before effect; one fact for each intent; confirmed is final |
| `R/r4_4/execution_bridge.py` | none | reconcile, then execute | `tool_execution` | what a failed reconciliation proves | no blind repeat |
| `R/work_graph` | Plans, Revisions, Tasks, dependencies, snapshots | 6 commands; `read_work_graph` | core Mission status; snapshot reads | revisions superseded while Tasks run; stale snapshots; cycles | closed Plans are settled; no circular wait; a snapshot read is the replay |
| `R/execution_resume` | Attempts in chains | START, RESUME, rehydrate | `work_graph`, Sessions, `execution_context` | Context read before the command; crash between commit and verification | one live chain for each Task; each Attempt begun in the state its Context shows |
| `R/provider_binding` | Bindings | bind | `execution_resume` | Attempt superseded meanwhile | one Binding for each Attempt, on the latest one |
| `R/execution_context` | none (a read at one seq) | build | read by `execution_resume` | stale cursor | anchored in the seq it names |
| `R/r2_4` Scheduler, bounded loop | none durable | select, dispatch, reconcile, activate | `work_graph`, an external dispatcher | lost answer after dispatch; repeated activation; gates and delegations in between | only ready Tasks are activated, and the world acts on none before; no turn begins behind a gate |
| `R/g2_1` Session routing and supervision, with `rotate_session` of `R/autonomous_orchestration.py` | routes, provision intents, rotation requests | request, bind, close orphan, rotate, reconcile, observe | OpenCode sessions outside the runtime, the Core Sessions, Attempts | a rotation is ten commands and four server calls with a process that may die in between; two processes rotate at once; ids that every retry computes again | one worker for each Task; one rotation for each predecessor; a rotation is completed with the Session that works, and always completed |
| `R/opencode_bridge` | bridge intents and observations | request, observe | a transport outside any transaction | the Mission moves while the transport is asked; ids that are taken | no observation another writer overtook; the answer belongs to its asker |
| `R/g4` | goal runs | execute, converge | tool execution, Goals | repeated evaluation, budget | converges or stops |
| `R/r2_5`, `R/r2_6` | stored steps of a rotation, subagent sessions, gates | rotate step by step, open, decide, continue | Sessions, Attempts | a stored step replayed by a caller that wants something else; decision racing expiry | the steps of one rotation agree; a gate stays replayable, a No is final |
| `R/r4_1` ... `R/r4_8`, the quality cycle | immutable records of campaigns, triggers, fixes, validations, readiness, learning | one command for each record; resumption of a bridge to the planner | the bus, the gate's linkage, the planner | what was current when it was read is superseded when it is used; identities that leave something out; a crash between request, answer and record | no forks, no revival, every result is an answer, every authority goes back to what was found |
| `R/r2_1` ... `R/r2_3`, `R/r2_7`, `R/r3_*`, `R/g3` | documents | validate and record | the bus | nothing beyond the bus | traceability |
| `R/g5` | none durable | correlate defects | reports | identity of a defect | - |
| Legacy runtime: `R/storage.py`, `scheduler.py`, `control_loop.py`, `session.py`, `mission.py`, `autonomous_orchestration.py` | its own SQLite tables | lease, turn, finish | the product entry | lost leases, restarts | one holder of a lease |
| `R/r1_5` (rest), CLI, server, connectors, packaging | files, ports | I/O | everything | - | - |

`PROJECT.json` lists the components with their source files and says which are
modelled, and the hazards with the line at which each bites.

## Modules

| Module | What it is |
|---|---|
| `MissionLifecycle` | The Mission, Goal and Session rules as pure operators: `CoreHandle` (handlers.py) from command and state to events, `CoreReduce` (reducer.py) from state and event to state. The two are written down separately, as in the code. |
| `MissionCore` | One Mission that executes these commands one after the other, with the properties of its lifecycle. |
| `CommandLedger` | What the Command Bus promises: a set of verdicts and a stream for each Mission, changed by one indivisible step for each command. |
| `CommandBus` | `CommandBus.execute` statement by statement, for any number of clients, with the database's write lock, rollback, crash and `STORAGE_BUSY`. The handlers and reducers are the constants `Handle` and `Reduce`. |
| `MCCommandBus` | `CommandBus` with the handlers and reducer of `MissionLifecycle` and two commands of an Extension. |
| `ProjectionRecovery` | `CommandBus` plus verification, `recover` and damage done to the projection from outside. |
| `MissionLog` | One Mission as the application services see it: commands answered one at a time (which `CommandLedger` states and `CommandBus` implements), each with stored answer and idempotency key. The Extension's handler is the parameter of `Answer`. The service modules below, all but `WorkGraph`, build on it. |
| `ToolExecution` | The Tool Execution service: its calls step by step, the external adapter, other writers, and the r4_4 bridge. |
| `WorkGraph` | The Work Graph's handlers with their search for cycles, its reducer and its snapshot read, over one Mission's stream. |
| `AttemptExecution` | execution_resume, provider_binding and opencode_bridge: Attempts, Bindings and the calls of the transport, for several callers beside other writers. |
| `SessionRotation` | The rotation of the OpenCode Session of a Task: g2_1's records, the steps of r2_5, the RESUME of execution_resume and the OpenCode server, for several callers that may die anywhere. |
| `HumanGate` | The gates of r2_6: service, handler and reducer, for several people. |
| `DispatchLoop` | The bounded loop of r2_4 behind the gates (it extends `HumanGate`), with the dispatch of a child of r2_5, workers and an external dispatcher. |
| `QualityRecords` | What the records of the quality cycle have in common: references to earlier records, and the cursor of a read. |
| `CampaignRules`, `ImpactRules`, `FixRules`, `ValidationRules`, `ReleaseRules` | The handlers and reducers of r4_1, r4_2, r4_3, r4_4 (post-fix validation) and r4_5, as operators on the stream. |
| `QualityCycle` | The services of these five components together on one Mission: look, read the head, send; and the resumption of an impact assessment up to the planner. |
| `ClosedLoop` | The quality cycle of r4_8, from registration to closure: service, handlers and reducer, for several callers; the authorities are external. |
| `MC*` | The instances TLC checks. |
| `MissionLogProofs` | Lemmas the proofs about services share: the outcomes of a command, how a stream grows, induction over the natural numbers in the form of sets. |
| `DurableCoreProofs` | The theorems about `CommandBus`, its implementation of `CommandLedger`, `ProjectionRecovery` and `MissionCore`. |
| `HumanGateProofs` | The theorems about `HumanGate` and about `DispatchLoop`, which extends it. |
| `ToolExecutionProofs`, `WorkGraphProofs`, `AttemptExecutionProofs`, `SessionRotationProofs` | The theorems about the module each is named for. |
| `QualityProofs` | The theorems about `QualityCycle` and about `ClosedLoop`. |

### How they correspond to the code

`CommandBus`. `commands`, `events` and `projection` are the tables as committed;
`lock` is SQLite's write lock, taken by `BEGIN IMMEDIATE` (`Begin`) and given
back by COMMIT, ROLLBACK or death. `phase[c]` is the place of caller `c` in
`execute()`: `waiting` (before BEGIN), `locked` (it decides), `writing` (the
decision is made, the INSERTs follow), `answering` (after COMMIT). The answers
are one action each, in the order of the code's early returns: `AnswerFromRow`
(the command id is known: the stored result, or COMMAND_ID_CONFLICT),
`AnswerFromKeyOwner` (DUPLICATE or IDEMPOTENCY_CONFLICT), `Refuse` (the row of a
REJECTED command *is* stored), `ReducerRaises` (rolled back, nothing stored),
`Accept`. `Commit` writes row, events and projection at once, because no other
connection sees them before; the crash before it leaves nothing, the crash
after it loses only the answer. What the code stores with a command but never
compares (actor, correlation id, times) is left out; `Fingerprint` keeps the
fields whose digest is compared, and leaves out command id and key as the code
does.

`MissionLifecycle`. A command is `[type, on, base, to]`, an event
`[type, on, base, revision, to]`. Session commands are allowed in a Mission that
has ended, as in the code; Goal commands are not.

`ProjectionRecovery`. `ReadEvents` and `Compare` are separate steps because
`verify_composed_projection` reads without a transaction. `Rebuild` is one step
because it holds the write lock from its first read to COMMIT. `Damage` is
external: a projection row changed with other tools.

`ToolExecution`. `Prepare` (preconditions at the seq the request names) and
`SendRequest`, `Invoke` (the adapter), `AssertHeadUnchanged`, `ReadHead` and
`RecordOutcome` are the separate steps of `execute()`; every one may be followed
by `Crash`. The world is `invocations`: how often each execution was carried
out. What the reducer makes of the stream is given by `Requested`, `Facts`,
`HasReconciliation`, `HasEvidence` as functions of a prefix of the stream. The
preconditions on Session, Task, Attempt and Binding are the single predicate
`Admissible`, which the events of other writers make false.

`WorkGraph`. Each action is one accepted command; its guard is the handler's,
and `Append1` reduces the event it proposes. The reducer's own rules are
`Fits`; that they never refuse is the theorem `HandlersAgree`, which is
why `Append1` does not repeat them. `SnapshotPlusTail` is the read that starts
at a snapshot: the code takes this path only when `work_graph` is the only
registered Extension (`_snapshot_base`). `TRANSITION_TASK` does not look at the
predecessors of a Task; dependency order is left to the scheduler of r2_4.

`AttemptExecution`. A call reads the state after the first `n` events, `n` being
the cursor the caller names (`Prepare*`), and `SubmitCommand` decides again at
the head with the same rules (`MayAttempt`, `MayBind`). A bridge request is
`PrepareCall` (an answer on record for the id is returned, or refused when it is
another intent: `SameIntent`), `CallTransport`, `CheckHead`, `RecordCall`. The
transport is external: it answers with any provider id. The reducer's rules
(`ReducerTakes`) are written down apart from the handlers'.

`SessionRotation`. `phase[c]` names what a caller of `rotate_session` does next:
`rotation`, `provision`, `bind`, `close` and `complete` are the commands of g2_1,
`transition`, `opening` and `resuming` the steps of r2_5, `recheck`, `listing`,
`creating`, `deciding`, `context` and `delete` what is between them, and
`provisioning`, `binding` and `closing` the questions asked before a command
whose effect may be there already (`CheckEffect`, on a state of its own). A g2_1
command is two more steps, `ReadHead` (its expected_seq is the head of that later
instant) and `Send`; its handler asks nothing of what `CheckEffect` saw, so that
another caller may bind another successor in between, and the last binding counts
(`BoundTo`). A step of r2_5 is `CheckStep` (a stored
command is answered as it was; a new one needs a head nobody has moved) and
`Send`. Rotation ids, provision tokens and command ids are hashes of the
Mission, the Task and the predecessor, so a rotation and its token are named by
the predecessor here; the idempotency key of all these commands is their id, and
`NoKey` stands for it. A call that raises and one that dies both end in `Leave`:
nothing but the Mission and the OpenCode server survives either. The events of
others are observations, which every tick records, and the end of the Task. An
error of the OpenCode server is a `Crash` at that place.

`HumanGate`. A call of the service is `ReadGate` (the gate, whose revision
the command will name), `ReadCursor` (the head, and whether the command id is
known) and `RunGateStep` (the bus, with handler and reducer at the head). An
event is reduced by `ReduceGate`, which yields `Broken` where the code raises.
What other components say of a lineage is the parameter `CanOpen`.

`DispatchLoop`. A turn is `Observe`, `Boundary` (`run_r2_4_if_allowed`), `Enter`
(`orchestrate_loop` down to its first effect), then `Reconcile` of the first
ACTIVE Task or `Activate` and `Dispatch` of the selected ones, and `Acknowledge`:
the caller takes over the progress the turn returned. Nothing of a turn is
durable except the activations, which is what `LoopDies` is about. Whether the
binding and resolution of a Task are in order (`gate`) is any answer, the same
for all Tasks of a turn.

`QualityCycle`. A record is named by its seq; references, digests and cursors
all become seqs, because records never change. What a request says of the world
is a name looked up in a constant (`Troubles`, `Findings`, `Sightings`, ...). For
each component there is what its handler lets through (`...May`), what its
reducer takes (`...Takes`) and what its identity consists of (`...Identity`).
They differ, and the difference matters: a record the reducer refuses is raised
without a trace (`IsRaised`), one the handler refuses is stored as REJECTED and
uses up its command id. `Look` is the service's reading, `Send` the command at
a head read later. `Continue`, `LinkUp`, `Bridge`, `Plan` and `Stumble` are
`continue_selection_handoff` and `continue_r2_bridge` of r4_2, which go on from
whatever an earlier attempt left. `Stumble` is its last `except`: once the request is
at hand, whatever is raised is recorded as R2_UNAVAILABLE (or R2_REJECTED), asked or
not. The cursor that a reference of r4_5 claims is whatever its caller says, as
`_validate_ref` compares it with nothing on record; and of the deployments a
detection of r4_3 saw, only the digest it saw last of each is compared (`LastPairs`). They alone record links, requests and results
(`OwnKinds`): `record_r2_bridge_result` is public, but nothing in the repository
calls it. The assessments of r3_6 that confirm a defect, the gates of r2_6 and the
Goals are records of other components. What a Mission holds in the beginning is a
past (`IsPast`): each record was let through by its handler and taken by its reducer
on the records before it (`MayFollow`). `CycleAssumption` says so, and TLC evaluates
it on the beginnings of the run.

`ClosedLoop`. A call is `ReadCycle` (the service's checks, on a state it replays;
calls it answers itself, as a DUPLICATE or a CONFLICT, change nothing), `ReadHead`
(`_metadata`, for a caller that names no seq) and `LoopSend`. A step is the revision of
its phase; an operation is the record of what was asked, which is what its id
hashes; an answer is its own semantic identity. The handlers (`LoopFacts`) check far
less than the service (`Sends`), and the reducer (`Received`) has an order of
revisions of its own. A behaviour starts after calls that were made one by one.

Operators whose comment starts with "Fault:" are deviations from the code that
no specification uses. They are plausible mistakes, and each property has one
that breaks it; `PROJECT.json` ("mutants") pairs them.

## Runs

All runs pass.

| Run | Instance | What it shows |
|---|---|---|
| `MissionCore` | 3 Goals, 2 Sessions, revisions up to `MaxRevision` = 3 | Every order of the 15 commands. Completion needs an ACHIEVED Goal. |
| `CommandBus` | 2 callers, 2 Missions, 9 envelopes, 6 command ids, 2 keys | Racing, retried and crashed commands. The envelopes collide in each way the code distinguishes: same seq, same id with other content, same key under another id, refreshed seq, a multi-event command and one whose second event the reducer refuses. The safety properties and the implementation of `CommandLedger`. |
| `ProjectionRecovery` | 2 callers, 1 recovery, 1 Mission, 2 envelopes, `MaxDamage` = 1, no symmetry | Drift comes from outside only; what recovery calls RECOVERED was restored; a call that waits for the lock ends. |
| `ToolExecution` | 2 callers, 2 executions, direct requests and one through the bridge, 2 reconciliations, 2 pieces of evidence, `MaxSeq` = 2 (of the other writers), `MaxInvocations` = 2 | With and without the bridge, effects have their intent on record; an execution has one intent and one fact, an idempotency key one intent; what is recorded beside a fact goes with it (no reconciliation follows a confirmed one, evidence rests on an earlier fact of its own execution); an intent is recorded only where its preconditions hold. |
| `WorkGraph` | 2 Plans, 3 Revisions, 3 Tasks, 2 Snapshots, `MaxSeq` = 7 | Plans, Revisions and Tasks in every order; snapshot reads at every seq; the search for cycles on each of the 512 relations between three Tasks. |
| `SessionRotation` | 2 callers, any status of the first Session, 1 event of others or the end of the Task, 3 Sessions, 2 Attempts, 1 crash | However two callers race, at most one Session of the Task is OPEN, and a rotation is completed only after its successor was briefed and bound to it and its predecessor closed. |
| `SessionRotationRecovery` | 1 caller, 2 crashes, 4 Sessions, 3 Attempts, no others | Two rotations of an OPEN or SUSPENDED Session in a row are completed in the end, each with the Session the Attempt resumed in; there is one Attempt for each. |
| `HumanGate` | 2 people, 2 gates of one lineage, `MaxSeq` = 3 | Whatever old read a person acts on, the gates can be replayed, a lineage is held by one gate, and a No is final. |
| `AttemptExecution` | 2 callers, 2 Attempts, 2 Sessions, 1 request, `MaxSeq` = 6, `MaxChanges` = 1, `MaxRefusals` = 1 | The Attempts of a Task are one chain the reducer takes, each begun in the state its Context shows; no observation that another writer overtook; a caller is told only of its own intent. |
| `DispatchLoop` | 1 loop that may die once, 1 child, 1 person, 3 Tasks, `MaxSeq` = 6, `MaxCycles` = 2, `MaxDispatches` = 2, `PerCycle` = 2 | Only ready Tasks are activated, none is acted on before, no turn decides on a seq at which a gate held its lineage, and the dispatches are counted. |
| `QualityCycle` | 2 callers, from 20 beginnings, 2 to 4 further events, `MaxRefusals` = 1 | Campaigns do not fork; the planner is asked on record, a request has one result, and a plan counts as revised, or as one that stays, only on the planner's word; resumptions go back, each link recorded before the next, to an assessment under their own gate and have one result; what was revoked stays so; a fix that counts as validated was detected, completely tested and judged by r3. |
| `ClosedLoop` | 2 callers, 2 phases, 1 cycle that lacks only the answer of R4_5, 3 answers, `MaxSeq` = 8 and `MaxRows` = 8 (5 of them past) | No cycle is closed that did not stand, at some instant before, in a phase `close_cycle` takes with the answers of R3_7 and R4_5 APPLIED, nor, by a caller that names the seq it has read, one that does not then; such a caller overrules no final answer. |

**Bounds.** Two callers are enough to race for one lock, one seq, one id and one
key; a third adds no further kind of collision, and the theorems cover any
number. Streams end after a few events (the envelopes of a run, or `MaxSeq`),
which is enough for every command to be reached and followed by others.
`MaxInvocations` = 2 lets an execution be repeated once, `MaxDamage` = 1 lets the
projection be damaged while a recovery runs. `MaxRevision` = 3 lets a Goal be
revised from its first and from a later revision. In
`SessionRotation`, two callers race for one rotation (`MaxAttempts` = 2) and
`MaxSessions` = 3 leaves each of them a Session to create. The second rotation of
two callers is left to the theorem `OneOpen`: the run with it (`MaxAttempts` = 3,
`MaxSessions` = 4) passes too, but takes too long to keep. One caller has two
rotations in a row (`MaxAttempts` = 3), the second of a successor, and two
crashes let the recovery itself die. One event of others (`MaxOthers`, `MaxChanges`)
is enough to move the head, or to end what an Attempt needs, at any step. One
refused command (`MaxRefusals`) is enough to use up an id. In `HumanGate` three
events let a gate be opened, decided and continued or a second one be opened
beside it; `DispatchLoop` has longer lives of a gate. Six events there are two
activations, their ends, and a gate or a change of plan in between. The records
of the quality cycle rest on long chains of others, so `QualityCycle` begins
anywhere on the way of a release, of a campaign whose sources have news, or of
a fix that is validated; what it begins with is a past (`IsPast`), and two to four new events are enough for each record to be made, made
again and superseded from there. `ClosedLoop` begins five events into a cycle;
three more commands are the answer that is missing, one that contradicts it, and
the closure, in any order, or a reentry that leaves the closable phase for WORK_ACTIVE. `MaxSeq` and `MaxRows` hold for calls that begin; those
under way still end, so that both may be exceeded by one call of each caller.
Operations are asked for and cycles reentered from the step of the current phase.

Deadlock is checked in `CommandBus`, `ProjectionRecovery` and `ToolExecution`. In the other runs the bounds stop everyone, or a refusal
under an id computed from the work alone does, which is what the code does
(below).

**Fairness.** `ProjectionRecovery` assumes `WF(Execute(c))` and nothing else:
once a caller is inside `execute()`, Python runs it on, and while it waits for
the lock, SQLite's `busy_timeout` ends the wait with an error (`Busy`). Nothing
obliges a caller to call or recovery to go on, and crashes are not fair. `SessionRotation`
assumes `WF(Step(c))`: the control loop ticks at an interval for as long as it
runs and is restarted when it dies (control_loop.py), and a call that has begun
runs on. The OpenCode server is taken to keep its Sessions, save those a
rotation deletes. All other properties are safety properties.

**Symmetry.** Callers (and ids no definition tells apart) are interchangeable in
the safety runs that declare them symmetric; the liveness runs declare none.

### What the code does not keep

The models show that the following does not hold; no run claims it.

Core and tools:

- `verify_composed_projection` (projections.py:187) replays the events in one
  statement and reads the projection in the next. A command in between makes
  the two differ, and COMPOSED_PROJECTION_DRIFT is reported of a projection that
  was never wrong (`DriftReportsAreReal`, as an invariant of
  `ProjectionRecovery.cfg`).
- `ToolExecutionApplicationService.execute` asserts that the head is unchanged
  ("Runtime head changed during Tool Execution adapter call" is an error,
  tool_execution/service.py:434) and then reads the head *again* for the
  outcome's expected_seq (:161). A write in between passes both.
- `execute_or_reconcile` (r4_4/execution_bridge.py:102) treats every failed
  reconciliation like proven absence when `allow_dispatch` is set; the stored
  APPLIED answer of the first request then lets `execute()` invoke the adapter
  once more, against "reconciliation did not prove absence or safe dispatch".

Sessions, Attempts and the loop:

- A command that loses the race for its expected_seq is stored as REJECTED under
  an id that every retry computes again; each retry is then a
  COMMAND_ID_CONFLICT. This stops a rotation for good (g2_1/service.py:15, against
  "The next tick rebuilds from R1 and retries automatically") and the activation
  of a Task (r2_4), which is BLOCKED from then on. `RotationFinishes` is of one
  caller, whose ids no lost race uses up.
- A rotation of a CLOSED predecessor stores PREDECESSOR_ALREADY_TERMINAL with the
  OPEN; read back after a crash, this is refused ("predecessor is not terminal",
  r2_5/service.py:580). A FAILED predecessor is sent CLOSE_SESSION, which the core
  refuses. Either rotation is stuck, which is why `SessionRotationRecovery` begins
  with OPEN and SUSPENDED ones.
- Two callers bind different successors to one rotation, and the one bound first may
  be the one it is completed with: whether one is bound is read before the command that binds (managed_orchestration.py:166),
  whose handler does not ask (g2_1/handlers.py:37), and the reducer overwrites
  (g2_1/reducer.py:27). SESSION_PROVISION_BINDING_CONFLICT
  (managed_orchestration.py:171) is not raised then.
- With two callers, `SuccessorIsTheWorker` fails in `SessionRotation.cfg`: both
  create a Session for one token, and since r2_5 compares its successor with the
  durable OPEN only before its steps, one completes the rotation with a Session
  that was never opened.
- With two callers, `OneAttemptPerRotation` fails too (`SessionRotation.cfg` with
  `MaxAttempts` = 3, `MaxSessions` = 4, `FirstStatus = {"opened"}`, no others and no
  crash): a caller that was overtaken before it listed the Sessions reads the
  latest Attempt again (autonomous_orchestration.py:1211) and rotates the
  *successor* of two completed rotations, which nobody asked for, against "never
  rotate the successor again" (managed_orchestration.py:617).
- A second dispatch of an ACTIVE Task leaves a second OPEN Session
  (autonomous_orchestration.py:925); `reconcile_external_sessions` reads the
  tokens of its intents before it lists the Sessions, and takes a Session created
  in between for an orphan (managed_orchestration.py:875). The transport may have
  been asked although nothing is on record, and twice for one bridge request.
- In the loop, a BLOCKED report comes before the ACTIVE Tasks, so that one of them
  is not reconciled while another Task is blocked; and a dispatch after
  reconciliation is not protected against a gate opened after the head was
  compared. A caller that supplies its own `work_graph` (r2_4/orchestrator.py:401)
  need not be at the durable seq for what it reads; the loop is modelled without one.
- A repeated decision id is answered with what was stored under it whatever the
  payload now is (r2_6), and a continuation accepts a source recorded before its
  gate was opened.

Quality cycle:

- r4_2: a crash, or a lost race, between a selection revision and its link leaves
  the assessment stuck (service.py:338); the same for the request and the result of
  the bridge. A refused link is still returned as the link. A resumed request
  without a given input is planned from the Goal active now while its receipt
  keeps the digest of the intended one. R2_UNAVAILABLE or R2_REJECTED may be recorded
  though the planner was never asked (service.py:507-516), and a result refused
  because its request is not on record yet uses up its command id. Integer cursors are compared as text, so
  that 10 after 9 is SOURCE_STALE (service.py:53), and outside the transaction.
- r4_3: cursors are compared as text here too (contracts.py:738). A repeated
  identical detection request is a CONFLICT, and a pending request is matched by
  an id no detection can have. The handler accepts a fix of another lifecycle; the
  reducer refuses it, so the refusal leaves no trace. A detection that names one
  deployment with two digests is compared by the last (handlers.py:155): one that
  contradicts the first is let in.
- r4_4: outcome and status are not in the compared payload of assessments,
  closures and linkages: a retry with another outcome under the same id is
  answered DUPLICATE with the old one. The latest receipt of a cycle is taken
  whatever its workset, so COMPLETE may rest on an acknowledgement for a
  superseded one. A closure's `selection_complete` is its own, so that an
  incomplete workset can be closed with PASS. Superseded cycles and worksets still
  take records. A cycle may rest on what its caller supplies in place of a
  detection on record; `FixesAreProven` is about the others.
- r4_5: the cursor a reference claims is compared with the cursor of the request,
  never with the seq of the record it names (handlers.py:64), so that a request may
  name a record made after the state it says it was decided on. The status is part of the identity of a receipt, so that one that
  contradicts another is never recorded as a conflict. A retry from a newer cursor
  is an IDENTITY_CONFLICT instead of a DUPLICATE. An intent need not name the
  readiness its eligibility names, nor a current one. A second eligibility for one
  wait is a CONFLICT until a disposition. A FAILED field validation counts as
  WITHIN_POLICY.
- r4_8: `close_cycle` says that "readiness must be observed before closure"
  (service.py:320), but a reentry puts a cycle in READINESS_OBSERVED with no
  observation (handlers.py:236, reducer.py:184), and PROMOTION_OBSERVED and
  LEGACY_RECONCILIATION_OBSERVED will do as well (`ReadinessWasObserved`, as the
  invariant of `ClosedLoop.cfg` with one caller, `Past <- MCPastRegistered` and no
  symmetry). A receipt that was under way, or MARK_WAITING, which the handler lets
  through at any time, takes a COMPLETE cycle out of that status, and then it
  accepts observations again ("closed cycle cannot accept observations",
  handlers.py:140). Without an expected_seq of the caller's, the head is read after
  the checks: two answers that race overrule each other, final or not, and a cycle
  is closed although R4_5 has meanwhile answered otherwise. Revisions are compared
  as integers by the service and as text by the reducer (reducer.py:174), for which
  10 is older than 9. The default command id is made of the kind of call and the
  head: two different calls of a kind at one head are a COMMAND_ID_CONFLICT, and a
  retry after the head has moved is a new command.

## Proofs

Each theorem holds for every value of the constants that satisfies the module's
assumption. What is proved is `THEOREM Spec => []P` for the property P named, or
`Spec => [][A]_vars` for a property of the steps.

| Module | About | Proved |
|---|---|---|
| `DurableCoreProofs` | `CommandBus` | `TypeOK`, `StreamContiguous`, `CommandsOwnTheirEvents`, `AppliedOncePerKey`, `DecidedOnSeenState`, `AnswersAreDurable`, `DecisionsCanBeWritten`, `HistoryIsImmutable`, `StreamsReplay` |
| | `CommandLedger` | `Spec => LedgerSpec`: the bus implements the ledger |
| | `ProjectionRecovery` | `DriftComesFromOutside`, `RecoveryIsTruthful` |
| | `MissionCore` | `StateOK`, `ActiveGoalIsTheActiveOne`, `CompletionIsEarned`, `HandlersAgreeWithReducer`, `TerminalIsFinal`, `NoWayBack` |
| `ToolExecutionProofs` | `ToolExecution` | `TypeOK`, `IntentBeforeEffect`, `OneFactPerIntent`, `IntentsAreAdmissible`, `RecordsGoWithTheFact` (`ConfirmedIsFinal` and `EvidenceRestsOnFacts`) |
| `WorkGraphProofs` | `WorkGraph` | `TypeOK`, `TasksBelongToOneRevision`, `ClosedPlansAreSettled`, `WorkedRevisionsWereCurrent`, `NoDependencyDeadlock`, `FindsCycles`, `SnapshotReadIsReplay`, `ReducerAcceptsFacts`, `HistoryStands` |
| `AttemptExecutionProofs` | `AttemptExecution` | `AttemptsReplay`, `ContextsStillHold`, `ObservationsAreCurrent`, `AnswersAreOfTheAsker` |
| `SessionRotationProofs` | `SessionRotation`, any callers | `OneOpenSession`, `TwoPhaseCompletion` |
| | `SessionRotation`, one caller | `OneAttemptPerRotation`, `SuccessorIsTheWorker` |
| `HumanGateProofs` | `HumanGate` | `GatesReplay`, `NoIsFinal` |
| | `DispatchLoop` | `ActivationsWereReady`, `ActiveBeforeDispatched`, `TurnsPassTheGate`, `DispatchesAreCounted` |
| `QualityProofs` | `QualityCycle` | `OneResultPerIntent`, `ResumesAreAuthorized`, `NoRevival`, `CampaignsDoNotFork`, `PlannerAskedOnRecord`, `ResultsAreAnswers`, `FixesAreProven` |
| | `ClosedLoop` | `ClosuresWereEarned`, `FinalAnswersStand`, `EveryEventFits` |

**Replays.** What a stream means is given by a fold or by a function defined by
recursion on the number of events. TLAPS has no induction rule that could be used
with such a definition as a parameter; `NatSetInduction` states induction for a
*set* of numbers instead, from the well-foundedness of finite sets
(`FiniteSetTheorems`). With it each proof shows that the recursive function exists
(`ReplayExists`, `SegmentExists`, `ReplayPath`, `UnfoldingExists`), that its value after n events
depends on these n events alone, and that one more event is one more step. No
property is proved by reasoning about a stream as a whole.

**`CommandBus`.** The inductive invariant `IInv` has these parts beside `TypeOK`: who
is `locked` or `writing` is the holder of the lock, so there is one such caller;
the decision it carries is one made on the present tables (the first seq is the
head plus one, no row has its id, no applied row its key); the tables are well
formed (contiguity, ownership, uniqueness); and an answer already given is backed
by the tables. The second part is what makes it inductive: between `Accept` and
`Commit` the tables must not move, and they cannot because only the lock's holder
writes. `HistoryIsImmutable` follows from the actions. That every stream can be
replayed (`StreamsReplay`) needs the first state not to be the mark of an exception
(`InitialState # ReducerRaised`), and that `Accept` reduced the very events that are
committed, on the replay of those before.

**`CommandLedger`.** The refinement maps the tables to the verdicts and streams they
hold. COMMIT is the instant at which a command is decided; every other step
stutters. The ledger decides on the state of that instant, the bus decided
earlier, so one more invariant is needed, `DecisionsMeant`: the reason of the
decision a caller carries is still true of the tables. It is inductive for the
same reason as above.

**`ProjectionRecovery`.** To the invariant of the bus come `ProjectionIs` (a
projection that is not damaged is the replay of its stream, at its head) and
`Watching` (while a verification is under way, the present condition of the
projection is part of what was seen since it began, and what was replayed is a
state that damage cannot leave). The module's assumption is that there is a set
of states which the reducer does not leave and to which no damaged projection
belongs: otherwise damage could go unnoticed, in the code as well.

**`MissionCore`.** `LifeInv` is `StateOK`, `ActiveGoalIsTheActiveOne` and
`CompletionIsEarned`. Two Goals are never ACTIVE because `active_goal_id` is
compared when a Goal is created, and is cleared exactly when the Goal it names
ends; a completion stays earned because the Goals of an ended Mission do not move.
The two tables of moves are compared entry by entry (`MissionTables`,
`SessionTables`), from which `HandlersAgreeWithReducer` follows for every state of
the right type.

**`ToolExecution`.** `IInv` is what the history says of each execution
(`OneFactPerIntent`, `IntentsAreAdmissible`, `ConfirmedIsFinal`,
`EvidenceRestsOnFacts`), that stored answers are what the stream holds, the types,
what each caller relies on at its place, and `IntentBeforeEffect`. The stream only
grows, so each of these is a matter of the event that is appended (`EventFits`).
A caller that is about to invoke knows its intent to be on record either because
it saw the answer to its own request or because the stored answer says so; that
is why the stored answers are in the invariant.

**`WorkGraph`.** `IInv` adds to the properties that the Tasks of a Revision exist
(`Present`), that a Revision that is or was current was activated on the stream
(`CurrentIsActivated`), and that no recorded Revision's dependencies have a cycle
that the search finds (`RevisionsAreSound`). It needs no more of Tasks than that they
are finitely many.
What the search finds is proved apart from the state machine. `HasCycle` is a
recursive function folded over the Tasks, and its own body folds it over a Task's
successors. It exists because each call in it has one Task fewer that is not being
visited (`VisitExists`). By the same number `AllVisits` shows what a visit leaves
behind: the marks it set are taken back unless a cycle was found, what is visited
leads nowhere but to what is visited, and every way through it ends (`Good`); and if
a cycle is found, the Tasks being visited, which all lead to the Task at hand, contain
it. So the search misses none (`GoodHasNoCircle`) and invents none. `ComesAfter` is
the reference: the least set closed under successors, not the closure the code walks.
Of any set of Tasks without a cycle one has no predecessor in it (`FirstOfSome`); of
the PENDING ones it is the one that is ready, which is `NoDependencyDeadlock`.
`SnapshotReadIsReplay` needs to remember the states the stream went through
(`Remembered`: each event fitted the one before it, and each Snapshot holds its scope
of one of them), and that the part of a Plan (`Scoped`) can be kept by itself: an event
of the Plan fits and changes the part as it fits and changes the whole
(`ScopedFits`, `ScopedChanges`), any other leaves it alone (`ScopedStands`), because a
Task is of one Plan for good.

**`AttemptExecution`.** The state after the first n events never changes
(`StatePersists`), so each property is a matter of the event that is appended. The
handler decides at the head by the reducer's rules, so that what a caller read at
its cursor need not be believed, but for one thing: a transport call it reports
was made, and not before the cursor it names. A command is accepted only with the
head at that cursor still, so the call was made at that head
(`ObservationsAreCurrent`). The stored answers are in the invariant because a retry
is answered from them.

**`SessionRotation`.** Callers overtake each other between any two of their steps, so
the invariant rests on nothing they remember, only on what is durable (`LogInv`):
the Attempts are a chain 1, 2, ... without gap (`Chain`); the Session after Attempt m
is opened by the one command whose id is made of m, and the bus answers an id
once; that command is accepted only if the Session of Attempt m is no longer OPEN
at the head (`RowIsMeant`), and a Session that has ended stays so; Attempt m + 1 is
made in the Session that command opened. So the OPEN Sessions are the latest
Attempt's or the one opened after it, never both: `OneOpenSession`. Of a caller it
is known only what it has read off durable facts (`Knows`), e.g. that before
`delete` the predecessor is closed and the rotation was bound to its successor, which
is `TwoPhaseCompletion`: of the binding, that it was made before, not that it is the
only one or still the last.
`OneAttemptPerRotation` and `SuccessorIsTheWorker` are not true of two callers
(above). Their theorems have the hypothesis that there is at most one
(`\A c, d \in Callers : c = d`), which is how the control loop alone runs, with any
number of deaths, retries and events of others. `SoleInv` then says that what the
caller read of the latest Attempt still holds when it acts on it, and that the
token in the title of a Session names the Session it was created to follow; a
caller that finds the Attempt moved on relies on that token.

**`HumanGate`.** A payload is built from a gate read before the head is, and the
handler looks again at the gates of the head. So the lemmas show that the reducer
accepts what the handlers let through on the same gates (`GatesReplay`), and what
one event does to a lineage: the first gate that ends in a No blocks it, and as
long as one blocks no other can be opened (`NoIsFinal`). Assumed is that the other
components' events are none of the gates' and that a policy allows outcomes and
routes.

**`DispatchLoop`.** The invariant says for each place of a turn which facts it may
still rely on: a Task that was READY at the seq of the turn is activated only at
that head, and what had SUCCEEDED stays so; what the authority is handed is ACTIVE
on the stream; the gate the turn passed was open at the seq it decides on, because
the turn raises when the head is another. The count of dispatches needs
`PerCycle` \in Nat \ {0}, which `_positive_int` checks (r2_4/contracts.py:160), and
leaves out what a caller that died had not counted, as the code does. `CanOpen` and
the Mission's other events are parameters: the theorems hold for whatever the rest
of the Mission allows.

**`QualityCycle`.** The inductive invariant `IInv` says first that the stream is a
past (`IsPast`). A command stores a record only if the handler let it through and the
reducer took it at that very head (`StoredMayFollow`), so a past stays one
(`PastGrows`), whatever a caller had seen when it looked. Four invariants follow from
this alone, for any past. Of two receipts of one intent the later was let through
with the earlier on record (`ReceiptsAgree`). A receipt names an intent, that an
eligibility, that its wait and readiness, and each was looked up among the records
before (`ReceiptsAreBacked`); that needs nothing of the cursors
the caller claims. Each revision of a campaign names the latest before it
(`RevisionsAreOneLine`). A cycle rests on a detection that was on
record, and what a closure rests on was so when it was made (`FixesWereProven`; the
detections on deployments are compared when a later one is recorded, it with each
before it, by what it saw last of each deployment; nothing compares what one detection
saw with itself, so the property is about different ones, and about what they saw last). `NoRevival` is about how the current resolution is read off a stream, and
holds of each record that is appended.

`PlannerAskedOnRecord` and `ResultsAreAnswers` need more, because
`continue_r2_bridge` acts on an answer it got several commands ago. A command that is
known already is answered from its row, so an answer that says applied must mean that
the record is on the stream (`RowsOnRecord`); what a caller relies on between two
commands is then a record, or something the planner said, and neither goes away
(`CallsFit`). Results that say unavailable or rejected rest on nothing, for
`Stumble` may have made them. `PlannedOnRecord` and `ResultsWereSaid` are the two properties without
what a past implies anyway.

Assumed of a beginning is that it is a past and holds no result with an answer of the
planner: `planned` is a history of the calls made since, and an older answer would have
none. TLC checked `IInv` on the run before it was proved, and `IsPast` refused one
beginning, with two campaigns of one key, which no handler lets through; it has been
corrected. The bounds (`limit`, `MaxRefusals`) are used nowhere in the proofs.

**`ClosedLoop`.** The replay is followed event by event: the handlers look at the
cycles of the head, so the reducer takes what they let through (`EveryEventFits`);
what a closure or an answer rests on is found on the stream before it (`ClosureAt`,
`AnswerAt`). The service's checks are believed only of a caller that named the head
it read (`ChecksStand`), for a command that names a head is accepted at no other.
For all others `ClosuresWereEarned` says less, and needs that a cycle found
closable at an earlier seq was so at an instant. What a closure had on record is the phase of the cycle and the
two answers; that its readiness was observed does not follow, and is not claimed. The
assumption on `Past` is that the calls before the beginning hold no closure; it is there for the instance of the run, and an
empty `Past` satisfies it.

Only model-checked: `EveryCallEnds` and `RotationFinishes`, which are liveness
properties under fairness. Every safety property of every passing run is stated by a theorem.

What the table lists and no run checks is left to its proof: the type invariants,
`HandlersAgreeWithReducer`, `DecidedOnSeenState` (which `LedgerSpec` implies),
`EveryEventFits`, the properties of single steps, and invariants of a table's form.

## Not modelled, and why

Envelope schema validation and serialisation (they precede the first state
change); the projection tables of the Extensions (one `projection` stands for
all of them: they are written in the same transaction); SQLite itself, the
adapters, other writers and process death, which are external and modelled by
what the code relies on; the texts, policies and digests of documents beyond what
the rules compare. `canonical_runtime`, r2_1 to r2_3, r3, r4_6 and r4_7 validate
and record documents through the bus: their concurrency is that of `CommandBus`,
their shape that of `QualityCycle`. r2_7, g3, g5 and the rest of r1_5 keep no
state of their own. Not modelled yet are the rest of g2_1 (planning Sessions,
observations, routing, `reconcile_external_sessions`), g4 and the legacy
scheduler. The components with no module are listed in `PROJECT.json` with the
reason.

## Plan

1. `SessionProvisioning` - the rest of g2_1: the first Session of a Task, planning
   Sessions, and `reconcile_external_sessions` with its race.
2. r4_6 and r4_7 as further rules of `QualityCycle`.
3. `GoalConvergence` (g4) and `LegacyScheduler` (leases and turns over the legacy
   SQLite store).
4. With each of these, the theorems about it: a further rule of `QualityCycle` keeps
   `IInv` as soon as `MayFollow` covers its kinds.
