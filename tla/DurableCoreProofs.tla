---------------------------- MODULE DurableCoreProofs ----------------------------
(*****************************************************************************)
(* What the durable core guarantees.  The Command Bus is safe for every set  *)
(* of callers, commands and Missions, and for every handler and reducer,     *)
(* whatever the Extensions registered with it do; the Mission it keeps for   *)
(* every set of Goals and Sessions.  Five parts:                             *)
(*                                                                           *)
(*   - the tables are well formed and an answer is backed by them (IInv);    *)
(*   - the bus implements CommandLedger;                                     *)
(*   - every stream on disk can be replayed;                                 *)
(*   - what ProjectionRecovery, beside the bus, says of the projection;      *)
(*   - the life of a Mission, its Goals and its Sessions (MissionCore).      *)
(*                                                                           *)
(* The first three are about Spec and rest on BusAssumption alone; the       *)
(* fourth is about RecoverySpec, the last about MissionSpec.  Spec speaks of *)
(* no variable of the other two.                                             *)
(*****************************************************************************)
EXTENDS ProjectionRecovery, MissionCore, SequenceTheorems, TLAPS

(* The largest number of 0, 1, ..., n.                                     *)
LEMMA MaxOfInterval ==
    ASSUME NEW n \in Nat
    PROVE  Max((1..n) \cup {0}) = n
<1> DEFINE S == (1..n) \cup {0}
<1>1. n \in S /\ \A y \in S : n >= y
  OBVIOUS
<1>2. ASSUME NEW x \in S, \A y \in S : x >= y PROVE x = n
  BY <1>1, <1>2
<1>3. Max(S) \in S /\ \A y \in S : Max(S) >= y
  BY <1>1 DEF Max
<1> QED
  BY <1>2, <1>3

(* The head of a stream whose numbers are 1..n is n.                       *)
LEMMA HeadOfStream ==
    ASSUME NEW m \in Missions, NEW n \in Nat, {ev.seq : ev \in Stream(m)} = 1..n
    PROVE  HeadSeq(m) = n
BY MaxOfInterval DEF HeadSeq

(* The same of the head after a step.                                      *)
LEMMA HeadOfStreamNext ==
    ASSUME NEW m \in Missions, NEW n \in Nat, {ev.seq : ev \in Stream(m)'} = 1..n
    PROVE  HeadSeq(m)' = n
BY MaxOfInterval DEF HeadSeq

-----------------------------------------------------------------------------
(* The inductive invariant.                                                *)

(* Whoever is inside a transaction holds the write lock.                   *)
LockHeld == \A c \in Clients : phase[c] \in {"locked", "writing"} <=> lock = c

HeadsAreNumbers == \A m \in Missions : HeadSeq(m) \in Nat

(* Stored verdicts are APPLIED or REJECTED.                                *)
VerdictsStored == \A row \in commands : row.result.outcome \in {"APPLIED", "REJECTED"}

(* What a caller is about to write fits the tables as they are.            *)
DecisionStands(c) ==
    LET e == envelope[c]
        r == result[c]
        head == HeadSeq(e.mission_id)
    IN  /\ Fresh(e)
        /\ r.outcome \in {"APPLIED", "REJECTED"}
        /\ r.outcome = "REJECTED" => proposed[c] = << >>
        /\ r.outcome = "APPLIED" =>
              /\ proposed[c] # << >>
              /\ r.first_seq = head + 1
              /\ r.last_seq = head + Len(proposed[c])
              /\ ~Creates(e.intent) => e.expected_seq = head

DecisionsStand == \A c \in Clients : phase[c] = "writing" => DecisionStands(c)

Consistent ==
    /\ StreamContiguous
    /\ CommandsOwnTheirEvents
    /\ AppliedOncePerKey
    /\ DecidedOnSeenState
    /\ AnswersAreDurable

IInv ==
    /\ TypeOK
    /\ LockHeld
    /\ HeadsAreNumbers
    /\ VerdictsStored
    /\ DecisionsStand
    /\ Consistent

(* The empty store satisfies the invariant.                                *)
LEMMA InitInv == Init => IInv
<1> SUFFICES ASSUME Init PROVE IInv
  OBVIOUS
<1> USE BusAssumption DEF Init
<1>1. TypeOK
  BY DEF TypeOK, Unknown, Rejected, Result, ResultType, Outcomes, ErrorCodes
<1>2. \A m \in Missions : {ev.seq : ev \in Stream(m)} = 1..0 /\ HeadSeq(m) = 0
  <2> TAKE m \in Missions
  <2>1. {ev.seq : ev \in Stream(m)} = 1..0
    BY DEF Stream
  <2> QED
    BY <2>1, HeadOfStream
<1>3. LockHeld
  BY DEF LockHeld
<1>4. HeadsAreNumbers /\ VerdictsStored /\ DecisionsStand
  BY <1>2 DEF HeadsAreNumbers, VerdictsStored, DecisionsStand
<1>5. StreamContiguous
  BY <1>2 DEF StreamContiguous, Stream
<1>6. CommandsOwnTheirEvents /\ AppliedOncePerKey /\ DecidedOnSeenState /\ AnswersAreDurable
  BY DEF CommandsOwnTheirEvents, AppliedOncePerKey, DecidedOnSeenState, AnswersAreDurable
<1> QED
  BY <1>1, <1>3, <1>4, <1>5, <1>6 DEF IInv, Consistent

-----------------------------------------------------------------------------
(* Steps that leave the tables alone.                                      *)

(* What the invariant says of the tables stays true as they stay the same. *)
LEMMA QuietTables ==
    ASSUME HeadsAreNumbers, VerdictsStored, StreamContiguous, CommandsOwnTheirEvents,
           AppliedOncePerKey, DecidedOnSeenState, UNCHANGED tables
    PROVE  /\ HeadsAreNumbers' /\ VerdictsStored' /\ StreamContiguous'
           /\ CommandsOwnTheirEvents' /\ AppliedOncePerKey' /\ DecidedOnSeenState'
<1> USE DEF tables
<1>1. \A m \in Missions : Stream(m)' = Stream(m) /\ HeadSeq(m)' = HeadSeq(m)
  BY DEF Stream, HeadSeq
<1>2. HeadsAreNumbers' /\ VerdictsStored'
  BY <1>1 DEF HeadsAreNumbers, VerdictsStored
<1>3. StreamContiguous'
  BY <1>1 DEF StreamContiguous
<1>4. CommandsOwnTheirEvents'
  BY <1>1 DEF CommandsOwnTheirEvents, Applied, Stream
<1>5. AppliedOncePerKey'
  BY DEF AppliedOncePerKey, Applied
<1>6. DecidedOnSeenState'
  BY DEF DecidedOnSeenState, Applied
<1> QED
  BY <1>2, <1>3, <1>4, <1>5, <1>6

(* A decision that stood still stands, for a caller that has not moved.    *)
LEMMA QuietDecision ==
    ASSUME NEW c \in Clients, DecisionStands(c), UNCHANGED tables,
           envelope'[c] = envelope[c], result'[c] = result[c], proposed'[c] = proposed[c]
    PROVE  DecisionStands(c)'
<1>1. UNCHANGED <<commands, events>>
  BY DEF tables
<1> QED
  BY <1>1 DEF DecisionStands, Fresh, RowsOf, KeyOwners, Applied, HeadSeq, Stream

(* What a caller may rely on when it is told r in answer to e.             *)
Backed(e, r) ==
    r.outcome \in {"APPLIED", "DUPLICATE"}
    => \E row \in commands :
          /\ Applied(row)
          /\ row.fingerprint = Fingerprint(e)
          /\ row.result.first_seq = r.first_seq
          /\ row.result.last_seq = r.last_seq
          /\ row.command_id = IF r.outcome = "APPLIED" THEN e.command_id
                              ELSE r.duplicate_of

(* AnswersAreDurable says of each caller that its answer is backed.        *)
LEMMA AnswersBacked ==
    AnswersAreDurable <=> \A c \in Clients : phase[c] = "answering" => Backed(envelope[c], result[c])
BY DEF AnswersAreDurable, Backed

(* A step of one caller that writes nothing: what is left to show of it.   *)
LEMMA QuietStep ==
    ASSUME IInv, NEW c \in Clients, UNCHANGED tables,
           \A d \in Clients \ {c} :
              /\ phase'[d] = phase[d] /\ envelope'[d] = envelope[d]
              /\ proposed'[d] = proposed[d] /\ result'[d] = result[d],
           TypeOK', LockHeld',
           phase'[c] = "writing" => DecisionStands(c)',
           phase'[c] = "answering" => Backed(envelope[c], result[c])'
    PROVE  IInv'
<1>1. /\ HeadsAreNumbers' /\ VerdictsStored' /\ StreamContiguous'
      /\ CommandsOwnTheirEvents' /\ AppliedOncePerKey' /\ DecidedOnSeenState'
  BY QuietTables DEF IInv, Consistent
<1>2. DecisionsStand'
  <2> SUFFICES ASSUME NEW d \in Clients, phase'[d] = "writing" PROVE DecisionStands(d)'
    BY DEF DecisionsStand
  <2>1. CASE d = c
    BY <2>1
  <2>2. CASE d # c
    BY <2>2, QuietDecision DEF IInv, DecisionsStand
  <2> QED
    BY <2>1, <2>2
<1>3. AnswersAreDurable'
  <2> SUFFICES ASSUME NEW d \in Clients, phase'[d] = "answering"
               PROVE  Backed(envelope[d], result[d])'
    BY DEF AnswersAreDurable, Backed
  <2>1. CASE d = c
    BY <2>1
  <2>2. CASE d # c
    <3>1. Backed(envelope[d], result[d])
      BY <2>2, AnswersBacked DEF IInv, Consistent
    <3>2. Backed(envelope[d], result[d])'
      BY <2>2, <3>1 DEF Backed, Applied, tables
    <3> QED
      BY <3>2
  <2> QED
    BY <2>1, <2>2
<1> QED
  BY <1>1, <1>2, <1>3 DEF IInv, Consistent

(* The results that execute() builds are CommandResults.                   *)
LEMMA ResultsTyped ==
    /\ \A code \in ErrorCodes : Rejected(code) \in ResultType
    /\ Raised \in ResultType /\ Unknown \in ResultType
BY BusAssumption DEF Rejected, Raised, Unknown, Result, ResultType, Outcomes, ErrorCodes

(* Accepting a call preserves the invariant.                               *)
LEMMA SubmitInv ==
    ASSUME IInv, NEW c \in Clients, NEW e \in Envelopes, Submit(c, e) PROVE IInv'
<1> USE DEF Submit
<1>1. TypeOK' /\ LockHeld'
  BY BusAssumption DEF IInv, TypeOK, LockHeld, tables
<1>2. phase'[c] = "waiting"
  BY DEF IInv, TypeOK
<1> QED
  BY <1>1, <1>2, QuietStep DEF IInv, TypeOK

(* Taking the write lock preserves the invariant.                          *)
LEMMA BeginInv ==
    ASSUME IInv, NEW c \in Clients, Begin(c) PROVE IInv'
<1> USE DEF Begin
<1>1. TypeOK' /\ LockHeld'
  BY BusAssumption DEF IInv, TypeOK, LockHeld, tables
<1>2. phase'[c] = "locked"
  BY DEF IInv, TypeOK
<1> QED
  BY <1>1, <1>2, QuietStep DEF IInv, TypeOK

(* Giving up on the write lock preserves the invariant.                    *)
LEMMA BusyInv ==
    ASSUME IInv, NEW c \in Clients, Busy(c) PROVE IInv'
<1> USE DEF Busy
<1>1. TypeOK'
  BY ResultsTyped DEF IInv, TypeOK, tables, ErrorCodes
<1>2. LockHeld'
  BY DEF IInv, TypeOK, LockHeld
<1>3. phase'[c] # "writing" /\ result'[c].outcome = "REJECTED"
  BY DEF IInv, TypeOK, Rejected, Result
<1>4. Backed(envelope[c], result[c])'
  BY <1>3 DEF Backed
<1> QED
  BY <1>1, <1>2, <1>3, <1>4, QuietStep DEF IInv, TypeOK

(* Every way to end a transaction that has written nothing.                *)
LEMMA AnswerInv ==
    ASSUME IInv, NEW c \in Clients, phase[c] \in {"locked", "writing"},
           NEW r \in ResultType, Answer(c, r), Backed(envelope[c], r)
    PROVE  IInv'
<1> USE DEF Answer
<1>1. TypeOK'
  BY DEF IInv, TypeOK, tables
<1>2. LockHeld'
  BY BusAssumption DEF IInv, TypeOK, LockHeld
<1>3. phase'[c] = "answering" /\ result'[c] = r
  BY DEF IInv, TypeOK
<1>4. Backed(envelope[c], result[c])'
  BY <1>3 DEF Backed, Applied, tables
<1> QED
  BY <1>1, <1>2, <1>3, <1>4, QuietStep DEF IInv, TypeOK

(* Answering from the row of the command_id preserves the invariant.       *)
LEMMA AnswerFromRowInv ==
    ASSUME IInv, NEW c \in Clients, AnswerFromRow(c) PROVE IInv'
<1>1. PICK row \in RowsOf(envelope[c]) :
        Answer(c, IF row.fingerprint = Fingerprint(envelope[c])
                  THEN row.result ELSE Rejected("COMMAND_ID_CONFLICT"))
  BY DEF AnswerFromRow
<1>2. row \in commands /\ row.command_id = envelope[c].command_id /\ row.result \in ResultType
  BY DEF RowsOf, IInv, TypeOK
<1>3. CASE row.fingerprint = Fingerprint(envelope[c])
  <2>1. Backed(envelope[c], row.result)
    BY <1>2, <1>3 DEF Backed, Applied, IInv, VerdictsStored
  <2> QED
    BY <1>1, <1>2, <1>3, <2>1, AnswerInv DEF AnswerFromRow
<1>4. CASE row.fingerprint # Fingerprint(envelope[c])
  <2>1. Backed(envelope[c], Rejected("COMMAND_ID_CONFLICT"))
    BY DEF Backed, Rejected, Result
  <2> QED
    BY <1>1, <1>4, <2>1, AnswerInv, ResultsTyped DEF AnswerFromRow, ErrorCodes
<1> QED
  BY <1>3, <1>4

(* Answering from the owner of the key preserves the invariant.            *)
LEMMA AnswerFromKeyOwnerInv ==
    ASSUME IInv, NEW c \in Clients, AnswerFromKeyOwner(c) PROVE IInv'
<1>1. PICK row \in KeyOwners(envelope[c]) :
        Answer(c, IF row.fingerprint = Fingerprint(envelope[c])
                  THEN Result("DUPLICATE", "NONE", row.result.first_seq,
                              row.result.last_seq, row.command_id)
                  ELSE Rejected("IDEMPOTENCY_CONFLICT"))
  BY DEF AnswerFromKeyOwner
<1>2. row \in commands /\ Applied(row) /\ row.result \in ResultType
      /\ row.command_id \in CommandIds
  BY DEF KeyOwners, IInv, TypeOK
<1>3. CASE row.fingerprint = Fingerprint(envelope[c])
  <2> DEFINE r == Result("DUPLICATE", "NONE", row.result.first_seq,
                         row.result.last_seq, row.command_id)
  <2>1. Backed(envelope[c], r)
    BY <1>2, <1>3 DEF Backed, Result
  <2>2. r \in ResultType
    BY <1>2 DEF Result, ResultType, Outcomes, ErrorCodes
  <2> QED
    BY <1>1, <1>3, <2>1, <2>2, AnswerInv DEF AnswerFromKeyOwner
<1>4. CASE row.fingerprint # Fingerprint(envelope[c])
  <2>1. Backed(envelope[c], Rejected("IDEMPOTENCY_CONFLICT"))
    BY DEF Backed, Rejected, Result
  <2> QED
    BY <1>1, <1>4, <2>1, AnswerInv, ResultsTyped DEF AnswerFromKeyOwner, ErrorCodes
<1> QED
  BY <1>3, <1>4

(* A rollback, by SQLite or by the reducer, preserves the invariant.       *)
LEMMA FailureInv ==
    ASSUME IInv, NEW c \in Clients, StorageFails(c) \/ ReducerRaises(c) PROVE IInv'
<1>1. Backed(envelope[c], Raised) /\ Backed(envelope[c], Rejected("STORAGE_FAILURE"))
  BY DEF Backed, Raised, Rejected, Result
<1> QED
  BY <1>1, AnswerInv, ResultsTyped DEF StorageFails, ReducerRaises, ErrorCodes

(* A caller inside a call has a command.                                   *)
LEMMA InCall ==
    ASSUME TypeOK, NEW c \in Clients, phase[c] # "idle"
    PROVE  /\ envelope[c] \in Envelopes /\ envelope[c] \in EnvelopeType
           /\ envelope[c].mission_id \in Missions
BY BusAssumption DEF TypeOK, EnvelopeType

(* A decision that stands, made under the lock, preserves the invariant.   *)
LEMMA DecideInv ==
    ASSUME IInv, NEW c \in Clients, phase[c] = "locked",
           NEW r \in ResultType, NEW ps \in Seq(Events), Decide(c, r, ps),
           DecisionStands(c)'
    PROVE  IInv'
<1> USE DEF Decide
<1>1. TypeOK' /\ LockHeld'
  BY DEF IInv, TypeOK, LockHeld, tables
<1>2. phase'[c] = "writing"
  BY DEF IInv, TypeOK
<1> QED
  BY <1>1, <1>2, QuietStep DEF IInv, TypeOK

(* The decision to store a refusal is one that stands.                     *)
LEMMA RefuseInv ==
    ASSUME IInv, NEW c \in Clients, Refuse(c) PROVE IInv'
<1> DEFINE r == Rejected(RefusalCode(envelope[c]))
<1>1. r \in ResultType
  BY ResultsTyped DEF RefusalCode, ErrorCodes
<1>2. DecisionStands(c)'
  <2>1. envelope'[c] = envelope[c] /\ result'[c] = r /\ proposed'[c] = << >>
    BY DEF Refuse, Decide, IInv, TypeOK
  <2>2. Fresh(envelope[c])'
    BY DEF Refuse, Decide, Fresh, RowsOf, KeyOwners, Applied, tables
  <2> QED
    BY <2>1, <2>2 DEF DecisionStands, Rejected, Result
<1>3. << >> \in Seq(Events)
  OBVIOUS
<1> QED
  BY <1>1, <1>2, <1>3, DecideInv DEF Refuse

(* The decision to apply a command is one that stands.                     *)
LEMMA AcceptInv ==
    ASSUME IInv, NEW c \in Clients, Accept(c) PROVE IInv'
<1> DEFINE e == envelope[c]
           head == HeadSeq(e.mission_id)
           ps == Pending(e)
           r == Result("APPLIED", "NONE", head + 1, head + Len(ps), NoCommand)
<1>1. ps \in Seq(Events)
  BY DEF Pending
<1>2. e \in Envelopes /\ e \in EnvelopeType /\ e.mission_id \in Missions /\ head \in Nat
  BY InCall DEF IInv, Accept, HeadsAreNumbers
<1>3. r \in ResultType
  BY <1>1, <1>2 DEF Result, ResultType, Outcomes, ErrorCodes
<1>4. ps # << >> /\ (~Creates(e.intent) => e.expected_seq = head)
  BY DEF Accept, RefusalCode
<1>5. DecisionStands(c)'
  <2>1. envelope'[c] = e /\ result'[c] = r /\ proposed'[c] = ps
    BY DEF Accept, Decide, IInv, TypeOK
  <2>2. Fresh(e)' /\ HeadSeq(e.mission_id)' = head
    BY <2>1 DEF Accept, Decide, Fresh, RowsOf, KeyOwners, Applied, HeadSeq, Stream, tables
  <2> QED
    BY <1>4, <2>1, <2>2 DEF DecisionStands, Result
<1> QED
  BY <1>1, <1>3, <1>5, DecideInv DEF Accept

(* Leaving execute(), alive or not, preserves the invariant.               *)
LEMMA LeaveInv ==
    ASSUME IInv, NEW c \in Clients, Return(c) \/ Crash(c) PROVE IInv'
<1> USE DEF Return, Crash, Leave
<1>1. TypeOK'
  <2>1. << >> \in Seq(Events) /\ Unknown \in ResultType
    BY ResultsTyped
  <2>2. phase' \in [Clients -> {"idle", "waiting", "locked", "writing", "answering"}]
        /\ envelope' \in [Clients -> Envelopes \cup {NoEnvelope}]
        /\ \A d \in Clients : envelope'[d] = NoEnvelope <=> phase'[d] = "idle"
    BY DEF IInv, TypeOK
  <2>3. proposed \in [Clients -> Seq(Events)] /\ result \in [Clients -> ResultType]
    BY DEF IInv, TypeOK
  <2>4. proposed' \in [Clients -> Seq(Events)] /\ result' \in [Clients -> ResultType]
    BY <2>1, <2>3
  <2>5. lock' \in Clients \cup {NoClient}
    BY DEF IInv, TypeOK
  <2> QED
    BY <2>2, <2>4, <2>5 DEF IInv, TypeOK, tables
<1>2. LockHeld'
  BY BusAssumption DEF IInv, TypeOK, LockHeld
<1>3. phase'[c] = "idle"
  BY DEF IInv, TypeOK
<1> QED
  BY <1>1, <1>2, <1>3, QuietStep DEF IInv, TypeOK

-----------------------------------------------------------------------------
(* COMMIT, the only step that writes.                                      *)

(* COMMIT preserves the invariant.                                         *)
LEMMA CommitInv ==
    ASSUME IInv, NEW c \in Clients, Commit(c) PROVE IInv'
<1>a. PICK e : e = envelope[c]
  OBVIOUS
<1>b. PICK r : r = result[c]
  OBVIOUS
<1>c. PICK ps : ps = proposed[c]
  OBVIOUS
<1>d. PICK head : head = HeadSeq(e.mission_id)
  OBVIOUS
<1> DEFINE m == e.mission_id
           n == Len(ps)
           new == EventRows(e, ps, head)
           row == Row(e, r)
<1>1. /\ e \in EnvelopeType /\ m \in Missions /\ head \in Nat
      /\ r \in ResultType /\ ps \in Seq(Events) /\ n \in Nat
  BY <1>a, <1>b, <1>c, <1>d, InCall DEF Commit, WithRow, Projected, IInv, TypeOK, HeadsAreNumbers
<1>2. /\ r.outcome \in {"APPLIED", "REJECTED"}
      /\ r.outcome = "REJECTED" => ps = << >>
      /\ r.outcome = "APPLIED" =>
            /\ n > 0 /\ r.first_seq = head + 1 /\ r.last_seq = head + n
            /\ ~Creates(e.intent) => e.expected_seq = head
      /\ Fresh(e)
  BY <1>1, <1>a, <1>b, <1>c, <1>d DEF Commit, WithRow, Projected, IInv, DecisionsStand, DecisionStands
<1>3. commands' = commands \cup {row} /\ events' = events \cup new
  BY <1>a, <1>b, <1>c, <1>d DEF Commit, WithRow, Projected
<1>4. /\ row.command_id = e.command_id /\ row.idempotency_key = e.idempotency_key
      /\ row.fingerprint = Fingerprint(e) /\ row.result = r
      /\ row.fingerprint.mission_id = m /\ row.fingerprint.expected_seq = e.expected_seq
      /\ row.fingerprint.intent = e.intent
  BY DEF Row, Fingerprint
<1>5. \A ev \in new : /\ ev.mission_id = m /\ ev.command_id = e.command_id
                      /\ ev.seq \in (head + 1)..(head + n)
                      /\ ev.event = ps[ev.seq - head]
                      /\ ev.event \in Events
                      /\ ev = [mission_id |-> m, seq |-> ev.seq, command_id |-> e.command_id,
                               event |-> ps[ev.seq - head]]
  BY <1>1 DEF EventRows
<1>6. {ev.seq : ev \in new} = (head + 1)..(head + n)
  <2>1. \A k \in (head + 1)..(head + n) : \E ev \in new : ev.seq = k
    <3> TAKE k \in (head + 1)..(head + n)
    <3>1. k - head \in DOMAIN ps /\ head + (k - head) = k
      BY <1>1
    <3>2. [mission_id |-> e.mission_id, seq |-> head + (k - head),
           command_id |-> e.command_id, event |-> ps[k - head]] \in new
      BY <3>1 DEF EventRows
    <3> QED
      BY <3>1, <3>2
  <2> QED
    BY <2>1, <1>5
<1>7. \A k \in Missions : k # m => Stream(k)' = Stream(k)
  BY <1>3, <1>5 DEF Stream
<1>8. Stream(m)' = Stream(m) \cup new
  BY <1>3, <1>5 DEF Stream
<1>9. {ev.seq : ev \in Stream(m)'} = 1..(head + n)
  <2>1. {ev.seq : ev \in Stream(m)} = 1..head
    BY <1>1, <1>d DEF IInv, Consistent, StreamContiguous
  <2>2. {ev.seq : ev \in Stream(m) \cup new} = (1..head) \cup ((head + 1)..(head + n))
    BY <2>1, <1>6
  <2> QED
    BY <1>1, <1>8, <2>2
<1>10. HeadSeq(m)' = head + n
  BY <1>1, <1>9, HeadOfStreamNext
<1>11. \A k \in Missions : k # m => HeadSeq(k)' = HeadSeq(k)
  BY <1>7 DEF HeadSeq
<1> HIDE DEF new, row
<1>12. TypeOK'
  <2>1. row \in [command_id : CommandIds, idempotency_key : Keys \cup {NoKey},
                 fingerprint : [mission_id : Missions, expected_seq : Nat, intent : Intents],
                 result : ResultType]
    BY <1>1 DEF row, Row, Fingerprint, EnvelopeType
  <2>2. new \subseteq [mission_id : Missions, seq : Nat \ {0}, command_id : CommandIds,
                       event : Events]
    BY <1>1, <1>5 DEF EnvelopeType
  <2>3. DOMAIN projection' = Missions /\ lock' \in Clients \cup {NoClient}
    BY DEF Commit, WithRow, Projected, IInv, TypeOK
  <2>4. /\ phase' \in [Clients -> {"idle", "waiting", "locked", "writing", "answering"}]
        /\ \A d \in Clients : phase'[d] = "idle" <=> phase[d] = "idle"
    BY DEF Commit, WithRow, Projected, IInv, TypeOK
  <2> QED
    BY <1>3, <2>1, <2>2, <2>3, <2>4 DEF Commit, WithRow, Projected, IInv, TypeOK
<1>13. LockHeld'
  BY BusAssumption DEF Commit, WithRow, Projected, IInv, TypeOK, LockHeld
<1>14. HeadsAreNumbers' /\ VerdictsStored'
  BY <1>1, <1>2, <1>3, <1>4, <1>10, <1>11 DEF IInv, HeadsAreNumbers, VerdictsStored
<1>15. DecisionsStand'
  BY BusAssumption DEF Commit, WithRow, Projected, IInv, TypeOK, LockHeld, DecisionsStand
<1>16. StreamContiguous'
  <2> SUFFICES ASSUME NEW k \in Missions
               PROVE  /\ {ev.seq : ev \in Stream(k)'} = 1..(HeadSeq(k)')
                      /\ \A a, b \in Stream(k)' : a.seq = b.seq => a = b
    BY DEF StreamContiguous
  <2>1. CASE k # m
    BY <2>1, <1>7, <1>11 DEF IInv, Consistent, StreamContiguous
  <2>2. CASE k = m
    <3>1. \A a, b \in Stream(m) : a.seq = b.seq => a = b
      BY <1>1 DEF IInv, Consistent, StreamContiguous
    <3>2. \A a, b \in new : a.seq = b.seq => a = b
      BY <1>5
    <3>3. \A a \in Stream(m), b \in new : a.seq # b.seq
      <4>1. \A a \in Stream(m) : a.seq \in 1..head
        BY <1>1, <1>d DEF IInv, Consistent, StreamContiguous
      <4> QED
        BY <4>1, <1>1, <1>5
    <3> QED
      BY <2>2, <1>8, <1>9, <1>10, <3>1, <3>2, <3>3
  <2> QED
    BY <2>1, <2>2
<1>17. CommandsOwnTheirEvents'
  <2>1. ASSUME NEW ev \in events'
        PROVE  \E w \in commands' :
                  /\ Applied(w) /\ w.command_id = ev.command_id
                  /\ w.fingerprint.mission_id = ev.mission_id
                  /\ ev.seq \in w.result.first_seq..w.result.last_seq
    <3>1. CASE ev \in events
      BY <3>1, <1>3 DEF IInv, Consistent, CommandsOwnTheirEvents
    <3>2. CASE ev \in new
      <4>1. new # {} => r.outcome = "APPLIED"
        BY <1>1, <1>2, <1>5
      <4> QED
        BY <3>2, <4>1, <1>1, <1>2, <1>3, <1>4, <1>5 DEF Applied
    <3> QED
      BY <3>1, <3>2, <1>3
  <2>2. ASSUME NEW w \in commands', Applied(w)
        PROVE  /\ w.result.first_seq <= w.result.last_seq
               /\ w.result.first_seq..w.result.last_seq \subseteq
                    {ev.seq : ev \in {x \in Stream(w.fingerprint.mission_id)' :
                                         x.command_id = w.command_id}}
    <3>1. CASE w \in commands
      <4>1. w.fingerprint.mission_id \in Missions
        BY <3>1 DEF IInv, TypeOK
      <4>2. Stream(w.fingerprint.mission_id) \subseteq Stream(w.fingerprint.mission_id)'
        BY <4>1, <1>7, <1>8
      <4>3. /\ w.result.first_seq <= w.result.last_seq
            /\ w.result.first_seq..w.result.last_seq \subseteq
                 {ev.seq : ev \in {x \in Stream(w.fingerprint.mission_id) :
                                      x.command_id = w.command_id}}
        BY <3>1, <2>2 DEF IInv, Consistent, CommandsOwnTheirEvents
      <4> QED
        BY <4>2, <4>3
    <3>2. CASE w = row
      <4>1. \A x \in new : x \in Stream(m)' /\ x.command_id = w.command_id
        BY <3>2, <1>4, <1>5, <1>8
      <4>2. w.fingerprint.mission_id = m /\ w.result.first_seq = head + 1
            /\ w.result.last_seq = head + n /\ n > 0
        BY <3>2, <2>2, <1>2, <1>4 DEF Applied
      <4> QED
        BY <4>1, <4>2, <1>1, <1>6
    <3> QED
      BY <3>1, <3>2, <1>3
  <2> QED
    BY <2>1, <2>2 DEF CommandsOwnTheirEvents, Applied
<1>18. AppliedOncePerKey'
  <2>1. \A w \in commands :
          /\ w.command_id # row.command_id
          /\ Applied(w) /\ row.idempotency_key # NoKey
                => w.idempotency_key # row.idempotency_key
    BY <1>2, <1>4 DEF Fresh, RowsOf, KeyOwners
  <2> QED
    BY <1>3, <2>1 DEF AppliedOncePerKey, Applied, IInv, Consistent
<1>19. DecidedOnSeenState'
  BY <1>1, <1>2, <1>3, <1>4 DEF DecidedOnSeenState, Applied, IInv, Consistent
<1>20. AnswersAreDurable'
  <2> SUFFICES ASSUME NEW d \in Clients, phase'[d] = "answering"
               PROVE  Backed(envelope[d], result[d])'
    BY DEF AnswersAreDurable, Backed
  <2>1. UNCHANGED <<envelope, result>>
    BY DEF Commit, WithRow, Projected
  <2>2. CASE d = c
    <3>1. row \in commands' /\ (r.outcome = "APPLIED" => Applied(row))
      BY <1>3, <1>4 DEF Applied
    <3> QED
      BY <1>a, <1>b, <2>1, <2>2, <3>1, <1>2, <1>4 DEF Backed, Applied
  <2>3. CASE d # c
    <3>1. phase[d] = "answering"
      BY <2>3 DEF Commit, WithRow, Projected, IInv, TypeOK
    <3>2. Backed(envelope[d], result[d])
      BY <3>1, AnswersBacked DEF IInv, Consistent
    <3> QED
      BY <2>1, <3>2, <1>3 DEF Backed, Applied
  <2> QED
    BY <2>2, <2>3
<1> QED
  BY <1>12, <1>13, <1>14, <1>15, <1>16, <1>17, <1>18, <1>19, <1>20 DEF IInv, Consistent

-----------------------------------------------------------------------------
(* Every step.                                                             *)

(* Every step of every caller preserves the invariant.                     *)
LEMMA NextInv == IInv /\ [Next]_vars => IInv'
<1> SUFFICES ASSUME IInv, [Next]_vars PROVE IInv'
  OBVIOUS
<1>1. ASSUME NEW c \in Clients, NEW e \in Envelopes, Submit(c, e) PROVE IInv'
  BY <1>1, SubmitInv
<1>2. ASSUME NEW c \in Clients, Execute(c) PROVE IInv'
  BY <1>2, BeginInv, BusyInv, AnswerFromRowInv, AnswerFromKeyOwnerInv, RefuseInv,
     AcceptInv, FailureInv, CommitInv, LeaveInv DEF Execute
<1>3. ASSUME NEW c \in Clients, StorageFails(c) \/ Crash(c) PROVE IInv'
  BY <1>3, FailureInv, LeaveInv
<1>4. ASSUME UNCHANGED vars PROVE IInv'
  <2> USE <1>4 DEF vars, tables, calls
  <2>1. TypeOK' /\ LockHeld'
    BY DEF IInv, TypeOK, LockHeld
  <2>2. DecisionsStand' /\ AnswersAreDurable'
    BY DEF IInv, Consistent, DecisionsStand, DecisionStands, AnswersAreDurable,
       Fresh, RowsOf, KeyOwners, HeadSeq, Stream, Applied
  <2> QED
    BY <2>1, <2>2, QuietTables DEF IInv, Consistent
<1> QED
  BY <1>1, <1>2, <1>3, <1>4 DEF Next

(* The invariant holds throughout, whoever calls, retries and dies.        *)
THEOREM Invariance == Spec => []IInv
BY InitInv, NextInv, PTL DEF Spec

-----------------------------------------------------------------------------
(* What follows for the bus.                                               *)

(* The tables and every caller's place in execute() are typed.             *)
THEOREM TypeCorrect == Spec => []TypeOK
BY Invariance, PTL DEF IInv

(* The stream of every Mission is numbered without gap or repetition.      *)
THEOREM StreamsContiguous == Spec => []StreamContiguous
BY Invariance, PTL DEF IInv, Consistent

(* Verdicts and events are stored together or not at all.                  *)
THEOREM Atomicity == Spec => []CommandsOwnTheirEvents
BY Invariance, PTL DEF IInv, Consistent

(* No command_id is answered for twice, and no key is applied twice.       *)
THEOREM Idempotency == Spec => []AppliedOncePerKey
BY Invariance, PTL DEF IInv, Consistent

(* What is applied follows directly on what its author had seen.           *)
THEOREM OptimisticConcurrency == Spec => []DecidedOnSeenState
BY Invariance, PTL DEF IInv, Consistent

(* A caller that is told APPLIED or DUPLICATE finds the command stored.    *)
THEOREM Durability == Spec => []AnswersAreDurable
BY Invariance, PTL DEF IInv, Consistent

(* The constraints of the schema never refuse what execute() has decided.  *)
THEOREM ConstraintsAreSpare == Spec => []DecisionsCanBeWritten
<1>1. IInv => DecisionsCanBeWritten
  BY DEF IInv, DecisionsStand, DecisionStands, DecisionsCanBeWritten, ConstraintBites, Fresh
<1> QED
  BY <1>1, Invariance, PTL

(* No step changes or removes a stored verdict or event.                   *)
THEOREM Immutability == Spec => HistoryIsImmutable
<1>1. ASSUME [Next]_vars PROVE commands \subseteq commands' /\ events \subseteq events'
  <2>1. ASSUME NEW c \in Clients, Commit(c)
        PROVE  commands \subseteq commands' /\ events \subseteq events'
    BY <2>1 DEF Commit, WithRow, Projected
  <2>2. ASSUME NEW c \in Clients, NEW e \in Envelopes, Submit(c, e) PROVE UNCHANGED tables
    BY <2>2 DEF Submit
  <2>3. ASSUME NEW c \in Clients, Execute(c) \/ StorageFails(c) \/ Crash(c), ~Commit(c)
        PROVE  UNCHANGED tables
    BY <2>3 DEF Execute, Begin, Busy, AnswerFromRow, AnswerFromKeyOwner, Answer, Refuse,
       Accept, Decide, ReducerRaises, Return, StorageFails, Crash
  <2> QED
    BY <1>1, <2>1, <2>2, <2>3 DEF Next, vars, tables
<1>2. [Next]_vars => [commands \subseteq commands' /\ events \subseteq events']_vars
  BY <1>1
<1> QED
  BY <1>2, PTL DEF Spec, HistoryIsImmutable

-----------------------------------------------------------------------------
(*****************************************************************************)
(* The bus implements the ledger: with its lock, its rollbacks and its       *)
(* crashes it is one in which each command is decided for once, at the       *)
(* instant of COMMIT.  Then the streams: a fold over a sequence is determined*)
(* by the states it passes (Path), one path is a prefix of the other when an *)
(* event is appended, and the bus appends only what it has just reduced.     *)
(*****************************************************************************)

(* Between the decision and COMMIT, the reason for it stands.              *)
DecisionMeant(c) ==
    LET e == envelope[c]
    IN  \/ result[c].outcome = "REJECTED" /\ RefusalCode(e) # "NONE"
        \/ /\ result[c].outcome = "APPLIED" /\ RefusalCode(e) = "NONE"
           /\ proposed[c] = Pending(e)
           /\ StateAfter(e.mission_id, Pending(e)) # ReducerRaised

DecisionsMeant == \A c \in Clients : phase[c] = "writing" => DecisionMeant(c)

(* What a command makes of the tables depends on nothing but the commands  *)
(* and the events in them.                                                 *)
LEMMA SameTables ==
    ASSUME UNCHANGED tables \/ UNCHANGED <<commands, events>>
    PROVE  /\ \A m : Stream(m)' = Stream(m) /\ HeadSeq(m)' = HeadSeq(m) /\ Replay(m)' = Replay(m)
           /\ \A e : Pending(e)' = Pending(e) /\ RefusalCode(e)' = RefusalCode(e)
           /\ \A m, ps : StateAfter(m, ps)' = StateAfter(m, ps)
           /\ Verdicts' = Verdicts /\ Streams' = Streams
<1>1. commands' = commands /\ events' = events
  BY DEF tables
<1>2. \A m : Stream(m)' = Stream(m)
  BY <1>1 DEF Stream
<1>3. \A m : HeadSeq(m)' = HeadSeq(m)
  BY <1>2 DEF HeadSeq
<1>4. \A m, i : EventAt(m, i)' = EventAt(m, i)
  BY <1>2 DEF EventAt
<1>5. \A m : Facts(m)' = Facts(m)
  BY <1>3, <1>4 DEF Facts
<1>6. \A m : Replay(m)' = Replay(m)
  BY <1>5 DEF Replay
<1>7. \A e : Pending(e)' = Pending(e)
  BY <1>6 DEF Pending
<1>8. \A e : RefusalCode(e)' = RefusalCode(e)
  BY <1>3, <1>6, <1>7 DEF RefusalCode
<1>9. \A m, ps : StateAfter(m, ps)' = StateAfter(m, ps)
  BY <1>6 DEF StateAfter
<1>10. Verdicts' = Verdicts /\ Streams' = Streams
  BY <1>1, <1>3, <1>4 DEF Verdicts, Streams, Applied
<1> QED
  BY <1>2, <1>3, <1>6, <1>7, <1>8, <1>9, <1>10

-----------------------------------------------------------------------------
(* The reasons of a decision stand until it is written.                    *)

(* A decision that was meant still is, for a caller that has not moved.    *)
LEMMA MeantStands ==
    ASSUME NEW c \in Clients, DecisionMeant(c), UNCHANGED tables,
           envelope'[c] = envelope[c], result'[c] = result[c], proposed'[c] = proposed[c]
    PROVE  DecisionMeant(c)'
<1>1. PICK e : e = envelope[c]
  OBVIOUS
<1>2. /\ Pending(e)' = Pending(e) /\ RefusalCode(e)' = RefusalCode(e)
      /\ \A ps : StateAfter(e.mission_id, ps)' = StateAfter(e.mission_id, ps)
  BY SameTables
<1> QED
  BY <1>1, <1>2 DEF DecisionMeant

(* Nobody has decided anything yet.                                        *)
LEMMA MeantInit == Init => DecisionsMeant
BY DEF Init, DecisionsMeant

(* The lock keeps other callers from changing what a decision rests on.    *)
LEMMA MeantNext ==
    ASSUME IInv, DecisionsMeant, [Next]_vars
    PROVE  DecisionsMeant'
<1> SUFFICES ASSUME NEW d \in Clients, phase'[d] = "writing"
             PROVE  DecisionMeant(d)'
  BY DEF DecisionsMeant
<1> USE DEF IInv, TypeOK
<1>1. ASSUME UNCHANGED tables, phase[d] = "writing",
             envelope'[d] = envelope[d], result'[d] = result[d], proposed'[d] = proposed[d]
      PROVE  DecisionMeant(d)'
  <2>1. DecisionMeant(d)
    BY <1>1 DEF DecisionsMeant
  <2> QED
    BY <1>1, <2>1, MeantStands
<1>2. ASSUME NEW c \in Clients, NEW e \in Envelopes, Submit(c, e) PROVE DecisionMeant(d)'
  BY <1>1, <1>2 DEF Submit
<1>3. ASSUME NEW c \in Clients, Begin(c) PROVE DecisionMeant(d)'
  BY <1>1, <1>3 DEF Begin
<1>4. ASSUME NEW c \in Clients, Busy(c) PROVE DecisionMeant(d)'
  BY <1>1, <1>4 DEF Busy
<1>5. ASSUME NEW c \in Clients, NEW r, Answer(c, r) PROVE DecisionMeant(d)'
  BY <1>1, <1>5 DEF Answer
<1>6. ASSUME NEW c \in Clients, Refuse(c) PROVE DecisionMeant(d)'
  <2>1. CASE c = d
    <3>1. PICK e : e = envelope[d]
      OBVIOUS
    <3>2. /\ UNCHANGED tables /\ envelope' = envelope
          /\ result'[d] = Rejected(RefusalCode(e)) /\ RefusalCode(e) # "NONE"
      BY <1>6, <2>1, <3>1 DEF Refuse, Decide
    <3>3. RefusalCode(e)' = RefusalCode(e)
      BY <3>2, SameTables
    <3>4. result'[d].outcome = "REJECTED"
      BY <3>2 DEF Rejected, Result
    <3> QED
      BY <3>1, <3>2, <3>3, <3>4 DEF DecisionMeant
  <2>2. CASE c # d
    BY <1>1, <1>6, <2>2 DEF Refuse, Decide
  <2> QED
    BY <2>1, <2>2
<1>7. ASSUME NEW c \in Clients, Accept(c) PROVE DecisionMeant(d)'
  <2>1. CASE c = d
    <3>1. PICK e : e = envelope[d]
      OBVIOUS
    <3>2. /\ UNCHANGED tables /\ envelope' = envelope
          /\ proposed'[d] = Pending(e) /\ RefusalCode(e) = "NONE"
          /\ StateAfter(e.mission_id, Pending(e)) # ReducerRaised
          /\ result'[d] = Result("APPLIED", "NONE", HeadSeq(e.mission_id) + 1,
                                 HeadSeq(e.mission_id) + Len(Pending(e)), NoCommand)
      BY <1>7, <2>1, <3>1 DEF Accept, Decide
    <3>3. /\ RefusalCode(e)' = RefusalCode(e) /\ Pending(e)' = Pending(e)
          /\ \A ps : StateAfter(e.mission_id, ps)' = StateAfter(e.mission_id, ps)
      BY <3>2, SameTables
    <3>4. result'[d].outcome = "APPLIED"
      BY <3>2 DEF Result
    <3>5. PICK ps : ps = Pending(e)
      OBVIOUS
    <3>6. StateAfter(e.mission_id, ps)' # ReducerRaised /\ Pending(e)' = ps
      BY <3>2, <3>3, <3>5
    <3> QED
      BY <3>1, <3>2, <3>3, <3>4, <3>5, <3>6 DEF DecisionMeant
  <2>2. CASE c # d
    BY <1>1, <1>7, <2>2 DEF Accept, Decide
  <2> QED
    BY <2>1, <2>2
<1>8. ASSUME NEW c \in Clients, Commit(c) PROVE DecisionMeant(d)'
  BY <1>8 DEF Commit, LockHeld
<1>9. ASSUME NEW c \in Clients, Return(c) \/ Crash(c) PROVE DecisionMeant(d)'
  BY <1>1, <1>9 DEF Return, Crash, Leave
<1>10. CASE UNCHANGED vars
  BY <1>1, <1>10 DEF vars, calls
<1> QED
  BY <1>2, <1>3, <1>4, <1>5, <1>6, <1>7, <1>8, <1>9, <1>10
     DEF Next, Execute, AnswerFromRow, AnswerFromKeyOwner, ReducerRaises, StorageFails

(* The tables of the ledger agree with the tables of the bus.              *)
LEMMA StreamsTyped ==
    ASSUME HeadsAreNumbers, NEW m \in Missions
    PROVE  /\ Len(Streams[m]) = HeadSeq(m)
           /\ Ledger!StateOf(Streams[m]) = Replay(m)
<1>1. HeadSeq(m) \in Nat
  BY DEF HeadsAreNumbers
<1>2. Streams[m] = [i \in 1..HeadSeq(m) |->
                      [command_id |-> EventAt(m, i).command_id, event |-> EventAt(m, i).event]]
  BY DEF Streams
<1>3. Len(Streams[m]) = HeadSeq(m)
  BY <1>1, <1>2
<1>4. [i \in 1..Len(Streams[m]) |-> Streams[m][i].event] = Facts(m)
  <2>1. \A i \in 1..HeadSeq(m) : Streams[m][i].event = EventAt(m, i).event
    BY <1>2
  <2> QED
    BY <1>3, <2>1 DEF Facts
<1>5. Ledger!StateOf(Streams[m]) = Reduced(InitialState, Facts(m))
  BY <1>4 DEF Ledger!StateOf
<1> QED
  BY <1>3, <1>5 DEF Replay

-----------------------------------------------------------------------------
(* COMMIT is a step of the ledger.                                         *)

(* A command that is fresh to the bus is undecided in the ledger.          *)
LEMMA FreshIsUndecided ==
    ASSUME NEW e, Fresh(e)
    PROVE  Ledger!Undecided(e)
BY DEF Fresh, RowsOf, KeyOwners, Verdicts, Ledger!Undecided

(* The bus refuses for the reasons of the ledger, and applies what the     *)
(* handler makes of the whole history.                                     *)
LEMMA ReasonsAgree ==
    ASSUME HeadsAreNumbers, NEW e \in Envelopes
    PROVE  /\ RefusalCode(e) # "NONE" => Ledger!Refusable(e)
           /\ RefusalCode(e) = "NONE" =>
                 /\ ~Ledger!Refusable(e)
                 /\ Pending(e) = Handle(e.intent, Ledger!StateOf(Streams[e.mission_id]))
<1>1. PICK m \in Missions : m = e.mission_id
  BY BusAssumption DEF EnvelopeType
<1>2. Len(Streams[m]) = HeadSeq(m) /\ Ledger!StateOf(Streams[m]) = Replay(m)
  BY StreamsTyped
<1>3. PICK ps : ps = Handle(e.intent, Replay(m))
  OBVIOUS
<1>4. Pending(e) = << >> <=> ps \notin Seq(Events) \ {<< >>}
  BY <1>1, <1>3 DEF Pending
<1>5. Pending(e) # << >> => Pending(e) = ps
  BY <1>1, <1>3 DEF Pending
<1> QED
  BY <1>1, <1>2, <1>3, <1>4, <1>5 DEF RefusalCode, Ledger!Refusable

(* The row of a command is its verdict.                                    *)
LEMMA RowIsVerdict ==
    ASSUME NEW e, NEW r, NEW applied \in BOOLEAN, commands' = commands \cup {Row(e, r)},
           applied <=> r.outcome = "APPLIED"
    PROVE  Verdicts' = Verdicts \cup {Ledger!Verdict(e, applied)}
<1> DEFINE V(row) == [command_id |-> row.command_id, idempotency_key |-> row.idempotency_key,
                      mission_id |-> row.fingerprint.mission_id,
                      intent |-> row.fingerprint.intent, applied |-> Applied(row)]
<1>1. Verdicts = {V(row) : row \in commands} /\ Verdicts' = {V(row) : row \in commands'}
  BY DEF Verdicts, Applied
<1>2. V(Row(e, r)) = Ledger!Verdict(e, applied)
  <2>1. Applied(Row(e, r)) = applied
    BY DEF Applied, Row
  <2> QED
    BY <2>1 DEF Row, Fingerprint, Ledger!Verdict
<1> HIDE DEF V
<1> QED
  BY <1>1, <1>2

(* The event under a number is the only one under it, before and after a   *)
(* step.                                                                   *)
LEMMA EventAtItsNumber ==
    ASSUME StreamContiguous, NEW m \in Missions, NEW ev \in Stream(m)
    PROVE  EventAt(m, ev.seq) = ev
BY DEF StreamContiguous, EventAt

(* The same after a step.                                                  *)
LEMMA EventAtItsNumberNext ==
    ASSUME StreamContiguous', NEW m \in Missions, NEW ev \in Stream(m)'
    PROVE  EventAt(m, ev.seq)' = ev
BY DEF StreamContiguous, EventAt

Appends(e, ps) ==
    Streams' = [Streams EXCEPT ![e.mission_id] =
                  @ \o [i \in 1..Len(ps) |-> Ledger!Entry(e.command_id, ps[i])]]

(* COMMIT numbers the events of its command from the head on, and leaves   *)
(* every other event in its place.                                         *)
LEMMA CommitEvents ==
    ASSUME IInv, IInv', NEW c \in Clients, Commit(c),
           NEW e, e = envelope[c], NEW ps, ps = proposed[c],
           NEW m, m = e.mission_id, NEW head, head = HeadSeq(m), NEW n, n = Len(ps)
    PROVE  /\ e \in Envelopes /\ m \in Missions /\ head \in Nat
           /\ ps \in Seq(Events) /\ n \in Nat /\ DOMAIN ps = 1..n
           /\ HeadSeq(m)' = head + n
           /\ \A i \in 1..head : EventAt(m, i)' = EventAt(m, i)
           /\ \A i \in 1..n : EventAt(m, head + i)' =
                 [mission_id |-> m, seq |-> head + i, command_id |-> e.command_id,
                  event |-> ps[i]]
           /\ \A k \in Missions : k # m =>
                 HeadSeq(k)' = HeadSeq(k) /\ \A i : EventAt(k, i)' = EventAt(k, i)
<1> DEFINE row(i) == [mission_id |-> m, seq |-> head + i, command_id |-> e.command_id,
                      event |-> ps[i]]
<1>1. /\ e \in Envelopes /\ m \in Missions /\ head \in Nat
      /\ ps \in Seq(Events) /\ n \in Nat /\ DOMAIN ps = 1..n
  <2>1. e \in Envelopes /\ ps \in Seq(Events)
    BY DEF Commit, IInv, TypeOK
  <2>2. m \in Missions
    BY <2>1, BusAssumption DEF EnvelopeType
  <2> QED
    BY <2>1, <2>2 DEF IInv, HeadsAreNumbers
<1>2. events' = events \cup {row(i) : i \in 1..n}
  <2>1. events' = events \cup EventRows(e, ps, head)
    BY DEF Commit
  <2> QED
    BY <2>1, <1>1 DEF EventRows
<1>3. \A k \in Missions : k # m => Stream(k)' = Stream(k)
  BY <1>2 DEF Stream
<1>4. Stream(m)' = Stream(m) \cup {row(i) : i \in 1..n}
  BY <1>2 DEF Stream
<1>5. StreamContiguous /\ StreamContiguous'
  BY DEF IInv, Consistent
<1>6. HeadSeq(m)' = head + n
  <2>1. {ev.seq : ev \in Stream(m)} = 1..head
    BY <1>1, <1>5 DEF StreamContiguous
  <2>2. \A k \in (head + 1)..(head + n) : row(k - head).seq = k /\ k - head \in 1..n
    BY <1>1
  <2>3. {ev.seq : ev \in {row(i) : i \in 1..n}} = (head + 1)..(head + n)
    <3>1. \A ev \in {row(i) : i \in 1..n} : ev.seq \in (head + 1)..(head + n)
      <4>1. \A i \in 1..n : row(i).seq \in (head + 1)..(head + n)
        BY <1>1
      <4> HIDE DEF row
      <4> QED
        BY <4>1
    <3>2. \A k \in (head + 1)..(head + n) :
            \E ev \in {row(i) : i \in 1..n} : ev.seq = k
      <4> TAKE k \in (head + 1)..(head + n)
      <4>1. PICK i \in 1..n : row(i).seq = k
        BY <2>2
      <4>2. row(i) \in {row(j) : j \in 1..n}
        OBVIOUS
      <4> HIDE DEF row
      <4> QED
        BY <4>1, <4>2
    <3> QED
      BY <3>1, <3>2
  <2> HIDE DEF row
  <2>4. {ev.seq : ev \in Stream(m)'} = (1..head) \cup ((head + 1)..(head + n))
    BY <1>4, <2>1, <2>3
  <2>5. (1..head) \cup ((head + 1)..(head + n)) = 1..(head + n)
    BY <1>1
  <2> QED
    BY <1>1, <2>4, <2>5, HeadOfStreamNext
<1>7. \A i \in 1..head : EventAt(m, i)' = EventAt(m, i)
  <2> TAKE i \in 1..head
  <2>1. PICK ev \in Stream(m) : ev.seq = i
    <3>1. i \in {ev.seq : ev \in Stream(m)}
      BY <1>1, <1>5 DEF StreamContiguous
    <3> QED
      BY <3>1
  <2>2. EventAt(m, i) = ev
    BY <1>1, <1>5, <2>1, EventAtItsNumber
  <2>3. ev \in Stream(m)'
    BY <1>4, <2>1
  <2>4. EventAt(m, i)' = ev
    BY <1>1, <1>5, <2>1, <2>3, EventAtItsNumberNext
  <2> QED
    BY <2>2, <2>4
<1>8. \A i \in 1..n : EventAt(m, head + i)' = row(i)
  <2> TAKE i \in 1..n
  <2>1. row(i) \in Stream(m)'
    BY <1>4
  <2>2. row(i).seq = head + i
    OBVIOUS
  <2> HIDE DEF row
  <2>3. PICK ev : ev = row(i)
    OBVIOUS
  <2>4. ev \in Stream(m)' /\ ev.seq = head + i
    BY <2>1, <2>2, <2>3
  <2>5. EventAt(m, ev.seq)' = ev
    BY <1>1, <1>5, <2>4, EventAtItsNumberNext
  <2> QED
    BY <2>3, <2>4, <2>5
<1>9. \A k \in Missions : k # m =>
        HeadSeq(k)' = HeadSeq(k) /\ \A i : EventAt(k, i)' = EventAt(k, i)
  BY <1>3 DEF HeadSeq, EventAt
<1> QED
  BY <1>1, <1>6, <1>7, <1>8, <1>9

(* COMMIT of an applied command puts its events behind its Mission's       *)
(* stream, and touches no other stream.                                    *)
LEMMA CommitAppends ==
    ASSUME IInv, IInv', NEW c \in Clients, Commit(c),
           NEW e, e = envelope[c], NEW ps, ps = proposed[c]
    PROVE  e \in Envelopes /\ ps \in Seq(Events) /\ Appends(e, ps)
<1>a. PICK m : m = e.mission_id
  OBVIOUS
<1>b. PICK head : head = HeadSeq(m)
  OBVIOUS
<1>c. PICK n : n = Len(ps)
  OBVIOUS
<1> DEFINE row(i) == [mission_id |-> m, seq |-> head + i, command_id |-> e.command_id,
                      event |-> ps[i]]
<1>1. /\ e \in Envelopes /\ m \in Missions /\ head \in Nat
      /\ ps \in Seq(Events) /\ n \in Nat /\ DOMAIN ps = 1..n
  BY <1>a, <1>b, <1>c, CommitEvents
<1>6. HeadSeq(m)' = head + n
  BY <1>a, <1>b, <1>c, CommitEvents
<1>7. \A i \in 1..head : EventAt(m, i)' = EventAt(m, i)
  BY <1>a, <1>b, <1>c, CommitEvents
<1>8. \A i \in 1..n : EventAt(m, head + i)' = row(i)
  BY <1>a, <1>b, <1>c, CommitEvents
<1>9. \A k \in Missions : k # m => Streams'[k] = Streams[k]
  <2> TAKE k \in Missions
  <2> HAVE k # m
  <2>1. HeadSeq(k)' = HeadSeq(k) /\ \A i : EventAt(k, i)' = EventAt(k, i)
    BY <1>a, <1>b, <1>c, CommitEvents
  <2> QED
    BY <2>1 DEF Streams
<1>10. Streams'[m] = Streams[m] \o [i \in 1..n |-> Ledger!Entry(e.command_id, ps[i])]
  <2> DEFINE new == [i \in 1..n |-> Ledger!Entry(e.command_id, ps[i])]
             old == Streams[m]
             entry(ev) == [command_id |-> ev.command_id, event |-> ev.event]
  <2>1. old = [i \in 1..head |-> entry(EventAt(m, i))]
    BY <1>1, <1>b DEF Streams
  <2>2. Streams'[m] = [i \in 1..(head + n) |-> entry(EventAt(m, i)')]
    BY <1>1, <1>6 DEF Streams
  <2>3. \A i \in 1..n : entry(row(i)) = new[i]
    BY DEF Ledger!Entry
  <2>4. \A i \in 1..head : Streams'[m][i] = old[i]
    <3> TAKE i \in 1..head
    <3>1. i \in 1..(head + n)
      BY <1>1
    <3> HIDE DEF entry
    <3> QED
      BY <3>1, <2>1, <2>2, <1>7
  <2>5. \A i \in 1..n : Streams'[m][head + i] = new[i]
    <3> TAKE i \in 1..n
    <3>1. head + i \in 1..(head + n)
      BY <1>1
    <3>2. Streams'[m][head + i] = entry(EventAt(m, head + i)')
      BY <3>1, <2>2
    <3> HIDE DEF entry, row, new
    <3> QED
      BY <3>2, <1>8, <2>3
  <2> DEFINE S == {old[i] : i \in 1..head} \cup {new[i] : i \in 1..n}
  <2>6. /\ old \in Seq(S) /\ Len(old) = head
        /\ new \in Seq(S) /\ Len(new) = n
    <3>1. DOMAIN old = 1..head /\ DOMAIN new = 1..n
          /\ old = [i \in 1..head |-> old[i]] /\ new = [i \in 1..n |-> new[i]]
      BY <2>1
    <3> HIDE DEF old, new
    <3>2. old \in [1..head -> S] /\ new \in [1..n -> S]
      BY <3>1
    <3> HIDE DEF S
    <3> QED
      BY <3>1, <3>2, <1>1
  <2> HIDE DEF old, new, entry, row, S
  <2>7. DOMAIN Streams'[m] = 1..(head + n) /\ Streams'[m] = [i \in 1..(head + n) |-> Streams'[m][i]]
    BY <2>2
  <2>8. old \o new = [i \in 1..(head + n) |-> IF i <= head THEN old[i] ELSE new[i - head]]
    <3>1. /\ old \o new \in Seq(S) /\ Len(old \o new) = head + n
          /\ \A i \in 1..(head + n) :
                (old \o new)[i] = IF i <= head THEN old[i] ELSE new[i - head]
      BY <2>6, ConcatProperties
    <3>2. \A cat \in Seq(S) : Len(cat) = head + n => cat = [i \in 1..(head + n) |-> cat[i]]
      OBVIOUS
    <3>3. old \o new = [i \in 1..(head + n) |-> (old \o new)[i]]
      BY <3>1, <3>2
    <3> QED
      BY <3>1, <3>3
  <2>9. \A i \in 1..(head + n) :
          Streams'[m][i] = IF i <= head THEN old[i] ELSE new[i - head]
    <3> TAKE i \in 1..(head + n)
    <3>1. CASE i <= head
      BY <1>1, <2>4, <3>1
    <3>2. CASE ~(i <= head)
      <4>1. i - head \in 1..n /\ head + (i - head) = i
        BY <1>1, <3>2
      <4> QED
        BY <3>2, <4>1, <2>5
    <3> QED
      BY <3>1, <3>2
  <2> QED
    BY <2>7, <2>8, <2>9 DEF old, new
<1> QED
  <2>1. DOMAIN Streams = Missions /\ DOMAIN Streams' = Missions
        /\ Streams' = [k \in Missions |-> Streams'[k]]
    BY DEF Streams
  <2> HIDE DEF row
  <2> QED
    BY <1>1, <1>9, <1>10, <1>a, <1>c, <2>1 DEF Appends

(* COMMIT is the instant of the verdict: a refusal or an application.      *)
LEMMA CommitDecides ==
    ASSUME IInv, IInv', DecisionsMeant, NEW c \in Clients, Commit(c)
    PROVE  Ledger!LedgerNext
<1>1. PICK e : e = envelope[c]
  OBVIOUS
<1>2. PICK r : r = result[c]
  OBVIOUS
<1>3. PICK ps : ps = proposed[c]
  OBVIOUS
<1>4. e \in Envelopes /\ ps \in Seq(Events) /\ Appends(e, ps)
  BY <1>1, <1>3, CommitAppends
<1>5. /\ Fresh(e) /\ r.outcome \in {"APPLIED", "REJECTED"}
      /\ r.outcome = "REJECTED" => ps = << >>
  BY <1>1, <1>2, <1>3 DEF Commit, IInv, DecisionsStand, DecisionStands
<1>6. commands' = commands \cup {Row(e, r)}
  BY <1>1, <1>2 DEF Commit, WithRow
<1>7. \/ r.outcome = "REJECTED" /\ RefusalCode(e) # "NONE"
      \/ /\ r.outcome = "APPLIED" /\ RefusalCode(e) = "NONE" /\ ps = Pending(e)
         /\ StateAfter(e.mission_id, ps) # ReducerRaised
  BY <1>1, <1>2, <1>3 DEF Commit, DecisionsMeant, DecisionMeant
<1>8. Ledger!Undecided(e)
  BY <1>5, FreshIsUndecided
<1>9. HeadsAreNumbers
  BY DEF IInv
<1>10. CASE r.outcome = "REJECTED"
  <2>1. Ledger!Refusable(e)
    BY <1>4, <1>7, <1>9, <1>10, ReasonsAgree
  <2>2. Verdicts' = Verdicts \cup {Ledger!Verdict(e, FALSE)}
    BY <1>6, <1>10, RowIsVerdict
  <2>3. Streams' = Streams
    <3>1. events' = events \cup EventRows(e, << >>, HeadSeq(e.mission_id))
      BY <1>1, <1>3, <1>5, <1>10 DEF Commit
    <3>2. events' = events
      BY <3>1 DEF EventRows
    <3>3. \A m, i : HeadSeq(m)' = HeadSeq(m) /\ EventAt(m, i)' = EventAt(m, i)
      BY <3>2 DEF HeadSeq, EventAt, Stream
    <3> QED
      BY <3>3 DEF Streams
  <2>4. Ledger!Refuse(e)
    BY <1>8, <2>1, <2>2, <2>3 DEF Ledger!Refuse
  <2> QED
    BY <1>4, <2>4 DEF Ledger!LedgerNext
<1>11. CASE r.outcome = "APPLIED"
  <2>1. PICK m \in Missions : m = e.mission_id
    BY <1>4, BusAssumption DEF EnvelopeType
  <2>2. ~Ledger!Refusable(e) /\ ps = Handle(e.intent, Ledger!StateOf(Streams[m]))
    BY <1>4, <1>7, <1>9, <1>11, <2>1, ReasonsAgree
  <2>3. Verdicts' = Verdicts \cup {Ledger!Verdict(e, TRUE)}
    BY <1>6, <1>11, RowIsVerdict
  <2>4. Reduced(Ledger!StateOf(Streams[m]), ps) # ReducerRaised
    BY <1>7, <1>9, <1>11, <2>1, StreamsTyped DEF StateAfter
  <2>5. Ledger!Apply(e)
    BY <1>4, <1>8, <2>1, <2>2, <2>3, <2>4 DEF Ledger!Apply, Appends
  <2> QED
    BY <1>4, <2>5 DEF Ledger!LedgerNext
<1> QED
  BY <1>5, <1>10, <1>11

(* Every step of the bus is a verdict of the ledger, or none of its        *)
(* business.                                                               *)
LEMMA StepImplements ==
    ASSUME IInv, IInv', DecisionsMeant, [Next]_vars
    PROVE  [Ledger!LedgerNext]_<<Verdicts, Streams>>
<1>1. ASSUME NEW c \in Clients, Commit(c) PROVE Ledger!LedgerNext
  BY <1>1, CommitDecides
<1>2. ASSUME NEW c \in Clients, NEW e \in Envelopes, Submit(c, e) PROVE UNCHANGED tables
  BY <1>2 DEF Submit
<1>3. ASSUME NEW c \in Clients, Execute(c) \/ StorageFails(c) \/ Crash(c), ~Commit(c)
      PROVE  UNCHANGED tables
  BY <1>3 DEF Execute, Begin, Busy, AnswerFromRow, AnswerFromKeyOwner, Answer, Refuse,
     Accept, Decide, ReducerRaises, Return, StorageFails, Crash
<1>4. UNCHANGED tables => UNCHANGED <<Verdicts, Streams>>
  BY SameTables
<1> QED
  BY <1>1, <1>2, <1>3, <1>4 DEF Next, vars

(* The empty tables are the empty ledger.                                  *)
LEMMA InitImplements == Init => Ledger!LedgerInit
<1> SUFFICES ASSUME Init PROVE Ledger!LedgerInit
  OBVIOUS
<1>1. Verdicts = {}
  BY DEF Init, Verdicts
<1>2. \A m \in Missions : HeadSeq(m) = 0
  <2> TAKE m \in Missions
  <2>1. {ev.seq : ev \in Stream(m)} = 1..0
    BY DEF Init, Stream
  <2> QED
    BY <2>1, HeadOfStream
<1>3. Streams = [m \in Missions |-> << >>]
  BY <1>2 DEF Streams
<1> QED
  BY <1>1, <1>3 DEF Ledger!LedgerInit

-----------------------------------------------------------------------------
(* A replay goes through the events one by one.                            *)

Log == INSTANCE MissionLogProofs WITH rows <- {}, stream <- << >>

(* What the fold of the community modules defines by recursion, over the   *)
(* sets of positions it has yet to visit.                                  *)
FoldUnfolds(f, st, s, D) ==
    f = [S \in SUBSET D |-> IF S = {} THEN st ELSE Reduce(f[S \ {Max(S)}], s[Max(S)])]

(* The fold over a sequence, as a function of its length.                  *)
LEMMA ReducedIsFold ==
    ASSUME NEW st, NEW s
    PROVE  Reduced(st, s) = (CHOOSE f : FoldUnfolds(f, st, s, DOMAIN s))[DOMAIN s]
BY DEF Reduced, FoldLeft, MapThenFoldSet, FoldUnfolds

(* The last of 1..n is the largest.                                        *)
LEMMA LastIsMax ==
    ASSUME NEW n \in Nat, NEW S \in SUBSET (1..n), n \in S
    PROVE  Max(S) = n
<1>1. n \in S /\ \A y \in S : n >= y
  OBVIOUS
<1>2. ASSUME NEW x \in S, \A y \in S : x >= y PROVE x = n
  BY <1>1, <1>2
<1>3. Max(S) \in S /\ \A y \in S : Max(S) >= y
  BY <1>1 DEF Max
<1> QED
  BY <1>2, <1>3

(* The fold exists, as its largest position can be taken off.              *)
LEMMA FoldExists ==
    ASSUME NEW st, NEW s, NEW n \in Nat
    PROVE  \E f : FoldUnfolds(f, st, s, 1..n)
<1> DEFINE G == {k \in Nat : \E f : FoldUnfolds(f, st, s, 1..k)}
<1>1. 0 \in G
  <2>1. PICK f : f = [S \in SUBSET (1..0) |-> st]
    OBVIOUS
  <2>2. \A S \in SUBSET (1..0) : S = {}
    OBVIOUS
  <2>3. FoldUnfolds(f, st, s, 1..0)
    BY <2>1, <2>2 DEF FoldUnfolds
  <2> QED
    BY <2>3
<1>2. ASSUME NEW k \in Nat, NEW f, FoldUnfolds(f, st, s, 1..k)
      PROVE  \E g : FoldUnfolds(g, st, s, 1..(k + 1))
  <2>1. PICK m \in Nat : m = k + 1
    OBVIOUS
  <2>2. PICK g : g = [S \in SUBSET (1..m) |-> IF m \in S THEN Reduce(f[S \ {m}], s[m]) ELSE f[S]]
    OBVIOUS
  <2>3. \A S \in SUBSET (1..m) : m \notin S => S \in SUBSET (1..k)
    BY <2>1
  <2>4. \A S \in SUBSET (1..k) :
          /\ S \in SUBSET (1..m) /\ m \notin S /\ g[S] = f[S]
          /\ f[S] = IF S = {} THEN st ELSE Reduce(f[S \ {Max(S)}], s[Max(S)])
    <3> TAKE S \in SUBSET (1..k)
    <3>1. S \in SUBSET (1..m) /\ m \notin S
      BY <2>1
    <3>2. g[S] = f[S]
      BY <2>2, <3>1
    <3> QED
      BY <1>2, <3>1, <3>2 DEF FoldUnfolds
  <2>5. ASSUME NEW S \in SUBSET (1..m)
        PROVE  g[S] = IF S = {} THEN st ELSE Reduce(g[S \ {Max(S)}], s[Max(S)])
    <3>1. CASE m \in S
      <4>1. Max(S) = m /\ S # {} /\ g[S] = Reduce(f[S \ {m}], s[m])
        BY <2>2, <3>1, LastIsMax
      <4>2. S \ {m} \in SUBSET (1..k)
        BY <2>3
      <4>3. g[S \ {m}] = f[S \ {m}]
        BY <2>4, <4>2
      <4> QED
        BY <4>1, <4>3
    <3>2. CASE m \notin S
      <4>1. PICK x : x = Max(S)
        OBVIOUS
      <4>2. S \in SUBSET (1..k) /\ S \ {x} \in SUBSET (1..k)
        BY <2>3, <3>2
      <4>3. g[S] = f[S] /\ g[S \ {x}] = f[S \ {x}]
            /\ f[S] = IF S = {} THEN st ELSE Reduce(f[S \ {x}], s[x])
        BY <2>4, <4>1, <4>2
      <4> QED
        BY <4>1, <4>3
    <3> QED
      BY <3>1, <3>2
  <2>6. FoldUnfolds(g, st, s, 1..m)
    BY <2>2, <2>5 DEF FoldUnfolds
  <2> QED
    BY <2>1, <2>6
<1>3. \A k \in Nat : k \in G => k + 1 \in G
  BY <1>2
<1>4. Nat \subseteq G
  <2> HIDE DEF G
  <2> QED
    BY <1>1, <1>3, Log!NatSetInduction
<1> QED
  BY <1>4

Path(h, st, s, n) == h[0] = st /\ \A i \in 1..n : h[i] = Reduce(h[i - 1], s[i])

(* The states that a replay passes through.                                *)
LEMMA ReplayPath ==
    ASSUME NEW st, NEW n \in Nat, NEW s, DOMAIN s = 1..n
    PROVE  \E h : Path(h, st, s, n) /\ Reduced(st, s) = h[n]
<1>1. PICK f : f = (CHOOSE g : FoldUnfolds(g, st, s, 1..n))
  OBVIOUS
<1>2. FoldUnfolds(f, st, s, 1..n) /\ Reduced(st, s) = f[1..n]
  BY <1>1, ReducedIsFold, FoldExists
<1>3. \A S \in SUBSET (1..n) :
        f[S] = IF S = {} THEN st ELSE Reduce(f[S \ {Max(S)}], s[Max(S)])
  BY <1>2 DEF FoldUnfolds
<1>4. PICK h : h = [i \in 0..n |-> f[1..i]]
  OBVIOUS
<1>5. h[0] = st
  <2>1. 0 \in 0..n /\ 1..0 = {}
    OBVIOUS
  <2> QED
    BY <1>3, <1>4, <2>1
<1>6. ASSUME NEW i \in 1..n PROVE h[i] = Reduce(h[i - 1], s[i])
  <2>1. PICK S : S = 1..i
    OBVIOUS
  <2>2. S \in SUBSET (1..n) /\ i \in S /\ S \ {i} = 1..(i - 1) /\ S \in SUBSET (1..i) /\ i \in Nat
    BY <2>1
  <2>3. Max(S) = i
    BY <2>2, LastIsMax
  <2>4. f[S] = Reduce(f[1..(i - 1)], s[i])
    BY <1>3, <2>2, <2>3
  <2>5. h[i] = f[S] /\ h[i - 1] = f[1..(i - 1)]
    BY <1>4, <2>1
  <2> QED
    BY <2>4, <2>5
<1>7. h[n] = f[1..n]
  BY <1>4
<1> QED
  BY <1>2, <1>5, <1>6, <1>7 DEF Path

(* Whatever passes from event to event as a replay does ends as it does.   *)
LEMMA PathsEndAlike ==
    ASSUME NEW st, NEW n \in Nat, NEW s, NEW t, NEW g, NEW h,
           Path(g, st, s, n), Path(h, st, t, n), \A i \in 1..n : s[i] = t[i]
    PROVE  g[n] = h[n]
<1> DEFINE G == {k \in Nat : k <= n => g[k] = h[k]}
<1>1. 0 \in G
  BY DEF Path
<1>2. ASSUME NEW k \in Nat, k \in G PROVE k + 1 \in G
  <2> SUFFICES ASSUME k + 1 <= n PROVE g[k + 1] = h[k + 1]
    OBVIOUS
  <2>1. PICK m : m = k + 1
    OBVIOUS
  <2>2. m \in 1..n /\ m - 1 = k /\ g[k] = h[k]
    BY <1>2, <2>1
  <2>3. g[m] = Reduce(g[k], s[m]) /\ h[m] = Reduce(h[k], t[m]) /\ s[m] = t[m]
    BY <2>2 DEF Path
  <2> QED
    BY <2>1, <2>2, <2>3
<1>3. \A k \in Nat : k \in G => k + 1 \in G
  BY <1>2
<1>4. Nat \subseteq G
  <2> HIDE DEF G
  <2> QED
    BY <1>1, <1>3, Log!NatSetInduction
<1> QED
  BY <1>4

(* The fold ends where a path ends.                                        *)
LEMMA ReducedAlong ==
    ASSUME NEW st, NEW n \in Nat, NEW s, DOMAIN s = 1..n, NEW h, Path(h, st, s, n)
    PROVE  Reduced(st, s) = h[n]
BY ReplayPath, PathsEndAlike

(* The replay of a longer stream continues the replay of the shorter one.  *)
Joined(s, a, p, b, q) ==
    /\ DOMAIN a = 1..p /\ DOMAIN b = 1..q /\ DOMAIN s = 1..(p + q)
    /\ \A i \in 1..p : s[i] = a[i]
    /\ \A i \in 1..q : s[p + i] = b[i]

(* Reducing two sequences one after the other is reducing them joined.     *)
LEMMA ReducedAppended ==
    ASSUME NEW st, NEW p \in Nat, NEW q \in Nat, NEW a, NEW b, NEW s, Joined(s, a, p, b, q)
    PROVE  Reduced(st, s) = Reduced(Reduced(st, a), b)
<1> USE DEF Joined
<1>1. PICK n \in Nat : n = p + q
  OBVIOUS
<1>2. PICK h : Path(h, st, s, n) /\ Reduced(st, s) = h[n]
  BY <1>1, ReplayPath
<1>3. Path(h, st, a, p)
  BY <1>1, <1>2 DEF Path
<1>4. Reduced(st, a) = h[p]
  BY <1>3, ReducedAlong
<1>5. PICK k : k = [j \in 0..q |-> h[p + j]]
  OBVIOUS
<1>6. Path(k, h[p], b, q)
  <2>1. k[0] = h[p]
    BY <1>5
  <2>2. ASSUME NEW j \in 1..q PROVE k[j] = Reduce(k[j - 1], b[j])
    <3>1. PICK i : i = p + j
      OBVIOUS
    <3>2. i \in 1..n /\ i - 1 = p + (j - 1) /\ s[i] = b[j]
      BY <1>1, <3>1
    <3>3. k[j] = h[i] /\ k[j - 1] = h[i - 1]
      BY <1>5, <3>1, <3>2
    <3> QED
      BY <1>2, <3>2, <3>3 DEF Path
  <2> QED
    BY <2>1, <2>2 DEF Path
<1>7. Reduced(h[p], b) = k[q]
  BY <1>6, ReducedAlong
<1>8. k[q] = h[n]
  BY <1>1, <1>5
<1> QED
  BY <1>2, <1>4, <1>7, <1>8

-----------------------------------------------------------------------------
(* What a COMMIT does to the replay of its Mission, and of the others.     *)
LEMMA CommitReplays ==
    ASSUME IInv, IInv', NEW c \in Clients, Commit(c),
           NEW e, e = envelope[c], NEW ps, ps = proposed[c],
           NEW m, m = e.mission_id
    PROVE  /\ m \in Missions /\ HeadSeq(m)' = HeadSeq(m) + Len(ps)
           /\ Replay(m)' = StateAfter(m, ps)
           /\ \A k \in Missions : k # m =>
                 HeadSeq(k)' = HeadSeq(k) /\ Replay(k)' = Replay(k)
<1>1. PICK head, n : head = HeadSeq(m) /\ n = Len(ps)
  OBVIOUS
<1>2. /\ e \in Envelopes /\ m \in Missions /\ head \in Nat
      /\ ps \in Seq(Events) /\ n \in Nat /\ DOMAIN ps = 1..n
      /\ HeadSeq(m)' = head + n
      /\ \A i \in 1..head : EventAt(m, i)' = EventAt(m, i)
      /\ \A i \in 1..n : EventAt(m, head + i)' =
            [mission_id |-> m, seq |-> head + i, command_id |-> e.command_id,
             event |-> ps[i]]
      /\ \A k \in Missions : k # m =>
            HeadSeq(k)' = HeadSeq(k) /\ \A i : EventAt(k, i)' = EventAt(k, i)
  BY <1>1, CommitEvents
<1>3. PICK a, b : a = Facts(m) /\ b = Facts(m)'
  OBVIOUS
<1>4. /\ DOMAIN a = 1..head /\ DOMAIN b = 1..(head + n)
      /\ \A i \in 1..head : b[i] = a[i]
      /\ \A i \in 1..n : b[head + i] = ps[i]
  <2>1. a = [i \in 1..head |-> EventAt(m, i).event]
    BY <1>1, <1>3 DEF Facts
  <2>2. b = [i \in 1..(head + n) |-> EventAt(m, i)'.event]
    BY <1>2, <1>3 DEF Facts
  <2>3. ASSUME NEW i \in 1..head PROVE b[i] = a[i]
    <3>1. i \in 1..(head + n)
      BY <1>2
    <3> QED
      BY <1>2, <2>1, <2>2, <3>1
  <2>4. ASSUME NEW i \in 1..n PROVE b[head + i] = ps[i]
    <3>1. head + i \in 1..(head + n)
      BY <1>2
    <3>2. b[head + i] = EventAt(m, head + i)'.event
      BY <2>2, <3>1
    <3>3. EventAt(m, head + i)' = [mission_id |-> m, seq |-> head + i,
                                   command_id |-> e.command_id, event |-> ps[i]]
      BY <1>2
    <3> QED
      BY <3>2, <3>3
  <2> QED
    BY <2>1, <2>2, <2>3, <2>4
<1>5. Reduced(InitialState, b) = Reduced(Reduced(InitialState, a), ps)
  <2>1. head \in Nat /\ n \in Nat /\ Joined(b, a, head, ps, n)
    BY <1>2, <1>4 DEF Joined
  <2> QED
    BY <2>1, ReducedAppended
<1>6. Replay(m)' = StateAfter(m, ps)
  BY <1>3, <1>5 DEF Replay, StateAfter, Reduced
<1>7. \A k \in Missions : k # m => Replay(k)' = Replay(k)
  BY <1>2 DEF Replay, Facts
<1> QED
  BY <1>1, <1>2, <1>6, <1>7

-----------------------------------------------------------------------------
(* The bus implements the ledger: whatever its callers do, retry and       *)
(* forget, and wherever they die, each command is given one verdict at one *)
(* instant, on the whole history its Mission then has.                     *)
THEOREM Implements == Spec => LedgerSpec
<1>1. IInv /\ DecisionsMeant /\ [Next]_vars => DecisionsMeant'
  BY MeantNext
<1>2. IInv /\ IInv' /\ DecisionsMeant /\ [Next]_vars
      => [Ledger!LedgerNext]_(Ledger!ledger)
  BY StepImplements DEF Ledger!ledger
<1> QED
  BY <1>1, <1>2, InitImplements, MeantInit, Invariance, PTL
     DEF Spec, LedgerSpec, Ledger!LedgerSpec

-----------------------------------------------------------------------------
(* The replay of no events is the initial state.                           *)
LEMMA EmptyReplays ==
    ASSUME Init, NEW m \in Missions
    PROVE  HeadSeq(m) = 0 /\ Replay(m) = InitialState
<1>1. HeadSeq(m) = 0
  <2>1. {ev.seq : ev \in Stream(m)} = 1..0
    BY DEF Init, Stream
  <2> QED
    BY <2>1, HeadOfStream
<1>2. PICK s : s = Facts(m)
  OBVIOUS
<1>3. DOMAIN s = 1..0
  BY <1>1, <1>2 DEF Facts
<1>4. PICK h : Path(h, InitialState, s, 0) /\ Reduced(InitialState, s) = h[0]
  BY <1>3, ReplayPath
<1>5. Replay(m) = InitialState
  BY <1>2, <1>4 DEF Replay, Path
<1> QED
  BY <1>1, <1>5

(* A step writes nothing, or it is a COMMIT.                               *)
LEMMA OnlyCommitWrites ==
    ASSUME [Next]_vars
    PROVE  UNCHANGED tables \/ \E c \in Clients : Commit(c)
<1>1. ASSUME NEW c \in Clients, NEW e \in Envelopes, Submit(c, e) PROVE UNCHANGED tables
  BY <1>1 DEF Submit
<1>2. ASSUME NEW c \in Clients, Execute(c) \/ StorageFails(c) \/ Crash(c), ~Commit(c)
      PROVE  UNCHANGED tables
  BY <1>2 DEF Execute, Begin, Busy, AnswerFromRow, AnswerFromKeyOwner, Answer, Refuse,
     Accept, Decide, ReducerRaises, Return, StorageFails, Crash
<1> QED
  BY <1>1, <1>2 DEF Next, vars

(* A COMMIT leads to a state the reducers did not raise on, or leaves the  *)
(* replay as it is.                                                        *)
LEMMA CommitIsReduced ==
    ASSUME IInv, IInv', DecisionsMeant, NEW c \in Clients, Commit(c),
           NEW m \in Missions, Replay(m) # ReducerRaised
    PROVE  Replay(m)' # ReducerRaised
<1>1. PICK e, ps, k : e = envelope[c] /\ ps = proposed[c] /\ k = e.mission_id
  OBVIOUS
<1>2. /\ Replay(k)' = StateAfter(k, ps)
      /\ m # k => Replay(m)' = Replay(m)
  BY <1>1, CommitReplays
<1>3. CASE m = k /\ result[c].outcome = "APPLIED"
  BY <1>1, <1>2, <1>3 DEF Commit, DecisionsMeant, DecisionMeant
<1>4. CASE m = k /\ result[c].outcome # "APPLIED"
  <2>1. ps = << >>
    BY <1>1, <1>4 DEF Commit, IInv, DecisionsStand, DecisionStands
  <2>2. PICK st : st = Replay(m)
    OBVIOUS
  <2>3. DOMAIN ps = 1..0
    BY <2>1
  <2>4. PICK h : Path(h, st, ps, 0) /\ Reduced(st, ps) = h[0]
    BY <2>3, ReplayPath
  <2>5. StateAfter(k, ps) = Replay(m)
    BY <1>4, <2>2, <2>4 DEF StateAfter, Path
  <2> QED
    BY <1>2, <1>4, <2>5
<1>5. CASE m # k
  BY <1>2, <1>5
<1> QED
  BY <1>3, <1>4, <1>5

(* Every stream in the store can be replayed, whatever the handlers of the *)
(* Extensions let through: what a handler proposes is reduced before it is *)
(* written, on the stream it will follow.                                  *)
THEOREM ReplayNeverRaises == Spec => []StreamsReplay
<1>1. Init => StreamsReplay
  BY EmptyReplays, BusAssumption DEF StreamsReplay
<1>2. IInv /\ IInv' /\ DecisionsMeant /\ StreamsReplay /\ [Next]_vars => StreamsReplay'
  <2> SUFFICES ASSUME IInv, IInv', DecisionsMeant, StreamsReplay, [Next]_vars,
                      NEW m \in Missions
               PROVE  Replay(m)' # ReducerRaised
    BY DEF StreamsReplay
  <2>1. CASE UNCHANGED tables
    BY <2>1, SameTables DEF StreamsReplay
  <2>2. ASSUME NEW c \in Clients, Commit(c) PROVE Replay(m)' # ReducerRaised
    BY <2>2, CommitIsReduced DEF StreamsReplay
  <2> QED
    BY <2>1, <2>2, OnlyCommitWrites
<1>3. IInv /\ DecisionsMeant /\ [Next]_vars => DecisionsMeant'
  BY MeantNext
<1> QED
  BY <1>1, <1>2, <1>3, MeantInit, Invariance, PTL DEF Spec

-----------------------------------------------------------------------------
(*****************************************************************************)
(* Recovery.  The projection differs from the replay of its stream only where*)
(* it was damaged: a COMMIT writes both, a rebuild writes the replay, and no *)
(* replay is the damaged state (RecoveryAssumption).  While a verification is*)
(* under way, what is the case now has been seen since it began (Watching).  *)
(*****************************************************************************)

(* Every row of the projection is at the head of its Mission, and all that *)
(* can be wrong with it is that it is damaged.                             *)
ProjectionIs ==
    \A m \in Missions :
        projection[m] = [seq |-> HeadSeq(m), state |-> IF m \in damaged THEN Damaged ELSE Replay(m)]

(* While a verification is under way, the present is part of what was seen. *)
Watching ==
    step \in {"compare", "compare_again"} =>
        /\ target \in Missions /\ Condition(target) \subseteq seen
        /\ replayed.state \in States

RInv ==
    /\ IInv /\ DecisionsMeant
    /\ step # "idle" => target \in Missions
    /\ DOMAIN projection = Missions /\ projection = [m \in Missions |-> projection[m]]
    /\ ProjectionIs
    /\ Watching
    /\ RecoveryIsTruthful

(* A replay leads to one of the states there are.                          *)
LEMMA ReplayInStates ==
    ASSUME IInv, NEW m \in Missions
    PROVE  Replay(m) \in States
<1>1. PICK n, s : n = HeadSeq(m) /\ s = Facts(m)
  OBVIOUS
<1>2. n \in Nat /\ DOMAIN s = 1..n
  BY <1>1 DEF Facts, IInv, HeadsAreNumbers
<1>3. \A i \in 1..n : s[i] \in Events
  <2> TAKE i \in 1..n
  <2>1. PICK ev \in Stream(m) : ev.seq = i
    <3>1. i \in {ev.seq : ev \in Stream(m)}
      BY <1>1 DEF IInv, Consistent, StreamContiguous
    <3> QED
      BY <3>1
  <2>2. EventAt(m, i) = ev
    BY <2>1, EventAtItsNumber DEF IInv, Consistent
  <2>3. ev.event \in Events
    BY <2>1 DEF Stream, IInv, TypeOK
  <2> QED
    BY <1>1, <2>2, <2>3 DEF Facts
<1>4. PICK h : Path(h, InitialState, s, n) /\ Reduced(InitialState, s) = h[n]
  BY <1>2, ReplayPath
<1> DEFINE G == {k \in Nat : k <= n => h[k] \in States}
<1>5. 0 \in G
  BY <1>4, RecoveryAssumption DEF Path
<1>6. ASSUME NEW k \in Nat, k \in G PROVE k + 1 \in G
  <2> SUFFICES ASSUME k + 1 <= n PROVE h[k + 1] \in States
    OBVIOUS
  <2>1. PICK i : i = k + 1
    OBVIOUS
  <2>2. i \in 1..n /\ i - 1 = k /\ h[k] \in States
    BY <1>2, <1>6, <2>1
  <2>3. h[i] = Reduce(h[k], s[i])
    BY <1>4, <2>2 DEF Path
  <2> QED
    BY <1>3, <2>1, <2>2, <2>3, RecoveryAssumption
<1>7. \A k \in Nat : k \in G => k + 1 \in G
  BY <1>6
<1>8. Nat \subseteq G
  <2> HIDE DEF G
  <2> QED
    BY <1>5, <1>7, Log!NatSetInduction
<1> QED
  BY <1>1, <1>2, <1>4, <1>8 DEF Replay

(* So a projection that is damaged is one that drifted, and no other is.   *)
LEMMA DamageIsDrift ==
    ASSUME IInv, ProjectionIs, NEW m \in Missions
    PROVE  Drifted(m) <=> m \in damaged
<1>1. PICK p, n, st : p = projection[m] /\ n = HeadSeq(m) /\ st = Replay(m)
  OBVIOUS
<1>2. st \in States /\ st # Damaged
  BY <1>1, ReplayInStates, RecoveryAssumption
<1>3. p = [seq |-> n, state |-> IF m \in damaged THEN Damaged ELSE st]
  BY <1>1 DEF ProjectionIs
<1>4. Drifted(m) <=> p # [seq |-> n, state |-> st]
  BY <1>1 DEF Drifted, Current
<1> QED
  BY <1>2, <1>3, <1>4

(* The invariant of the bus is about commands and events.                  *)
LEMMA StoreStands ==
    ASSUME IInv, DecisionsMeant, UNCHANGED <<commands, events, lock, calls>>,
           DOMAIN projection' = Missions
    PROVE  IInv' /\ DecisionsMeant'
<1> USE DEF calls
<1>1. TypeOK' /\ LockHeld'
  BY DEF IInv, TypeOK, LockHeld
<1>2. DecisionsStand' /\ AnswersAreDurable'
  BY DEF IInv, Consistent, DecisionsStand, DecisionStands, AnswersAreDurable,
     Fresh, RowsOf, KeyOwners, HeadSeq, Stream, Applied
<1>3. HeadsAreNumbers' /\ VerdictsStored' /\ StreamContiguous'
  BY DEF IInv, Consistent, HeadsAreNumbers, VerdictsStored, StreamContiguous, HeadSeq, Stream
<1>4. CommandsOwnTheirEvents' /\ AppliedOncePerKey' /\ DecidedOnSeenState'
  BY DEF IInv, Consistent, CommandsOwnTheirEvents, AppliedOncePerKey, DecidedOnSeenState,
     Applied, Stream
<1>5. DecisionsMeant'
  <2> SUFFICES ASSUME NEW c \in Clients, phase'[c] = "writing" PROVE DecisionMeant(c)'
    BY DEF DecisionsMeant
  <2>1. PICK e : e = envelope[c]
    OBVIOUS
  <2>2. /\ Pending(e)' = Pending(e) /\ RefusalCode(e)' = RefusalCode(e)
        /\ \A ps : StateAfter(e.mission_id, ps)' = StateAfter(e.mission_id, ps)
    BY SameTables
  <2>3. DecisionMeant(c)
    BY DEF DecisionsMeant
  <2> QED
    BY <2>1, <2>2, <2>3 DEF DecisionMeant
<1> QED
  BY <1>1, <1>2, <1>3, <1>4, <1>5 DEF IInv, Consistent

-----------------------------------------------------------------------------
(* The steps of the bus.                                                   *)

(* A COMMIT that writes events replaces the row of its Mission.            *)
LEMMA CommitProjects ==
    ASSUME IInv, IInv', DecisionsMeant, ProjectionIs, NEW c \in Clients, Commit(c),
           DOMAIN projection = Missions,
           damaged' = {m \in damaged : projection'[m] = projection[m]}
    PROVE  ProjectionIs'
<1>1. PICK e, ps, k, r : e = envelope[c] /\ ps = proposed[c] /\ k = e.mission_id /\ r = result[c]
  OBVIOUS
<1>2. /\ k \in Missions /\ HeadSeq(k)' = HeadSeq(k) + Len(ps)
      /\ Replay(k)' = StateAfter(k, ps)
      /\ \A m \in Missions : m # k => HeadSeq(m)' = HeadSeq(m) /\ Replay(m)' = Replay(m)
  BY <1>1, CommitReplays
<1>3. HeadSeq(k) \in Nat /\ ps \in Seq(Events)
  BY <1>1, <1>2 DEF IInv, HeadsAreNumbers, TypeOK
<1>4. projection' = IF ps = << >> THEN projection
                    ELSE [projection EXCEPT ![k] = [seq |-> r.last_seq,
                                                    state |-> StateAfter(k, ps)]]
  BY <1>1 DEF Commit, Projected
<1>5. CASE ps = << >>
  <2>1. PICK st : st = Replay(k)
    OBVIOUS
  <2>2. DOMAIN ps = 1..0
    BY <1>5
  <2>3. PICK h : Path(h, st, ps, 0) /\ Reduced(st, ps) = h[0]
    BY <2>2, ReplayPath
  <2>4. Replay(k)' = Replay(k)
    BY <1>2, <2>1, <2>3 DEF StateAfter, Path
  <2>5. HeadSeq(k)' = HeadSeq(k)
    BY <1>2, <1>3, <1>5
  <2>6. projection' = projection /\ damaged' = {m \in damaged : projection[m] = projection[m]}
    BY <1>4, <1>5
  <2>7. damaged' = damaged
    BY <2>6
  <2>8. \A m \in Missions : HeadSeq(m)' = HeadSeq(m) /\ Replay(m)' = Replay(m)
    BY <1>2, <2>4, <2>5
  <2> QED
    BY <2>6, <2>7, <2>8 DEF ProjectionIs
<1>6. CASE ps # << >>
  <2>1. r.last_seq = HeadSeq(k) + Len(ps)
    BY <1>1, <1>6 DEF Commit, IInv, DecisionsStand, DecisionStands
  <2>2. Len(ps) \in Nat \ {0}
    BY <1>3, <1>6
  <2>3. PICK n, st : n = HeadSeq(k)' /\ st = Replay(k)'
    OBVIOUS
  <2>4. projection' = [projection EXCEPT ![k] = [seq |-> n, state |-> st]]
    BY <1>2, <1>4, <1>6, <2>1, <2>3
  <2>5. n # HeadSeq(k)
    BY <1>2, <1>3, <2>2, <2>3
  <2>6. projection'[k] = [seq |-> n, state |-> st]
    BY <1>2, <2>4
  <2>7. projection[k].seq = HeadSeq(k)
    BY <1>2 DEF ProjectionIs
  <2>8. projection'[k] # projection[k]
    BY <2>5, <2>6, <2>7
  <2>9. k \notin damaged'
    BY <2>8
  <2>10. ASSUME NEW m \in Missions
         PROVE  projection'[m] = [seq |-> HeadSeq(m)', state |-> IF m \in damaged' THEN Damaged ELSE Replay(m)']
    <3>1. CASE m = k
      BY <2>3, <2>6, <2>9, <3>1
    <3>2. CASE m # k
      <4>1. projection'[m] = projection[m]
        BY <2>4, <3>2
      <4>2. m \in damaged' <=> m \in damaged
        BY <4>1
      <4>3. HeadSeq(m)' = HeadSeq(m) /\ Replay(m)' = Replay(m)
        BY <1>2, <3>2
      <4>4. projection[m] = [seq |-> HeadSeq(m), state |-> IF m \in damaged THEN Damaged ELSE Replay(m)]
        BY DEF ProjectionIs
      <4> QED
        BY <4>1, <4>2, <4>3, <4>4
    <3> QED
      BY <3>1, <3>2
  <2> QED
    BY <2>10 DEF ProjectionIs
<1> QED
  BY <1>5, <1>6

(* The steps: of the bus, ...                                              *)
LEMMA BusStepInv ==
    ASSUME RInv, BusStep
    PROVE  RInv'
<1>1. [Next]_vars
  BY DEF BusStep
<1>2. IInv' /\ DecisionsMeant'
  BY <1>1, NextInv, MeantNext DEF RInv
<1>3. UNCHANGED tables \/ \E c \in Clients : Commit(c)
  BY <1>1, OnlyCommitWrites
<1>4. damaged' = {m \in damaged : projection'[m] = projection[m]}
  BY DEF BusStep
<1>5. ProjectionIs'
  <2>1. CASE UNCHANGED tables
    <3>1. \A m : HeadSeq(m)' = HeadSeq(m) /\ Replay(m)' = Replay(m)
      BY <2>1, SameTables
    <3>2. projection' = projection
      BY <2>1 DEF tables
    <3>3. damaged' = damaged
      BY <1>4, <3>2
    <3> QED
      BY <3>1, <3>2, <3>3 DEF RInv, ProjectionIs
  <2>2. ASSUME NEW c \in Clients, Commit(c) PROVE ProjectionIs'
    BY <1>2, <1>4, <2>2, CommitProjects DEF RInv
  <2> QED
    BY <1>3, <2>1, <2>2
<1>6. DOMAIN projection' = Missions /\ projection' = [m \in Missions |-> projection'[m]]
  <2>1. CASE UNCHANGED tables
    BY <2>1 DEF RInv, tables
  <2>2. ASSUME NEW c \in Clients, Commit(c)
        PROVE  DOMAIN projection' = Missions /\ projection' = [m \in Missions |-> projection'[m]]
    BY <2>2 DEF RInv, Commit, Projected
  <2> QED
    BY <1>3, <2>1, <2>2
<1>7. step' = step /\ target' = target /\ replayed' = replayed /\ seen' = seen \cup Condition(target)'
  BY DEF BusStep
<1>8. Watching' /\ RecoveryIsTruthful' /\ (step # "idle" => target \in Missions)'
  BY <1>7 DEF RInv, Watching, RecoveryIsTruthful
<1> QED
  BY <1>2, <1>5, <1>6, <1>8 DEF RInv

-----------------------------------------------------------------------------
(* The steps of recovery, and damage.                                      *)

(* ... of whoever damages a row, ...                                       *)
LEMMA DamageInv ==
    ASSUME RInv, NEW m \in Missions, Damage(m)
    PROVE  RInv'
<1>1. UNCHANGED <<commands, events, lock, calls>>
  BY DEF Damage
<1>2. PICK row : row = [projection[m] EXCEPT !.state = Damaged]
  OBVIOUS
<1>3. projection' = [projection EXCEPT ![m] = row] /\ damaged' = damaged \cup {m}
  BY <1>2 DEF Damage
<1>4. row = [seq |-> HeadSeq(m), state |-> Damaged]
  BY <1>2 DEF RInv, ProjectionIs
<1>5. DOMAIN projection' = Missions /\ projection' = [k \in Missions |-> projection'[k]]
  BY <1>3 DEF RInv
<1>6. IInv' /\ DecisionsMeant'
  BY <1>1, <1>5, StoreStands DEF RInv
<1>7. \A k : HeadSeq(k)' = HeadSeq(k) /\ Replay(k)' = Replay(k)
  BY <1>1, SameTables
<1>8. ProjectionIs'
  BY <1>3, <1>4, <1>7 DEF RInv, ProjectionIs
<1>9. step' = step /\ target' = target /\ replayed' = replayed /\ seen' = seen \cup Condition(target)'
  BY DEF Damage
<1>10. Watching' /\ RecoveryIsTruthful' /\ (step # "idle" => target \in Missions)'
  BY <1>9 DEF RInv, Watching, RecoveryIsTruthful
<1> QED
  BY <1>5, <1>6, <1>8, <1>10 DEF RInv

(* Where the store stays as it is, the invariant is about recovery alone.  *)
LEMMA QuietRecovery ==
    ASSUME RInv, UNCHANGED <<vars, damaged>>,
           (step # "idle" => target \in Missions)', Watching', RecoveryIsTruthful'
    PROVE  RInv'
<1>1. UNCHANGED <<commands, events, lock, calls>> /\ projection' = projection
  BY DEF vars, tables
<1>2. IInv' /\ DecisionsMeant'
  BY <1>1, StoreStands DEF RInv
<1>3. \A k : HeadSeq(k)' = HeadSeq(k) /\ Replay(k)' = Replay(k)
  BY <1>1, SameTables
<1>4. ProjectionIs'
  BY <1>1, <1>3 DEF RInv, ProjectionIs
<1> QED
  BY <1>1, <1>2, <1>4 DEF RInv

(* ... of recovery as it begins, ...                                       *)
LEMMA RecoverInv ==
    ASSUME RInv, NEW m \in Missions, Recover(m)
    PROVE  RInv'
BY QuietRecovery DEF Recover, Watching, RecoveryIsTruthful

(* ... reads the events, ...                                               *)
LEMMA ReadEventsInv ==
    ASSUME RInv, ReadEvents
    PROVE  RInv'
<1>1. target \in Missions /\ target' = target /\ UNCHANGED <<vars, damaged>>
  BY DEF ReadEvents, RInv
<1>2. PICK t : t = target
  OBVIOUS
<1>3. replayed' = [seq |-> HeadSeq(t), state |-> Replay(t)] /\ Replay(t) \in States
  BY <1>1, <1>2, ReplayInStates DEF ReadEvents, Current, RInv
<1>4. Condition(t)' = Condition(t) /\ seen' = Condition(t)
  <2>1. HeadSeq(t)' = HeadSeq(t) /\ Replay(t)' = Replay(t) /\ projection' = projection
    BY <1>1, SameTables DEF vars, tables
  <2> QED
    BY <1>2, <2>1 DEF ReadEvents, Condition, Drifted, Current
<1>5. Watching'
  BY <1>1, <1>2, <1>3, <1>4 DEF Watching
<1>6. RecoveryIsTruthful' /\ (step # "idle" => target \in Missions)'
  BY <1>1 DEF ReadEvents, RecoveryIsTruthful
<1> QED
  BY <1>1, <1>5, <1>6, QuietRecovery

(* The comparison finds agreement only where there is agreement now.       *)
LEMMA CompareInv ==
    ASSUME RInv, Compare
    PROVE  RInv'
<1>1. step \in {"compare", "compare_again"} /\ target \in Missions /\ target' = target
      /\ UNCHANGED <<vars, damaged>> /\ seen' = seen
  BY DEF Compare, RInv
<1>2. Condition(target) \subseteq seen /\ replayed.state \in States
  BY <1>1 DEF RInv, Watching
<1>3. ASSUME Agrees PROVE "agreement" \in seen
  <2>1. projection[target].state \in States
    BY <1>2, <1>3 DEF Agrees
  <2>2. target \notin damaged
    BY <1>1, <2>1, RecoveryAssumption DEF RInv, ProjectionIs
  <2>3. ~Drifted(target)
    BY <1>1, <2>2, DamageIsDrift DEF RInv
  <2>4. target # NoMission
    BY <1>1, RecoveryAssumption
  <2> QED
    BY <1>2, <2>3, <2>4 DEF Condition
<1>4. step' \in {"NOT_NEEDED", "APPLIED"} => Agrees
  BY DEF Compare
<1>5. RecoveryIsTruthful'
  BY <1>1, <1>3, <1>4 DEF RecoveryIsTruthful
<1>6. Watching' /\ (step # "idle" => target \in Missions)'
  BY <1>1 DEF Compare, Watching
<1> QED
  BY <1>1, <1>5, <1>6, QuietRecovery

(* ... rebuilds, ...                                                       *)
LEMMA RebuildInv ==
    ASSUME RInv, Rebuild
    PROVE  RInv'
<1>1. /\ step' = "verify_again" /\ target \in Missions /\ target' = target
      /\ UNCHANGED <<commands, events, lock, calls>>
  BY DEF Rebuild, RInv
<1>2. PICK t, row : t = target /\ row = [seq |-> HeadSeq(t), state |-> Replay(t)]
  OBVIOUS
<1>3. projection' = [projection EXCEPT ![t] = row] /\ damaged' = damaged \ {t}
  BY <1>2 DEF Rebuild, Current
<1>4. DOMAIN projection' = Missions /\ projection' = [k \in Missions |-> projection'[k]]
  BY <1>3 DEF RInv
<1>5. IInv' /\ DecisionsMeant'
  BY <1>1, <1>4, StoreStands DEF RInv
<1>6. \A k : HeadSeq(k)' = HeadSeq(k) /\ Replay(k)' = Replay(k)
  BY <1>1, SameTables
<1>7. ProjectionIs'
  BY <1>1, <1>2, <1>3, <1>6 DEF RInv, ProjectionIs
<1>8. Watching' /\ RecoveryIsTruthful' /\ (step # "idle" => target \in Missions)'
  BY <1>1 DEF Watching, RecoveryIsTruthful
<1> QED
  BY <1>4, <1>5, <1>7, <1>8 DEF RInv

(* ... and ends.                                                           *)
LEMMA RecoveryEndsInv ==
    ASSUME RInv, RebuildBusy \/ RecoveryEnds
    PROVE  RInv'
BY QuietRecovery DEF RebuildBusy, RecoveryEnds, Watching, RecoveryIsTruthful, RInv

-----------------------------------------------------------------------------
(* The invariant at the start.                                             *)
LEMMA RecoveryInitInv == RecoveryInit => RInv
<1> SUFFICES ASSUME RecoveryInit PROVE RInv
  OBVIOUS
<1>1. Init /\ step = "idle" /\ damaged = {}
  BY DEF RecoveryInit
<1>2. IInv /\ DecisionsMeant
  BY <1>1, InitInv, MeantInit
<1>3. projection = [m \in Missions |-> [seq |-> 0, state |-> InitialState]]
  BY <1>1 DEF Init
<1>4. ProjectionIs
  BY <1>1, <1>3, EmptyReplays DEF ProjectionIs
<1> QED
  BY <1>1, <1>2, <1>3, <1>4 DEF RInv, Watching, RecoveryIsTruthful

(* The inductive invariant of the bus and recovery together.               *)
THEOREM RecoveryInvariant == RecoverySpec => []RInv
<1>1. RInv /\ [RecoveryNext]_allVars => RInv'
  <2> SUFFICES ASSUME RInv, [RecoveryNext]_allVars PROVE RInv'
    OBVIOUS
  <2>1. CASE BusStep
    BY <2>1, BusStepInv
  <2>2. ASSUME NEW m \in Missions, Damage(m) \/ Recover(m) PROVE RInv'
    BY <2>2, DamageInv, RecoverInv
  <2>3. CASE RecoveryStep \/ RecoveryEnds
    BY <2>3, ReadEventsInv, CompareInv, RebuildInv, RecoveryEndsInv DEF RecoveryStep
  <2>4. CASE UNCHANGED allVars
    <3>1. UNCHANGED <<vars, damaged>> /\ UNCHANGED <<step, target, replayed, seen>>
      BY <2>4 DEF allVars, recovery
    <3>2. PICK t : t = target
      OBVIOUS
    <3>3. Condition(t)' = Condition(t)
      BY <3>1, SameTables DEF vars, tables, Condition, Drifted, Current
    <3>4. Watching' /\ RecoveryIsTruthful' /\ (step # "idle" => target \in Missions)'
      BY <3>1, <3>2, <3>3 DEF RInv, Watching, RecoveryIsTruthful
    <3> QED
      BY <3>1, <3>4, QuietRecovery
  <2> QED
    BY <2>1, <2>2, <2>3, <2>4 DEF RecoveryNext
<1> QED
  BY <1>1, RecoveryInitInv, PTL DEF RecoverySpec

(* A projection is wrong where it was damaged and nowhere else, and each   *)
(* command that is applied, and each rebuild, repairs it.                  *)
THEOREM DriftIsDamage == RecoverySpec => []DriftComesFromOutside
<1>1. RInv => DriftComesFromOutside
  BY DamageIsDrift DEF RInv, DriftComesFromOutside
<1> QED
  BY <1>1, RecoveryInvariant, PTL

(* recover() does not call a projection right, before or after a rebuild,  *)
(* that was wrong all the while it was verified.                           *)
THEOREM RecoveryTellsTheTruth == RecoverySpec => []RecoveryIsTruthful
<1>1. RInv => RecoveryIsTruthful
  BY DEF RInv
<1> QED
  BY <1>1, RecoveryInvariant, PTL

-----------------------------------------------------------------------------
(* The life of a Mission.                                                  *)

(* The two tables of the code, side by side.                               *)

MissionEvent(cmd) == MissionMove[cmd.type].event
SessionEvent(cmd) == SessionMove[cmd.type].event

(* handlers.py and reducer.py let a Mission go from the same statuses.     *)
LEMMA MissionTables ==
    ASSUME NEW t \in DOMAIN MissionMove
    PROVE  LET e == MissionMove[t].event
           IN  /\ e \in DOMAIN MissionFacts
               /\ MissionFacts[e].from = MissionMove[t].from
               /\ MissionFacts[e].to \in MissionStatus \ {"CREATED"}
               /\ MissionMove[t].from \subseteq MissionStatus \ MissionTerminal
               /\ e = "mission.activated" <=> t = "ACTIVATE_MISSION"
               /\ e = "mission.completed" <=> t = "COMPLETE_MISSION"
               /\ MissionFacts[e].to = "COMPLETED" <=> t = "COMPLETE_MISSION"
               /\ "CREATED" \in MissionMove[t].from
                     => t = "ACTIVATE_MISSION" \/ MissionFacts[e].to = "CANCELLED"
               /\ e # "mission.created"
<1>1. DOMAIN MissionMove = {"ACTIVATE_MISSION", "PAUSE_MISSION", "BLOCK_MISSION", "COMPLETE_MISSION",
                            "CONTINUE_MISSION", "FAIL_MISSION", "CANCEL_MISSION"}
  BY DEF MissionMove
<1>2. CASE t = "ACTIVATE_MISSION"
  BY <1>2 DEF MissionMove, MissionFacts, MissionStatus, MissionTerminal
<1>3. CASE t = "PAUSE_MISSION"
  BY <1>3 DEF MissionMove, MissionFacts, MissionStatus, MissionTerminal
<1>4. CASE t = "BLOCK_MISSION"
  BY <1>4 DEF MissionMove, MissionFacts, MissionStatus, MissionTerminal
<1>5. CASE t = "COMPLETE_MISSION"
  BY <1>5 DEF MissionMove, MissionFacts, MissionStatus, MissionTerminal
<1>6. CASE t = "CONTINUE_MISSION"
  BY <1>6 DEF MissionMove, MissionFacts, MissionStatus, MissionTerminal
<1>7. CASE t = "FAIL_MISSION"
  BY <1>7 DEF MissionMove, MissionFacts, MissionStatus, MissionTerminal
<1>8. CASE t = "CANCEL_MISSION"
  BY <1>8 DEF MissionMove, MissionFacts, MissionStatus, MissionTerminal
<1> QED
  BY <1>1, <1>2, <1>3, <1>4, <1>5, <1>6, <1>7, <1>8

(* And a Session, which never comes back from CLOSED or FAILED.            *)
LEMMA SessionTables ==
    ASSUME NEW t \in DOMAIN SessionMove
    PROVE  LET e == SessionMove[t].event
           IN  /\ e \in DOMAIN SessionFacts
               /\ e \notin DOMAIN MissionFacts
               /\ e \notin {"mission.created", "goal.created", "goal.revised", "goal.status_changed"}
               /\ SessionFacts[e].from = SessionMove[t].from
               /\ SessionFacts[e].to \in SessionStatus
               /\ SessionMove[t].from \subseteq {Absent, "OPEN", "SUSPENDED"}
<1>1. DOMAIN SessionMove = {"OPEN_SESSION", "SUSPEND_SESSION", "CLOSE_SESSION", "FAIL_SESSION"}
  BY DEF SessionMove
<1>2. CASE t = "OPEN_SESSION"
  BY <1>2 DEF SessionMove, SessionFacts, MissionFacts, SessionStatus
<1>3. CASE t = "SUSPEND_SESSION"
  BY <1>3 DEF SessionMove, SessionFacts, MissionFacts, SessionStatus
<1>4. CASE t = "CLOSE_SESSION"
  BY <1>4 DEF SessionMove, SessionFacts, MissionFacts, SessionStatus
<1>5. CASE t = "FAIL_SESSION"
  BY <1>5 DEF SessionMove, SessionFacts, MissionFacts, SessionStatus
<1> QED
  BY <1>1, <1>2, <1>3, <1>4, <1>5

(* A command names its entity, and its type tells which kind it is of.     *)
LEMMA CommandKinds ==
    ASSUME NEW cmd \in Commands
    PROVE  \/ cmd.type = "CREATE_MISSION"
           \/ cmd.type \in DOMAIN MissionMove
           \/ cmd.type = "CREATE_GOAL" /\ cmd.on \in GoalIds
           \/ cmd.type = "REVISE_GOAL" /\ cmd.on \in GoalIds /\ cmd.base \in Nat
           \/ cmd.type = "CHANGE_GOAL_STATUS" /\ cmd.on \in GoalIds /\ cmd.to \in GoalStatus
           \/ cmd.type \in DOMAIN SessionMove /\ cmd.on \in SessionIds
BY CoreAssumption DEF Commands, MissionCommands, GoalCommands, SessionCommands, Command

GoalTypes == {"CREATE_GOAL", "REVISE_GOAL", "CHANGE_GOAL_STATUS"}

LEMMA KindsAreApart ==
    /\ \A t \in GoalTypes \cup {"CREATE_MISSION"} : t \notin DOMAIN MissionMove /\ t \notin DOMAIN SessionMove
    /\ \A t \in DOMAIN MissionMove : t \notin DOMAIN SessionMove /\ t \notin GoalTypes /\ t # "CREATE_MISSION"
    /\ \A t \in DOMAIN SessionMove : t \notin GoalTypes /\ t # "CREATE_MISSION"
BY DEF GoalTypes, MissionMove, SessionMove

GoalEvents == {"goal.created", "goal.revised", "goal.status_changed"}

LEMMA EventsAreApart ==
    /\ \A e \in GoalEvents \cup {"mission.created"} : e \notin DOMAIN MissionFacts /\ e \notin DOMAIN SessionFacts
    /\ \A e \in DOMAIN MissionFacts : e \notin DOMAIN SessionFacts /\ e \notin GoalEvents /\ e # "mission.created"
    /\ \A e \in DOMAIN SessionFacts : e \notin GoalEvents /\ e # "mission.created"
BY DEF GoalEvents, MissionFacts, SessionFacts

-----------------------------------------------------------------------------
(* What a step does, kind by kind.                                         *)

GoalCreated(cmd) ==
    /\ cmd.type = "CREATE_GOAL" /\ cmd.on \in GoalIds
    /\ ~HasGoal(state, cmd.on) /\ state.active = NoGoal
    /\ state' = [state EXCEPT !.goals[cmd.on] = [status |-> "ACTIVE", revision |-> 1],
                              !.active = cmd.on]
GoalRevised(cmd) ==
    /\ cmd.type = "REVISE_GOAL" /\ cmd.on \in GoalIds /\ GoalIsActive(state, cmd.on)
    /\ state' = [state EXCEPT !.goals[cmd.on].revision = state.goals[cmd.on].revision + 1]
GoalEnded(cmd) ==
    /\ cmd.type = "CHANGE_GOAL_STATUS" /\ cmd.on \in GoalIds /\ GoalIsActive(state, cmd.on)
    /\ cmd.to \in {"ACHIEVED", "CANCELLED"}
    /\ state' = [state EXCEPT !.goals[cmd.on].status = cmd.to, !.active = NoGoal]
MissionCreated(cmd) ==
    /\ state.mission = Absent
    /\ state' = [state EXCEPT !.mission = "CREATED"]
MissionMoved(cmd) ==
    /\ MissionMayMove(cmd, state)
    /\ state' = [state EXCEPT !.mission = MissionFacts[MissionEvent(cmd)].to]
SessionMoved(cmd) ==
    /\ cmd.on \in SessionIds /\ SessionMayMove(cmd, state)
    /\ state' = [state EXCEPT !.sessions[cmd.on] = SessionFacts[SessionEvent(cmd)].to]

(* A step issues a command that handler and reducer both let through.      *)
LEMMA StepKinds ==
    ASSUME NEW cmd \in Commands, Issue(cmd)
    PROVE  \/ MissionCreated(cmd)
           \/ MissionMoved(cmd)
           \/ /\ state.mission \notin MissionTerminal
              /\ GoalCreated(cmd) \/ GoalRevised(cmd) \/ GoalEnded(cmd)
           \/ SessionMoved(cmd)
<1>1. CoreAllows(cmd, state)
  BY DEF Issue, CoreHandle
<1>2. /\ CoreAccepts(state, CoreFact(cmd, state))
      /\ state' = CoreApply(state, CoreFact(cmd, state))
  BY DEF Issue, CoreReduce
<1>3. CASE cmd.type = "CREATE_MISSION"
  <2>1. CoreFact(cmd, state).type = "mission.created"
    BY <1>3, KindsAreApart DEF CoreFact, Fact
  <2>2. CoreApply(state, CoreFact(cmd, state)) = [state EXCEPT !.mission = "CREATED"]
    BY <2>1, EventsAreApart DEF CoreApply
  <2> QED
    BY <1>1, <1>2, <1>3, <2>2 DEF MissionCreated, CoreAllows
<1>4. CASE cmd.type \in DOMAIN MissionMove
  <2>1. CoreFact(cmd, state).type = MissionEvent(cmd)
    BY <1>4, KindsAreApart DEF CoreFact, Fact, MissionEvent, GoalTypes
  <2>2. MissionMayMove(cmd, state)
    BY <1>1, <1>4, KindsAreApart DEF CoreAllows, GoalMayMove, SessionMayMove, GoalTypes
  <2>3. CoreApply(state, CoreFact(cmd, state)) = [state EXCEPT !.mission = MissionFacts[MissionEvent(cmd)].to]
    BY <1>4, <2>1, MissionTables, EventsAreApart DEF CoreApply, MissionEvent, GoalEvents
  <2> QED
    BY <1>2, <2>2, <2>3 DEF MissionMoved
<1>5. CASE cmd.type \in GoalTypes
  <2>1. GoalMayMove(cmd, state)
    BY <1>1, <1>5, KindsAreApart DEF CoreAllows, MissionMayMove, SessionMayMove, GoalTypes
  <2>2. cmd.on \in GoalIds
    BY <1>5, CommandKinds, KindsAreApart DEF GoalTypes
  <2>3. CASE cmd.type = "CREATE_GOAL"
    <3>1. CoreFact(cmd, state) = Fact("goal.created", cmd.on, 0, 1, "ACTIVE")
      BY <2>3, KindsAreApart DEF CoreFact, GoalTypes
    <3>2. CoreApply(state, CoreFact(cmd, state))
            = [state EXCEPT !.goals[cmd.on] = [status |-> "ACTIVE", revision |-> 1], !.active = cmd.on]
      BY <3>1, EventsAreApart DEF CoreApply, Fact, GoalEvents
    <3> QED
      BY <1>2, <2>1, <2>2, <2>3, <3>2 DEF GoalCreated, GoalMayMove
  <2>4. CASE cmd.type = "REVISE_GOAL"
    <3>1. CoreFact(cmd, state) = Fact("goal.revised", cmd.on, cmd.base, state.goals[cmd.on].revision + 1, "NONE")
      BY <2>4, KindsAreApart DEF CoreFact, GoalTypes
    <3>2. CoreApply(state, CoreFact(cmd, state))
            = [state EXCEPT !.goals[cmd.on].revision = state.goals[cmd.on].revision + 1]
      BY <3>1, EventsAreApart DEF CoreApply, Fact, GoalEvents
    <3> QED
      BY <1>2, <2>1, <2>2, <2>4, <3>2 DEF GoalRevised, GoalMayMove
  <2>5. CASE cmd.type = "CHANGE_GOAL_STATUS"
    <3>1. CoreFact(cmd, state) = Fact("goal.status_changed", cmd.on, 0, 0, cmd.to)
      BY <2>5, KindsAreApart DEF CoreFact, GoalTypes
    <3>2. CoreApply(state, CoreFact(cmd, state))
            = [state EXCEPT !.goals[cmd.on].status = cmd.to, !.active = NoGoal]
      BY <3>1, EventsAreApart DEF CoreApply, Fact, GoalEvents, GoalEnds
    <3> QED
      BY <1>2, <2>1, <2>2, <2>5, <3>2 DEF GoalEnded, GoalMayMove
  <2> QED
    BY <1>5, <2>1, <2>3, <2>4, <2>5 DEF GoalTypes, GoalMayMove
<1>6. CASE cmd.type \in DOMAIN SessionMove
  <2>1. CoreFact(cmd, state).type = SessionEvent(cmd) /\ CoreFact(cmd, state).on = cmd.on
    BY <1>6, KindsAreApart DEF CoreFact, Fact, SessionEvent, GoalTypes
  <2>2. SessionMayMove(cmd, state) /\ cmd.on \in SessionIds
    BY <1>1, <1>6, CommandKinds, KindsAreApart DEF CoreAllows, GoalMayMove, MissionMayMove, GoalTypes
  <2>3. CoreApply(state, CoreFact(cmd, state))
          = [state EXCEPT !.sessions[cmd.on] = SessionFacts[SessionEvent(cmd)].to]
    BY <1>6, <2>1, SessionTables, EventsAreApart DEF CoreApply, SessionEvent, GoalEvents
  <2> QED
    BY <1>2, <2>2, <2>3 DEF SessionMoved
<1> QED
  BY <1>3, <1>4, <1>5, <1>6, CommandKinds DEF GoalTypes

-----------------------------------------------------------------------------
(* The inductive invariant.  Neither part stands alone: that a Goal was    *)
(* there when a Mission was activated rests on active_goal_id naming it.   *)
LifeInv == StateOK /\ ActiveGoalIsTheActiveOne /\ CompletionIsEarned

LEMMA GoalsAreApart ==
    ASSUME StateOK, NEW g \in GoalIds
    PROVE  /\ HasGoal(state, g) => state.goals[g] \in [status : GoalStatus, revision : Nat \ {0}]
           /\ state.goals[g] \in [status : GoalStatus, revision : Nat \ {0}] => HasGoal(state, g)
BY CoreAssumption DEF StateOK, CoreStates, HasGoal

LEMMA InitiallyTrue == MissionInit => LifeInv
<1> SUFFICES ASSUME MissionInit PROVE LifeInv
  OBVIOUS
<1>1. StateOK
  BY DEF MissionInit, InitialCore, StateOK, CoreStates
<1>2. ActiveGoalIsTheActiveOne
  BY DEF MissionInit, InitialCore, ActiveGoalIsTheActiveOne, GoalIsActive, HasGoal
<1>3. CompletionIsEarned
  BY CoreAssumption DEF MissionInit, InitialCore, CompletionIsEarned, MissionStatus, MissionTerminal
<1> QED
  BY <1>1, <1>2, <1>3 DEF LifeInv

(* A step that leaves the Goals alone.                                     *)
LEMMA GoalsKept ==
    ASSUME LifeInv, state'.goals = state.goals, state'.active = state.active
    PROVE  ActiveGoalIsTheActiveOne'
BY DEF LifeInv, ActiveGoalIsTheActiveOne, GoalIsActive, HasGoal

LEMMA MissionCreatedKeeps ==
    ASSUME LifeInv, NEW cmd \in Commands, MissionCreated(cmd)
    PROVE  LifeInv'
<1>1. StateOK'
  BY DEF LifeInv, StateOK, CoreStates, MissionCreated, MissionStatus
<1>2. /\ state'.mission = "CREATED" /\ state'.goals = state.goals /\ state'.active = state.active
  BY DEF LifeInv, StateOK, CoreStates, MissionCreated
<1> QED
  BY <1>1, <1>2, GoalsKept DEF LifeInv, CompletionIsEarned

LEMMA MissionMovedKeeps ==
    ASSUME LifeInv, NEW cmd \in Commands, MissionMoved(cmd)
    PROVE  LifeInv'
<1> DEFINE to == MissionFacts[MissionEvent(cmd)].to
<1>0. cmd.type \in DOMAIN MissionMove /\ state.mission \in MissionMove[cmd.type].from
  BY DEF MissionMoved, MissionMayMove
<1>1. /\ to \in MissionStatus \ {"CREATED"}
      /\ state.mission \in MissionStatus \ MissionTerminal
      /\ to = "COMPLETED" => cmd.type = "COMPLETE_MISSION"
      /\ state.mission = "CREATED" => cmd.type = "ACTIVATE_MISSION" \/ to = "CANCELLED"
  BY <1>0, MissionTables DEF MissionEvent
<1>2. StateOK'
  BY <1>1 DEF LifeInv, StateOK, CoreStates, MissionMoved
<1>3. /\ state'.mission = to /\ state'.goals = state.goals /\ state'.active = state.active
  BY DEF LifeInv, StateOK, CoreStates, MissionMoved
<1>4. CompletionIsEarned'
  <2>1. to = "COMPLETED" => SomeGoalAchieved(state)
    BY <1>1 DEF MissionMoved, MissionMayMove
  <2>2. ASSUME to # "CANCELLED", to # "COMPLETED"
        PROVE  \E g \in GoalIds : HasGoal(state, g)
    <3>1. CASE state.mission = "CREATED"
      <4>1. state.active \in GoalIds
        BY <1>1, <2>2, <3>1 DEF MissionMoved, MissionMayMove, LifeInv, StateOK, CoreStates
      <4> QED
        BY <4>1, CoreAssumption DEF LifeInv, ActiveGoalIsTheActiveOne, GoalIsActive
    <3>2. CASE state.mission # "CREATED"
      BY <1>1, <3>2 DEF LifeInv, CompletionIsEarned, MissionStatus, MissionTerminal
    <3> QED
      BY <3>1, <3>2
  <2> QED
    BY <1>3, <2>1, <2>2 DEF CompletionIsEarned, SomeGoalAchieved, HasGoal
<1> QED
  BY <1>2, <1>3, <1>4, GoalsKept DEF LifeInv

LEMMA SessionMovedKeeps ==
    ASSUME LifeInv, NEW cmd \in Commands, SessionMoved(cmd)
    PROVE  LifeInv'
<1>1. StateOK'
  BY SessionTables DEF LifeInv, StateOK, CoreStates, SessionMoved, SessionMayMove, SessionEvent
<1>2. /\ state'.mission = state.mission /\ state'.goals = state.goals /\ state'.active = state.active
  BY DEF LifeInv, StateOK, CoreStates, SessionMoved
<1> QED
  BY <1>1, <1>2, GoalsKept DEF LifeInv, CompletionIsEarned, HasGoal

GoalSet(g, new, active) == state' = [state EXCEPT !.goals[g] = new, !.active = active]

(* What a step that changes one Goal leaves of the others, and that none   *)
(* of them is ever forgotten.                                              *)
LEMMA GoalChanged ==
    ASSUME LifeInv, NEW g \in GoalIds, NEW new \in [status : GoalStatus, revision : Nat \ {0}],
           NEW active \in GoalIds \cup {NoGoal},
           GoalSet(g, new, active),
           state.mission \notin MissionTerminal
    PROVE  /\ StateOK' /\ CompletionIsEarned'
           /\ state'.active = active
           /\ state'.goals[g] = new /\ HasGoal(state', g)
           /\ \A h \in GoalIds \ {g} : state'.goals[h] = state.goals[h]
<1>1. /\ StateOK'
      /\ state'.mission = state.mission /\ state'.active = active
      /\ state'.goals[g] = new
      /\ \A h \in GoalIds \ {g} : state'.goals[h] = state.goals[h]
  BY DEF LifeInv, StateOK, CoreStates, GoalSet
<1>2. HasGoal(state', g)
  BY <1>1, CoreAssumption DEF HasGoal
<1>3. CompletionIsEarned'
  BY <1>1, <1>2 DEF CompletionIsEarned, MissionTerminal
<1> QED
  BY <1>1, <1>2, <1>3

LEMMA GoalCreatedKeeps ==
    ASSUME LifeInv, NEW cmd \in Commands, GoalCreated(cmd), state.mission \notin MissionTerminal
    PROVE  LifeInv'
<1> DEFINE new == [status |-> "ACTIVE", revision |-> 1]
<1>1. new \in [status : GoalStatus, revision : Nat \ {0}]
  BY DEF GoalStatus
<1>2. /\ StateOK' /\ CompletionIsEarned' /\ state'.active = cmd.on
      /\ state'.goals[cmd.on] = new /\ HasGoal(state', cmd.on)
      /\ \A h \in GoalIds \ {cmd.on} : state'.goals[h] = state.goals[h]
  <2>1. GoalSet(cmd.on, new, cmd.on) /\ cmd.on \in GoalIds
    BY DEF GoalCreated, GoalSet
  <2> HIDE DEF new
  <2> QED
    BY <1>1, <2>1, GoalChanged
<1>3. \A h \in GoalIds : ~GoalIsActive(state, h)
  BY DEF GoalCreated, LifeInv, ActiveGoalIsTheActiveOne
<1>4. ActiveGoalIsTheActiveOne'
  BY <1>2, <1>3, CoreAssumption DEF ActiveGoalIsTheActiveOne, GoalIsActive, HasGoal, GoalCreated
<1> QED
  BY <1>2, <1>4 DEF LifeInv

LEMMA GoalRevisedKeeps ==
    ASSUME LifeInv, NEW cmd \in Commands, GoalRevised(cmd), state.mission \notin MissionTerminal
    PROVE  LifeInv'
<1> DEFINE new == [state.goals[cmd.on] EXCEPT !.revision = @ + 1]
<1>1. state.goals[cmd.on] \in [status : GoalStatus, revision : Nat \ {0}]
  BY GoalsAreApart DEF GoalRevised, GoalIsActive, LifeInv
<1>2. /\ new \in [status : GoalStatus, revision : Nat \ {0}] /\ new.status = "ACTIVE"
  BY <1>1 DEF GoalRevised, GoalIsActive
<1>3. GoalSet(cmd.on, new, state.active)
  BY DEF GoalSet, GoalRevised, LifeInv, StateOK, CoreStates
<1>4. state.active \in GoalIds \cup {NoGoal} /\ cmd.on \in GoalIds
  BY DEF GoalRevised, LifeInv, StateOK, CoreStates
<1> HIDE DEF new
<1>5. /\ StateOK' /\ CompletionIsEarned' /\ state'.active = state.active
      /\ state'.goals[cmd.on] = new /\ HasGoal(state', cmd.on)
      /\ \A h \in GoalIds \ {cmd.on} : state'.goals[h] = state.goals[h]
  BY <1>2, <1>3, <1>4, GoalChanged
<1>6. ActiveGoalIsTheActiveOne'
  <2>1. \A h \in GoalIds : GoalIsActive(state', h) <=> GoalIsActive(state, h)
    BY <1>2, <1>5 DEF GoalIsActive, HasGoal, GoalRevised
  <2> QED
    BY <1>5, <2>1 DEF LifeInv, ActiveGoalIsTheActiveOne
<1> QED
  BY <1>5, <1>6 DEF LifeInv

LEMMA GoalEndedKeeps ==
    ASSUME LifeInv, NEW cmd \in Commands, GoalEnded(cmd), state.mission \notin MissionTerminal
    PROVE  LifeInv'
<1> DEFINE new == [state.goals[cmd.on] EXCEPT !.status = cmd.to]
<1>1. state.goals[cmd.on] \in [status : GoalStatus, revision : Nat \ {0}]
  BY GoalsAreApart DEF GoalEnded, GoalIsActive, LifeInv
<1>2. new \in [status : GoalStatus, revision : Nat \ {0}] /\ new.status # "ACTIVE"
  BY <1>1 DEF GoalEnded, GoalStatus
<1>3. GoalSet(cmd.on, new, NoGoal)
  BY DEF GoalSet, GoalEnded, LifeInv, StateOK, CoreStates
<1>4. cmd.on \in GoalIds
  BY DEF GoalEnded
<1> HIDE DEF new
<1>5. /\ StateOK' /\ CompletionIsEarned' /\ state'.active = NoGoal
      /\ state'.goals[cmd.on] = new
      /\ \A h \in GoalIds \ {cmd.on} : state'.goals[h] = state.goals[h]
  BY <1>2, <1>3, <1>4, GoalChanged
<1>6. \A h \in GoalIds : GoalIsActive(state, h) => h = cmd.on
  BY <1>4 DEF GoalEnded, LifeInv, ActiveGoalIsTheActiveOne
<1>7. ActiveGoalIsTheActiveOne'
  BY <1>2, <1>5, <1>6 DEF ActiveGoalIsTheActiveOne, GoalIsActive, HasGoal
<1> QED
  BY <1>5, <1>7 DEF LifeInv

LEMMA StepsKeep ==
    ASSUME LifeInv, [MissionNext]_state
    PROVE  LifeInv'
<1>1. CASE MissionNext
  <2> PICK cmd \in Commands : Issue(cmd)
    BY <1>1 DEF MissionNext
  <2> QED
    BY StepKinds, MissionCreatedKeeps, MissionMovedKeeps, GoalCreatedKeeps, GoalRevisedKeeps,
       GoalEndedKeeps, SessionMovedKeeps
<1>2. CASE UNCHANGED state
  BY <1>2 DEF LifeInv, StateOK, ActiveGoalIsTheActiveOne, GoalIsActive, HasGoal, CompletionIsEarned
<1> QED
  BY <1>1, <1>2

(* The state of a Mission keeps its type, a Mission has at most one ACTIVE *)
(* Goal, which active_goal_id names, and is COMPLETED only with an         *)
(* ACHIEVED one, whatever commands arrive in whatever order.               *)
THEOREM LifeInvariance == MissionSpec => []LifeInv
BY InitiallyTrue, StepsKeep, PTL DEF MissionSpec

(* The state has the type of RuntimeState.                                 *)
THEOREM StateCorrect == MissionSpec => []StateOK
BY LifeInvariance, PTL DEF LifeInv

(* active_goal_id names the one ACTIVE Goal, or there is none.             *)
THEOREM OneActiveGoal == MissionSpec => []ActiveGoalIsTheActiveOne
BY LifeInvariance, PTL DEF LifeInv

(* A Mission that is COMPLETED has an ACHIEVED Goal.                       *)
THEOREM CompletionEarned == MissionSpec => []CompletionIsEarned
BY LifeInvariance, PTL DEF LifeInv

-----------------------------------------------------------------------------
(* The end of a Mission, and of a Goal or a Session.                       *)

LEMMA EndsStepwise ==
    ASSUME LifeInv, [MissionNext]_state, state.mission \in MissionTerminal
    PROVE  /\ state'.mission = state.mission
           /\ state'.goals = state.goals
           /\ state'.active = state.active
<1>1. CASE UNCHANGED state
  BY <1>1
<1>2. CASE MissionNext
  <2> PICK cmd \in Commands : Issue(cmd)
    BY <1>2 DEF MissionNext
  <2>1. ~MissionCreated(cmd)
    BY CoreAssumption DEF MissionCreated, MissionStatus
  <2>2. ~MissionMoved(cmd)
    BY MissionTables DEF MissionMoved, MissionMayMove
  <2>3. SessionMoved(cmd)
    BY <2>1, <2>2, StepKinds
  <2> QED
    BY <2>3 DEF SessionMoved, LifeInv, StateOK, CoreStates
<1> QED
  BY <1>1, <1>2

(* A Mission that has ended, and its Goals, are never changed again.       *)
THEOREM MissionEndIsFinal == MissionSpec => TerminalIsFinal
<1>1. LifeInv /\ [MissionNext]_state =>
        [state.mission \in MissionTerminal =>
            /\ state'.mission = state.mission
            /\ state'.goals = state.goals
            /\ state'.active = state.active]_state
  BY EndsStepwise
<1> QED
  BY <1>1, LifeInvariance, PTL DEF MissionSpec, TerminalIsFinal

GoalsGoOn ==
    \A g \in GoalIds : HasGoal(state, g) =>
        /\ HasGoal(state', g)
        /\ ~GoalIsActive(state, g) => state'.goals[g] = state.goals[g]
        /\ state'.goals[g].revision - state.goals[g].revision \in {0, 1}
SessionsGoOn ==
    \A s \in SessionIds : state.sessions[s] \in {"CLOSED", "FAILED"} =>
        state'.sessions[s] = state.sessions[s]

LEMMA SameGoals ==
    ASSUME LifeInv, state'.goals = state.goals
    PROVE  GoalsGoOn
BY GoalsAreApart DEF GoalsGoOn, HasGoal, LifeInv

LEMMA OneGoalChanged ==
    ASSUME LifeInv, NEW g \in GoalIds, NEW new \in [status : GoalStatus, revision : Nat \ {0}],
           NEW active \in GoalIds \cup {NoGoal}, GoalSet(g, new, active),
           state.mission \notin MissionTerminal,
           HasGoal(state, g) => /\ GoalIsActive(state, g)
                                /\ new.revision - state.goals[g].revision \in {0, 1}
    PROVE  GoalsGoOn /\ SessionsGoOn
<1>1. /\ state'.goals[g] = new /\ HasGoal(state', g)
      /\ \A h \in GoalIds \ {g} : state'.goals[h] = state.goals[h]
  BY GoalChanged
<1>2. SessionsGoOn
  BY DEF SessionsGoOn, GoalSet, LifeInv, StateOK, CoreStates
<1>3. ASSUME NEW h \in GoalIds \ {g}, HasGoal(state, h)
      PROVE  HasGoal(state', h) /\ state'.goals[h].revision - state.goals[h].revision = 0
  BY <1>1, <1>3, GoalsAreApart DEF HasGoal, LifeInv
<1> QED
  BY <1>1, <1>2, <1>3 DEF GoalsGoOn

LEMMA GoesOn ==
    ASSUME LifeInv, [MissionNext]_state
    PROVE  GoalsGoOn /\ SessionsGoOn
<1>1. CASE UNCHANGED state
  BY <1>1, SameGoals DEF SessionsGoOn
<1>2. CASE MissionNext
  <2> PICK cmd \in Commands : Issue(cmd)
    BY <1>2 DEF MissionNext
  <2>1. CASE MissionCreated(cmd) \/ MissionMoved(cmd)
    <3>1. state'.goals = state.goals /\ state'.sessions = state.sessions
      BY <2>1 DEF MissionCreated, MissionMoved, LifeInv, StateOK, CoreStates
    <3> QED
      BY <3>1, SameGoals DEF SessionsGoOn
  <2>2. CASE SessionMoved(cmd)
    <3>1. state'.goals = state.goals
      BY <2>2 DEF SessionMoved, LifeInv, StateOK, CoreStates
    <3>2. state.sessions[cmd.on] \in {Absent, "OPEN", "SUSPENDED"}
      BY <2>2, SessionTables DEF SessionMoved, SessionMayMove
    <3>3. \A s \in SessionIds \ {cmd.on} : state'.sessions[s] = state.sessions[s]
      BY <2>2 DEF SessionMoved, LifeInv, StateOK, CoreStates
    <3> QED
      BY <3>1, <3>2, <3>3, SameGoals, CoreAssumption DEF SessionsGoOn, SessionStatus
  <2>3. CASE state.mission \notin MissionTerminal /\ GoalCreated(cmd)
    <3> DEFINE new == [status |-> "ACTIVE", revision |-> 1]
    <3>1. /\ GoalSet(cmd.on, new, cmd.on) /\ cmd.on \in GoalIds /\ ~HasGoal(state, cmd.on)
          /\ new \in [status : GoalStatus, revision : Nat \ {0}]
      BY <2>3 DEF GoalCreated, GoalSet, GoalStatus
    <3> HIDE DEF new
    <3> QED
      BY <2>3, <3>1, OneGoalChanged
  <2>4. CASE state.mission \notin MissionTerminal /\ GoalRevised(cmd)
    <3> DEFINE new == [state.goals[cmd.on] EXCEPT !.revision = @ + 1]
    <3>1. state.goals[cmd.on] \in [status : GoalStatus, revision : Nat \ {0}]
      BY <2>4, GoalsAreApart DEF GoalRevised, GoalIsActive, LifeInv
    <3>2. /\ GoalSet(cmd.on, new, state.active) /\ cmd.on \in GoalIds
          /\ state.active \in GoalIds \cup {NoGoal} /\ GoalIsActive(state, cmd.on)
      BY <2>4 DEF GoalRevised, GoalSet, LifeInv, StateOK, CoreStates
    <3>3. /\ new \in [status : GoalStatus, revision : Nat \ {0}]
          /\ new.revision - state.goals[cmd.on].revision \in {0, 1}
      BY <3>1
    <3> HIDE DEF new
    <3> QED
      BY <2>4, <3>2, <3>3, OneGoalChanged
  <2>5. CASE state.mission \notin MissionTerminal /\ GoalEnded(cmd)
    <3> DEFINE new == [state.goals[cmd.on] EXCEPT !.status = cmd.to]
    <3>1. state.goals[cmd.on] \in [status : GoalStatus, revision : Nat \ {0}]
      BY <2>5, GoalsAreApart DEF GoalEnded, GoalIsActive, LifeInv
    <3>2. /\ GoalSet(cmd.on, new, NoGoal) /\ cmd.on \in GoalIds /\ GoalIsActive(state, cmd.on)
      BY <2>5 DEF GoalEnded, GoalSet, LifeInv, StateOK, CoreStates
    <3>3. /\ new \in [status : GoalStatus, revision : Nat \ {0}]
          /\ new.revision - state.goals[cmd.on].revision \in {0, 1}
      BY <2>5, <3>1 DEF GoalEnded, GoalStatus
    <3> HIDE DEF new
    <3> QED
      BY <2>5, <3>2, <3>3, OneGoalChanged
  <2> QED
    BY <2>1, <2>2, <2>3, <2>4, <2>5, StepKinds
<1> QED
  BY <1>1, <1>2

(* A Goal that was achieved or cancelled, and a Session that was closed or *)
(* failed, never come back, and revisions go up by one.                    *)
THEOREM NoWayBackEver == MissionSpec => NoWayBack
<1>1. LifeInv /\ [MissionNext]_state => [GoalsGoOn /\ SessionsGoOn]_state
  BY GoesOn
<1> QED
  BY <1>1, LifeInvariance, PTL DEF MissionSpec, NoWayBack, GoalsGoOn, SessionsGoOn

(* What has ended stays: the verdict and the Goals of a Mission that is    *)
(* COMPLETED, FAILED or CANCELLED, a Goal that was achieved or cancelled,  *)
(* and a Session that was closed or failed, whatever commands still come   *)
(* (durable_core/handlers.py and reducer.py).                              *)
THEOREM EndIsFinal == MissionSpec => TerminalIsFinal /\ NoWayBack
BY MissionEndIsFinal, NoWayBackEver

-----------------------------------------------------------------------------
(* The two tables say the same of every command.                           *)

LEMMA TablesAgree ==
    ASSUME StateOK, NEW cmd \in Commands, state.mission # Absent,
           cmd.type = "REVISE_GOAL" => HasGoal(state, cmd.on)
    PROVE  CoreAllows(cmd, state)
             <=> /\ CoreAccepts(state, CoreFact(cmd, state))
                 /\ cmd.type \in {"CREATE_GOAL", "REVISE_GOAL", "CHANGE_GOAL_STATUS"}
                      => state.mission \notin MissionTerminal
<1>1. CASE cmd.type = "CREATE_MISSION"
  <2>1. CoreFact(cmd, state).type = "mission.created"
    BY <1>1, KindsAreApart DEF CoreFact, Fact
  <2> QED
    BY <1>1, <2>1 DEF CoreAllows, CoreAccepts
<1>2. CASE cmd.type \in DOMAIN MissionMove
  <2>1. CoreFact(cmd, state).type = MissionEvent(cmd)
    BY <1>2, KindsAreApart DEF CoreFact, Fact, MissionEvent, GoalTypes
  <2>2. CoreAllows(cmd, state) <=> MissionMayMove(cmd, state)
    BY <1>2, KindsAreApart DEF CoreAllows, GoalMayMove, SessionMayMove, GoalTypes
  <2>3. MissionEvent(cmd) \in DOMAIN MissionFacts
    BY <1>2, MissionTables DEF MissionEvent
  <2>4. CoreAccepts(state, CoreFact(cmd, state)) <=> MissionMayMove(cmd, state)
    BY <1>2, <2>1, <2>3, MissionTables, EventsAreApart
       DEF CoreAccepts, MissionMayMove, MissionEvent, GoalEvents
  <2> QED
    BY <1>2, <2>2, <2>4, KindsAreApart DEF GoalTypes
<1>3. CASE cmd.type \in GoalTypes
  <2>1. CoreAllows(cmd, state) <=> GoalMayMove(cmd, state)
    BY <1>3, KindsAreApart DEF CoreAllows, MissionMayMove, SessionMayMove, GoalTypes
  <2>2. CASE cmd.type = "CREATE_GOAL"
    <3>1. CoreFact(cmd, state) = Fact("goal.created", cmd.on, 0, 1, "ACTIVE")
      BY <2>2, KindsAreApart DEF CoreFact, GoalTypes
    <3> QED
      BY <2>1, <2>2, <3>1, EventsAreApart DEF CoreAccepts, Fact, GoalMayMove, GoalEvents
  <2>3. CASE cmd.type = "REVISE_GOAL"
    <3>1. CoreFact(cmd, state) = Fact("goal.revised", cmd.on, cmd.base, state.goals[cmd.on].revision + 1, "NONE")
      BY <2>3, KindsAreApart DEF CoreFact, GoalTypes
    <3> QED
      BY <2>1, <2>3, <3>1, EventsAreApart DEF CoreAccepts, Fact, GoalMayMove, GoalEvents
  <2>4. CASE cmd.type = "CHANGE_GOAL_STATUS"
    <3>1. CoreFact(cmd, state) = Fact("goal.status_changed", cmd.on, 0, 0, cmd.to)
      BY <2>4, KindsAreApart DEF CoreFact, GoalTypes
    <3> QED
      BY <2>1, <2>4, <3>1, EventsAreApart DEF CoreAccepts, Fact, GoalMayMove, GoalEvents
  <2> QED
    BY <1>3, <2>2, <2>3, <2>4 DEF GoalTypes
<1>4. CASE cmd.type \in DOMAIN SessionMove
  <2>1. CoreFact(cmd, state).type = SessionEvent(cmd) /\ CoreFact(cmd, state).on = cmd.on
    BY <1>4, KindsAreApart DEF CoreFact, Fact, SessionEvent, GoalTypes
  <2>2. CoreAllows(cmd, state) <=> SessionMayMove(cmd, state)
    BY <1>4, KindsAreApart DEF CoreAllows, GoalMayMove, MissionMayMove, GoalTypes
  <2>3. SessionEvent(cmd) \in DOMAIN SessionFacts
    BY <1>4, SessionTables DEF SessionEvent
  <2>4. CoreAccepts(state, CoreFact(cmd, state)) <=> SessionMayMove(cmd, state)
    BY <1>4, <2>1, <2>3, SessionTables, EventsAreApart
       DEF CoreAccepts, SessionMayMove, SessionEvent, GoalEvents
  <2> QED
    BY <1>4, <2>2, <2>4, KindsAreApart DEF GoalTypes
<1> QED
  BY <1>1, <1>2, <1>3, <1>4, CommandKinds DEF GoalTypes

(* In every reachable state the handlers let through exactly the commands  *)
(* whose facts the reducer takes, but for the Goals of an ended Mission.   *)
THEOREM HandlersAgree == MissionSpec => []HandlersAgreeWithReducer
<1>1. StateOK => HandlersAgreeWithReducer
  BY TablesAgree DEF HandlersAgreeWithReducer
<1> QED
  BY <1>1, StateCorrect, PTL
==============================================================================
