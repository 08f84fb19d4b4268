-------------------------- MODULE ToolExecutionProofs --------------------------
(***************************************************************************)
(* ToolExecution for any callers, executions and requests, and any bounds. *)
(*                                                                         *)
(* What a Mission's history says of its executions depends on the events   *)
(* alone, and no step removes one: so it is enough to look at the event    *)
(* that is appended, on the state its handler saw.                         *)
(***************************************************************************)
EXTENDS ToolExecution, TLAPS

Keys    == {r.idempotency_key : r \in Requests \cup BridgeRequests}
Details ==
    {"NONE"} \cup Observed \cup {o.observation : o \in Outcomes}
    \cup [idempotency_key : Keys]
    \cup [reconciliation_id : {q.reconciliation_id : q \in Reconciles},
          status : {q.observation : q \in Reconciles}]
    \cup [evidence_id : {v.evidence_id : v \in Evidence}, fact_seq : {v.fact_seq : v \in Evidence}]
Events ==
    [type : {"requested", "observed", "reconciled", "evidence", "other", "session_closed", "task_left"},
     execution : Executions \cup {NoExecution}, detail : Details]

-----------------------------------------------------------------------------
(* The history and the event that is appended to it.                       *)

History ==
    /\ stream \in Seq(Events)
    /\ OneFactPerIntent
    /\ IntentsAreAdmissible
    /\ ConfirmedIsFinal
    /\ EvidenceRestsOnFacts

EventFits(e) ==
    LET x == e.execution
    IN  /\ e \in Events
        /\ e.type = "requested" =>
              /\ Of("requested", x, HeadSeq) = {} /\ Admissible(HeadSeq)
              /\ \A i \in 1..HeadSeq :
                    stream[i].type = "requested" /\ e.detail.idempotency_key # NoKey
                    => stream[i].detail.idempotency_key # e.detail.idempotency_key
        /\ e.type = "observed" => Facts(x, HeadSeq) = {} /\ Requested(x, HeadSeq)
        /\ e.type = "reconciled" => ~FactIs(x, HeadSeq, "CONFIRMED")
        /\ e.type = "evidence" => /\ e.detail.fact_seq \in Facts(x, HeadSeq)
                                  /\ ~HasEvidence(x, e.detail.evidence_id, HeadSeq)

Grows == /\ HeadSeq' \in Nat /\ HeadSeq <= HeadSeq'
         /\ \A i \in 1..HeadSeq : stream'[i] = stream[i]

(* What was so at an earlier seq stays so.                                 *)
LEMMA PastStands ==
    ASSUME stream \in Seq(Events), Grows, NEW n \in 0..HeadSeq
    PROVE  /\ \A type, x : Of(type, x, n)' = Of(type, x, n)
           /\ Admissible(n)' = Admissible(n)
           /\ \A x : Facts(x, n)' = Facts(x, n) /\ (Requested(x, n)' <=> Requested(x, n))
           /\ \A x, id : HasEvidence(x, id, n)' <=> HasEvidence(x, id, n)
           /\ \A x, obs : FactIs(x, n, obs)' <=> FactIs(x, n, obs)
<1>0. HeadSeq \in Nat
  BY DEF HeadSeq
<1>1. \A i \in 1..n : stream'[i] = stream[i] /\ i \in 1..HeadSeq
  BY <1>0 DEF Grows
<1>2. \A type, x : Of(type, x, n)' = Of(type, x, n)
  BY <1>1 DEF Of
<1>3. \A type, x : Of(type, x, n) \subseteq 1..n
  BY DEF Of
<1>4. Admissible(n)' = Admissible(n)
  BY <1>1 DEF Admissible, Live, Current
<1>5. \A x : Facts(x, n)' = Facts(x, n) /\ (Requested(x, n)' <=> Requested(x, n))
  BY <1>2 DEF Facts, Requested
<1>6. \A x, id : HasEvidence(x, id, n)' <=> HasEvidence(x, id, n)
  BY <1>1, <1>2, <1>3 DEF HasEvidence
<1>7. \A x, obs : FactIs(x, n, obs)' <=> FactIs(x, n, obs)
  BY <1>1, <1>5, <1>3 DEF FactIs, Facts
<1> QED
  BY <1>2, <1>4, <1>5, <1>6, <1>7

LEMMA AppendGrows ==
    ASSUME stream \in Seq(Events), NEW e \in Events, stream' = Append(stream, e)
    PROVE  /\ stream' \in Seq(Events)
           /\ HeadSeq \in Nat /\ HeadSeq' = HeadSeq + 1
           /\ stream'[HeadSeq'] = e
           /\ Grows
BY DEF HeadSeq, Grows

(* A longer history keeps what is on record, and adds the new event.       *)
LEMMA OfAppended ==
    ASSUME stream \in Seq(Events), NEW e \in Events, stream' = Append(stream, e), NEW type, NEW x
    PROVE  Of(type, x, HeadSeq)' = Of(type, x, HeadSeq)
              \cup (IF e.type = type /\ e.execution = x THEN {HeadSeq + 1} ELSE {})
<1>1. /\ HeadSeq \in Nat /\ HeadSeq' = HeadSeq + 1
      /\ \A i \in 1..HeadSeq : stream'[i] = stream[i]
      /\ stream'[HeadSeq + 1] = e
  BY AppendGrows DEF Grows
<1>2. 1..HeadSeq' = 1..HeadSeq \cup {HeadSeq + 1}
  BY <1>1
<1> QED
  BY <1>1, <1>2 DEF Of

LEMMA HistoryGrows ==
    ASSUME History, NEW e, EventFits(e), stream' = Append(stream, e)
    PROVE  History' /\ Grows
<1> DEFINE H == HeadSeq
           x == e.execution
<1>0. e \in Events /\ stream \in Seq(Events)
  BY DEF EventFits, History
<1>a. H \in Nat /\ HeadSeq' = H + 1
  BY <1>0, AppendGrows
<1>b. stream' \in Seq(Events) /\ stream'[H + 1] = e /\ Grows
  BY <1>0, AppendGrows
<1>c. \A i \in 1..H : stream'[i] = stream[i]
  BY <1>b DEF Grows
<1> HIDE DEF H
<1>d. 1..HeadSeq' = 1..H \cup {H + 1}
  BY <1>a
<1>e. H = HeadSeq
  BY DEF H
<1>1. /\ stream' \in Seq(Events) /\ H \in Nat /\ HeadSeq' = H + 1
      /\ stream'[H + 1] = e /\ Grows
      /\ \A i \in 1..H : stream'[i] = stream[i]
      /\ 1..HeadSeq' = 1..H \cup {H + 1}
      /\ H = HeadSeq
  BY <1>a, <1>b, <1>c, <1>d, <1>e
<1>2. \A type, y : Of(type, y, HeadSeq)' = Of(type, y, H)
                      \cup (IF e.type = type /\ x = y THEN {H + 1} ELSE {})
  BY <1>e, <1>0, OfAppended
<1>3. \A type, y, n : Of(type, y, n) \subseteq 1..n /\ \A i \in Of(type, y, n) :
                          stream[i].type = type /\ stream[i].execution = y
  BY DEF Of
<1>4. \A i \in 1..H \cup {H + 1} : i - 1 \in 0..H
  BY <1>a
<1>9. ASSUME NEW i \in 1..HeadSeq', NEW j \in 1..HeadSeq',
             stream'[i].type = "requested", stream'[j].type = "requested",
             stream'[i].detail.idempotency_key = stream'[j].detail.idempotency_key,
             stream'[i].detail.idempotency_key # NoKey
      PROVE  i = j
  <2>1. CASE i \in 1..H /\ j \in 1..H
    BY <1>c, <1>e, <1>9, <2>1 DEF History, OneFactPerIntent
  <2>2. ASSUME NEW k \in 1..H, stream[k].type = "requested", e.type = "requested",
               stream[k].detail.idempotency_key = e.detail.idempotency_key,
               e.detail.idempotency_key # NoKey
        PROVE  FALSE
    BY <1>e, <2>2 DEF EventFits
  <2>3. CASE i = H + 1 /\ j \in 1..H
    BY <1>b, <1>c, <1>9, <2>2, <2>3
  <2>4. CASE j = H + 1 /\ i \in 1..H
    BY <1>b, <1>c, <1>9, <2>2, <2>4
  <2> QED
    BY <1>d, <2>1, <2>3, <2>4
<1>5. OneFactPerIntent'
  <2> SUFFICES ASSUME NEW y \in Executions
               PROVE  /\ \A i, j \in Of("requested", y, HeadSeq)' \cup Facts(y, HeadSeq)' :
                            stream'[i].type = stream'[j].type => i = j
                      /\ \A i \in Facts(y, HeadSeq)' : Requested(y, i - 1)'
    BY <1>9 DEF OneFactPerIntent
  <2>1. ASSUME NEW i \in Of("requested", y, HeadSeq)' \cup Facts(y, HeadSeq)',
               NEW j \in Of("requested", y, HeadSeq)' \cup Facts(y, HeadSeq)',
               stream'[i].type = stream'[j].type
        PROVE  i = j
    <3>1. CASE i \in 1..H /\ j \in 1..H
      <4>1. {i, j} \subseteq Of("requested", y, HeadSeq) \cup Facts(y, HeadSeq)
        BY <1>a, <1>e, <1>2, <3>1 DEF Facts
      <4>2. stream[i].type = stream[j].type
        BY <1>c, <2>1, <3>1
      <4> QED
        BY <4>1, <4>2 DEF History, OneFactPerIntent
    <3>2. ASSUME NEW k \in 1..H, k \in Of("requested", y, HeadSeq) \cup Facts(y, HeadSeq),
                 x = y, e.type = stream[k].type
          PROVE  FALSE
      BY <3>2, <1>3 DEF EventFits, Facts
    <3>3. CASE i = H + 1 /\ j \in 1..H
      <4>1. x = y /\ e.type \in {"requested", "observed"}
        BY <1>1, <1>2, <1>3, <3>3 DEF Facts
      <4>2. j \in Of("requested", y, HeadSeq) \cup Facts(y, HeadSeq)
        BY <1>1, <1>2, <3>3 DEF Facts
      <4> QED
        BY <1>1, <2>1, <3>2, <3>3, <4>1, <4>2
    <3>4. CASE j = H + 1 /\ i \in 1..H
      <4>1. x = y /\ e.type \in {"requested", "observed"}
        BY <1>1, <1>2, <1>3, <3>4 DEF Facts
      <4>2. i \in Of("requested", y, HeadSeq) \cup Facts(y, HeadSeq)
        BY <1>1, <1>2, <3>4 DEF Facts
      <4> QED
        BY <1>1, <2>1, <3>2, <3>4, <4>1, <4>2
    <3>5. i \in 1..H \cup {H + 1} /\ j \in 1..H \cup {H + 1}
      BY <1>2, <1>3 DEF Facts
    <3> QED
      BY <3>1, <3>3, <3>4, <3>5
  <2>2. ASSUME NEW i \in Facts(y, HeadSeq)'
        PROVE  Requested(y, i - 1)'
    <3>1. CASE i \in Facts(y, HeadSeq)
      <4>1. Requested(y, i - 1) /\ i - 1 \in 0..HeadSeq
        BY <1>1, <1>3, <3>1 DEF History, OneFactPerIntent, Facts
      <4> QED
        BY <1>1, <4>1, PastStands DEF History
    <3>2. CASE i = H + 1 /\ e.type = "observed" /\ x = y
      <4>1. Requested(y, i - 1) /\ i - 1 \in 0..HeadSeq
        BY <1>1, <3>2 DEF EventFits
      <4> QED
        BY <1>1, <4>1, PastStands DEF History
    <3> QED
      <4>1. i \in Facts(y, HeadSeq) \/ (i = H + 1 /\ e.type = "observed" /\ x = y)
        BY <1>2, <1>e DEF Facts
      <4> QED
        BY <3>1, <3>2, <4>1
  <2> QED
    BY <2>1, <2>2
<1>6. IntentsAreAdmissible'
  <2> SUFFICES ASSUME NEW i \in 1..HeadSeq', stream'[i].type = "requested"
               PROVE  Admissible(i - 1)'
    BY DEF IntentsAreAdmissible
  <2>1. i - 1 \in 0..HeadSeq
    BY <1>1, <1>4
  <2>2. Admissible(i - 1)
    <3>1. CASE i \in 1..H
      BY <1>1, <3>1 DEF History, IntentsAreAdmissible
    <3>2. CASE i = H + 1
      <4>1. i - 1 = HeadSeq
        BY <1>a, <1>e, <3>2
      <4>2. e.type = "requested"
        BY <1>b, <3>2
      <4> QED
        BY <4>1, <4>2 DEF EventFits
    <3> QED
      BY <1>1, <3>1, <3>2
  <2> QED
    BY <1>1, <1>0, <2>1, <2>2, PastStands
<1>7. ConfirmedIsFinal'
  <2> SUFFICES ASSUME NEW i \in 1..HeadSeq', NEW j \in 1..HeadSeq',
                      stream'[i].type = "observed", stream'[i].detail = "CONFIRMED",
                      stream'[j].type = "reconciled", stream'[j].execution = stream'[i].execution
               PROVE  j < i
    BY DEF ConfirmedIsFinal
  <2>1. CASE i = H + 1
    <3>1. j # H + 1
      BY <1>1, <2>1
    <3> QED
      BY <1>1, <2>1, <3>1
  <2>2. CASE i \in 1..H /\ j \in 1..H
    BY <1>1, <2>2 DEF History, ConfirmedIsFinal
  <2>3. CASE i \in 1..H /\ j = H + 1
    BY <1>1, <2>3 DEF EventFits, FactIs, Facts, Of
  <2> QED
    BY <1>1, <2>1, <2>2, <2>3
<1>8. EvidenceRestsOnFacts'
  <2> SUFFICES ASSUME NEW i \in 1..HeadSeq', stream'[i].type = "evidence"
               PROVE  /\ stream'[i].detail.fact_seq \in Facts(stream[i].execution, i - 1)'
                      /\ ~HasEvidence(stream[i].execution, stream[i].detail.evidence_id, i - 1)'
    BY DEF EvidenceRestsOnFacts
  <2> DEFINE f == stream'[i]
  <2>1. i - 1 \in 0..HeadSeq
    BY <1>1, <1>4
  <2>2. /\ f.detail.fact_seq \in Facts(f.execution, i - 1)
        /\ ~HasEvidence(f.execution, f.detail.evidence_id, i - 1)
    <3>1. CASE i \in 1..H
      BY <1>1, <3>1 DEF History, EvidenceRestsOnFacts
    <3>2. CASE i = H + 1
      <4>1. i - 1 = HeadSeq
        BY <1>a, <1>e, <3>2
      <4>2. f = e
        BY <1>b, <3>2
      <4> QED
        BY <4>1, <4>2 DEF EventFits
    <3> QED
      BY <1>1, <3>1, <3>2
  <2>3. /\ Facts(stream[i].execution, i - 1)' = Facts(f.execution, i - 1)
        /\ HasEvidence(stream[i].execution, stream[i].detail.evidence_id, i - 1)'
              <=> HasEvidence(f.execution, f.detail.evidence_id, i - 1)
    BY <1>0, <1>b, <2>1, PastStands
  <2> QED
    BY <2>2, <2>3
<1> QED
  BY <1>1, <1>5, <1>6, <1>7, <1>8 DEF History

-----------------------------------------------------------------------------
(* What the Command Bus makes of a command.                                *)

RowsOK ==
    \A row \in rows : row.answer.ok =>
        /\ row.answer.last_seq \in 1..HeadSeq
        /\ row.fingerprint.intent.type = "REQUEST" =>
              Requested(row.fingerprint.intent.execution, HeadSeq)

Proposes(cmd, facts, e) ==
    /\ facts = <<e>> /\ EventFits(e)
    /\ cmd.intent.type = "REQUEST" =>
          e.type = "requested" /\ e.execution = cmd.intent.execution
FactsFit(cmd, facts) == facts = << >> \/ \E e : Proposes(cmd, facts, e)

LEMMA RequestedStands ==
    ASSUME stream \in Seq(Events), Grows, NEW x, Requested(x, HeadSeq)
    PROVE  Requested(x, HeadSeq)'
<1>1. HeadSeq \in Nat
  BY DEF HeadSeq
<1>2. HeadSeq' \in Nat /\ HeadSeq <= HeadSeq' /\ \A i \in 1..HeadSeq : stream'[i] = stream[i]
  BY DEF Grows
<1>3. 1..HeadSeq \subseteq 1..HeadSeq'
  BY <1>1, <1>2
<1> QED
  BY <1>2, <1>3 DEF Requested, Of

LEMMA StaysPut ==
    ASSUME stream \in Seq(Events), UNCHANGED stream
    PROVE  Grows
BY DEF Grows, HeadSeq

LEMMA RowsStand ==
    ASSUME stream \in Seq(Events), RowsOK, Grows, rows' = rows
    PROVE  RowsOK'
<1>1. HeadSeq \in Nat /\ HeadSeq' \in Nat /\ HeadSeq <= HeadSeq'
  BY DEF HeadSeq, Grows
<1>2. 1..HeadSeq \subseteq 1..HeadSeq'
  BY <1>1
<1>3. \A x : Requested(x, HeadSeq) => Requested(x, HeadSeq)'
  BY RequestedStands
<1> QED
  BY <1>2, <1>3 DEF RowsOK

(* A command answered now: the history stays sound and only grows.  If it  *)
(* is a REQUEST and the answer is ok, its intent is on record.             *)
LEMMA Executed ==
    ASSUME History, RowsOK, NEW cmd, NEW facts, NEW refusal,
           Execute(cmd, facts, refusal),
           cmd.expected_seq = HeadSeq => FactsFit(cmd, facts)
    PROVE  /\ History' /\ RowsOK' /\ Grows
           /\ Answer(cmd, facts, refusal).ok =>
                 /\ Answer(cmd, facts, refusal).last_seq \in Nat
                 /\ cmd.intent.type = "REQUEST" => Requested(cmd.intent.execution, HeadSeq)'
<1> DEFINE a == Answer(cmd, facts, refusal)
<1>0. stream \in Seq(Events) /\ HeadSeq \in Nat
  BY DEF History, HeadSeq
<1>1. CASE Known(cmd) \cup KeyOwners(cmd) # {}
  <2>1. UNCHANGED stream /\ UNCHANGED rows
    BY <1>1 DEF Execute, log
  <2>2. Grows /\ RowsOK'
    BY <1>0, <2>1, StaysPut, RowsStand
  <2>3. HeadSeq' = HeadSeq
    BY <2>1 DEF HeadSeq
  <2>4. /\ OneFactPerIntent' /\ IntentsAreAdmissible' /\ ConfirmedIsFinal' /\ EvidenceRestsOnFacts'
        /\ \A x : Requested(x, HeadSeq)' <=> Requested(x, HeadSeq)
    BY <2>1, <2>3 DEF History, OneFactPerIntent, IntentsAreAdmissible, ConfirmedIsFinal,
       EvidenceRestsOnFacts, Of, Facts, Requested, Admissible, Live, Current, HasEvidence
  <2>5. History'
    BY <1>0, <2>1, <2>4 DEF History
  <2>6. ASSUME NEW owners, owners \subseteq rows, owners # {}, NEW code,
               StoredAnswer(cmd, owners, code).ok
        PROVE  /\ StoredAnswer(cmd, owners, code).last_seq \in Nat
               /\ cmd.intent.type = "REQUEST" => Requested(cmd.intent.execution, HeadSeq)
    <3>1. PICK row \in owners : row = (CHOOSE r \in owners : TRUE)
      BY <2>6
    <3>2. row.fingerprint = Fingerprint(cmd) /\ StoredAnswer(cmd, owners, code) = row.answer
      BY <2>6, <3>1 DEF StoredAnswer, Rejected
    <3>3. row.fingerprint.intent = cmd.intent
      BY <3>2 DEF Fingerprint
    <3> QED
      BY <1>0, <2>6, <3>2, <3>3 DEF RowsOK
  <2>7. \/ Known(cmd) # {} /\ a = StoredAnswer(cmd, Known(cmd), "COMMAND_ID_CONFLICT")
        \/ KeyOwners(cmd) # {} /\ a = StoredAnswer(cmd, KeyOwners(cmd), "IDEMPOTENCY_CONFLICT")
    <3>1. CASE Known(cmd) # {}
      BY <3>1 DEF Answer
    <3>2. CASE Known(cmd) = {}
      BY <1>1, <3>2 DEF Answer
    <3> QED
      BY <3>1, <3>2
  <2>8. Known(cmd) \subseteq rows /\ KeyOwners(cmd) \subseteq rows
    BY DEF Known, KeyOwners
  <2> HIDE DEF a
  <2>9. a.ok => a.last_seq \in Nat
                  /\ (cmd.intent.type = "REQUEST" => Requested(cmd.intent.execution, HeadSeq))
    BY <2>6, <2>7, <2>8
  <2> QED
    BY <2>2, <2>4, <2>5, <2>9 DEF a
<1>2. CASE Known(cmd) \cup KeyOwners(cmd) = {}
  <2>0. Known(cmd) = {} /\ KeyOwners(cmd) = {}
    BY <1>2
  <2>1. a = IF cmd.expected_seq # HeadSeq THEN Rejected("EXPECTED_SEQ_MISMATCH")
            ELSE IF facts = << >> THEN Rejected(refusal)
            ELSE Accepted(HeadSeq + Len(facts))
    BY <2>0 DEF Answer
  <2>2. /\ rows' = rows \cup {Row(cmd, a)}
        /\ stream' = IF a.ok THEN stream \o facts ELSE stream
    BY <2>0 DEF Execute
  <2>3. Row(cmd, a).answer = a /\ Row(cmd, a).fingerprint.intent = cmd.intent
    BY DEF Row, Fingerprint
  <2> HIDE DEF a
  <2>4. CASE ~a.ok
    <3>1. stream' = stream
      BY <2>2, <2>4
    <3>2. Grows /\ HeadSeq' = HeadSeq
      BY <1>0, <3>1, StaysPut DEF HeadSeq
    <3>3. /\ OneFactPerIntent' /\ IntentsAreAdmissible' /\ ConfirmedIsFinal' /\ EvidenceRestsOnFacts'
          /\ \A x : Requested(x, HeadSeq)' <=> Requested(x, HeadSeq)
      BY <3>1, <3>2 DEF History, OneFactPerIntent, IntentsAreAdmissible, ConfirmedIsFinal,
         EvidenceRestsOnFacts, Of, Facts, Requested, Admissible, Live, Current, HasEvidence
    <3>4. History'
      BY <1>0, <3>1, <3>3 DEF History
    <3>5. RowsOK'
      BY <2>2, <2>3, <2>4, <3>2, <3>3 DEF RowsOK
    <3> QED
      BY <2>4, <3>2, <3>4, <3>5 DEF a
  <2>5. CASE a.ok
    <3>1. cmd.expected_seq = HeadSeq /\ facts # << >>
      BY <2>1, <2>5 DEF Rejected
    <3>2. PICK e : Proposes(cmd, facts, e)
      BY <3>1 DEF FactsFit
    <3>3. EventFits(e) /\ e \in Events /\ facts = <<e>>
      BY <3>2 DEF Proposes, EventFits
    <3>4. stream' = Append(stream, e)
      BY <1>0, <2>2, <2>5, <3>3
    <3>5. History' /\ Grows
      BY <3>3, <3>4, HistoryGrows
    <3>6. HeadSeq' = HeadSeq + 1 /\ stream'[HeadSeq'] = e
      BY <1>0, <3>3, <3>4, AppendGrows
    <3>7. a.last_seq = HeadSeq'
      BY <2>1, <3>1, <3>3, <3>6 DEF Accepted
    <3>8. cmd.intent.type = "REQUEST" => Requested(cmd.intent.execution, HeadSeq)'
      <4>1. HeadSeq' \in 1..HeadSeq'
        BY <1>0, <3>6
      <4> QED
        BY <3>2, <3>6, <4>1 DEF Proposes, Requested, Of
    <3>9. RowsOK'
      <4>1. HeadSeq' \in 1..HeadSeq' /\ 1..HeadSeq \subseteq 1..HeadSeq'
        BY <1>0, <3>6
      <4>2. \A x : Requested(x, HeadSeq) => Requested(x, HeadSeq)'
        BY <1>0, <3>5, RequestedStands
      <4> QED
        BY <2>2, <2>3, <3>7, <3>8, <4>1, <4>2 DEF RowsOK
    <3>10. a.last_seq \in Nat
      BY <1>0, <3>6, <3>7
    <3> QED
      BY <3>5, <3>8, <3>9, <3>10 DEF a
  <2> QED
    BY <2>4, <2>5
<1> QED
  BY <1>1, <1>2

-----------------------------------------------------------------------------
(* The callers: what each of them relies on is a fact of the past.         *)

Announced == {"invoking", "invoked", "asserted", "recording"}
Phases == {"idle", "dispatching", "requesting"} \cup Announced

CallerOK(c) ==
    /\ phase[c] # "idle" => request[c] \in Requests \cup BridgeRequests
    /\ phase[c] = "idle" => request[c] = NoRequest
    /\ phase[c] = "requesting" =>
          /\ request[c].expected_seq <= HeadSeq
          /\ Admissible(request[c].expected_seq)
    /\ phase[c] \in Announced => Requested(request[c].tool_execution_id, HeadSeq)

Typed ==
    /\ phase \in [Callers -> Phases]
    /\ request \in [Callers -> Requests \cup BridgeRequests \cup {NoRequest}]
    /\ seen \in [Callers -> Nat]
    /\ observation \in [Callers -> Observed]
    /\ invocations \in [Executions -> Nat]

IInv ==
    /\ History /\ RowsOK /\ Typed
    /\ \A c \in Callers : CallerOK(c)
    /\ IntentBeforeEffect

LEMMA InitIInv == Init => IInv
<1> SUFFICES ASSUME Init PROVE IInv
  OBVIOUS
<1>1. stream = << >> /\ HeadSeq = 0 /\ rows = {}
  BY DEF Init, HeadSeq
<1>2. stream \in Seq(Events) /\ 1..HeadSeq = {}
  BY <1>1
<1>3. \A type, x : Of(type, x, HeadSeq) = {}
  BY <1>2 DEF Of
<1>4. History
  BY <1>2, <1>3 DEF History, OneFactPerIntent, Facts, IntentsAreAdmissible, ConfirmedIsFinal,
     EvidenceRestsOnFacts
<1>5. RowsOK
  BY <1>1 DEF RowsOK
<1>6. Typed /\ (\A c \in Callers : CallerOK(c)) /\ IntentBeforeEffect
  BY ToolExecutionAssumption DEF Init, Typed, CallerOK, IntentBeforeEffect, Phases, Announced, Observed
<1> QED
  BY <1>4, <1>5, <1>6 DEF IInv

(* Everything a caller relies on outlives the steps of others.             *)
LEMMA CallerStands ==
    ASSUME IInv, Grows, NEW c \in Callers,
           phase'[c] = phase[c], request'[c] = request[c]
    PROVE  CallerOK(c)'
<1>0. stream \in Seq(Events) /\ CallerOK(c)
  BY DEF IInv, History
<1>1. HeadSeq \in Nat /\ HeadSeq' \in Nat /\ HeadSeq <= HeadSeq'
  BY DEF HeadSeq, Grows
<1>2. \A x : Requested(x, HeadSeq) => Requested(x, HeadSeq)'
  BY <1>0, RequestedStands
<1>3. ASSUME phase[c] = "requesting"
      PROVE  /\ request[c].expected_seq <= HeadSeq'
             /\ Admissible(request[c].expected_seq)'
  <2>1. request[c].expected_seq \in 0..HeadSeq /\ Admissible(request[c].expected_seq)
    BY <1>0, <1>1, <1>3, ToolExecutionAssumption DEF CallerOK
  <2> QED
    BY <1>0, <1>1, <2>1, PastStands
<1> QED
  BY <1>0, <1>2, <1>3 DEF CallerOK

LEMMA EffectsStand ==
    ASSUME IInv, Grows, invocations' = invocations
    PROVE  IntentBeforeEffect'
<1>0. stream \in Seq(Events)
  BY DEF IInv, History
<1> QED
  BY <1>0, RequestedStands DEF IInv, IntentBeforeEffect

(* A step that writes nothing leaves the log sound.                        *)
LEMMA LogStands ==
    ASSUME IInv, UNCHANGED log
    PROVE  History' /\ RowsOK' /\ Grows /\ HeadSeq' = HeadSeq
<1>1. stream \in Seq(Events) /\ stream' = stream /\ rows' = rows
  BY DEF IInv, History, log
<1>2. HeadSeq' = HeadSeq
  BY <1>1 DEF HeadSeq
<1>3. OneFactPerIntent' /\ IntentsAreAdmissible' /\ ConfirmedIsFinal' /\ EvidenceRestsOnFacts'
  <2>1. \A type, x, n : Of(type, x, n)' = Of(type, x, n)
    BY <1>1 DEF Of
  <2>2. \A x, n : Facts(x, n)' = Facts(x, n) /\ (Requested(x, n)' <=> Requested(x, n))
    BY <2>1 DEF Facts, Requested
  <2>3. \A n : Admissible(n)' <=> Admissible(n)
    BY <1>1 DEF Admissible, Live, Current
  <2>4. \A x, id, n : HasEvidence(x, id, n)' <=> HasEvidence(x, id, n)
    BY <1>1, <2>1 DEF HasEvidence
  <2>5. OneFactPerIntent'
    BY <1>1, <1>2, <2>1, <2>2 DEF IInv, History, OneFactPerIntent
  <2>6. IntentsAreAdmissible'
    BY <1>1, <1>2, <2>3 DEF IInv, History, IntentsAreAdmissible
  <2>7. ConfirmedIsFinal'
    BY <1>1, <1>2 DEF IInv, History, ConfirmedIsFinal
  <2>8. EvidenceRestsOnFacts'
    BY <1>1, <1>2, <2>2, <2>4 DEF IInv, History, EvidenceRestsOnFacts
  <2> QED
    BY <2>5, <2>6, <2>7, <2>8
<1>4. Grows /\ RowsOK'
  BY <1>1, StaysPut, RowsStand DEF IInv
<1> QED
  BY <1>1, <1>2, <1>3, <1>4 DEF History

LEMMA Left ==
    ASSUME IInv, Grows, NEW c \in Callers, Leave(c)
    PROVE  /\ Typed' <=> invocations' \in [Executions -> Nat]
           /\ \A d \in Callers : CallerOK(d)'
<1>1. /\ phase' = [phase EXCEPT ![c] = "idle"]
      /\ request' = [request EXCEPT ![c] = NoRequest]
      /\ seen' = [seen EXCEPT ![c] = 0]
      /\ observation' = [observation EXCEPT ![c] = "UNKNOWN"]
  BY DEF Leave, Goto
<1>2. Typed
  BY DEF IInv
<1>3. /\ phase' \in [Callers -> Phases]
      /\ request' \in [Callers -> Requests \cup BridgeRequests \cup {NoRequest}]
      /\ seen' \in [Callers -> Nat]
      /\ observation' \in [Callers -> Observed]
  BY <1>1, <1>2 DEF Typed, Phases, Observed
<1>4. phase'[c] = "idle" /\ request'[c] = NoRequest
  BY <1>1, <1>2 DEF Typed
<1>5. CallerOK(c)'
  BY <1>4 DEF CallerOK, Announced
<1>6. ASSUME NEW d \in Callers, d # c PROVE CallerOK(d)'
  <2>1. phase'[d] = phase[d] /\ request'[d] = request[d]
    BY <1>1, <1>2, <1>6 DEF Typed
  <2> QED
    BY <2>1, CallerStands
<1> QED
  BY <1>3, <1>5, <1>6 DEF Typed

(* A caller goes on: only its own entries change.                          *)
LEMMA GoesOn ==
    ASSUME IInv, Grows, NEW c \in Callers, NEW p \in Phases, Goto(c, p),
           \A d \in Callers \ {c} : request'[d] = request[d],
           CallerOK(c)'
    PROVE  /\ \A d \in Callers : CallerOK(d)'
           /\ phase' \in [Callers -> Phases]
<1>1. phase' = [phase EXCEPT ![c] = p] /\ phase \in [Callers -> Phases]
  BY DEF Goto, IInv, Typed
<1>2. ASSUME NEW d \in Callers, d # c PROVE CallerOK(d)'
  <2>1. phase'[d] = phase[d] /\ request'[d] = request[d]
    BY <1>1, <1>2
  <2> QED
    BY <2>1, CallerStands
<1> QED
  BY <1>1, <1>2

-----------------------------------------------------------------------------
(* The steps of execute().                                                 *)

LEMMA PrepareStep ==
    ASSUME IInv, NEW c \in Callers, NEW r \in Requests, Prepare(c, r)
    PROVE  IInv'
<1>1. /\ phase[c] = "idle" /\ Goto(c, "requesting")
      /\ request' = [request EXCEPT ![c] = r]
      /\ r.expected_seq <= HeadSeq /\ Admissible(r.expected_seq)
      /\ UNCHANGED <<log, seen, observation, invocations>>
  BY DEF Prepare, Prepared
<1>2. History' /\ RowsOK' /\ Grows /\ HeadSeq' = HeadSeq
  BY <1>1, LogStands
<1>3. Typed /\ stream \in Seq(Events)
  BY DEF IInv, History
<1>4. phase'[c] = "requesting" /\ request'[c] = r
  BY <1>1, <1>3 DEF Goto, Typed
<1>5. Admissible(r.expected_seq)'
  <2>1. r.expected_seq \in 0..HeadSeq
    BY <1>1, ToolExecutionAssumption DEF HeadSeq
  <2> QED
    BY <1>1, <1>2, <1>3, <2>1, PastStands
<1>6. CallerOK(c)'
  BY <1>1, <1>2, <1>4, <1>5 DEF CallerOK, Announced
<1>7. \A d \in Callers \ {c} : request'[d] = request[d]
  BY <1>1, <1>3 DEF Typed
<1>8. "requesting" \in Phases
  BY DEF Phases
<1>9. (\A d \in Callers : CallerOK(d)') /\ phase' \in [Callers -> Phases]
  BY <1>1, <1>2, <1>6, <1>7, <1>8, GoesOn
<1>10. Typed'
  BY <1>1, <1>3, <1>9 DEF Typed
<1>11. IntentBeforeEffect'
  BY <1>1, <1>2, EffectsStand
<1> QED
  BY <1>2, <1>9, <1>10, <1>11 DEF IInv

(* What an accepted REQUEST appends fits: the service saw the same head.   *)
LEMMA RequestFits ==
    ASSUME IInv, NEW c \in Callers, phase[c] = "requesting",
           RequestCommand(request[c]).expected_seq = HeadSeq
    PROVE  FactsFit(RequestCommand(request[c]), RequestFacts(request[c]))
<1> DEFINE r == request[c]
           x == r.tool_execution_id
           e == Event("requested", x, [idempotency_key |-> r.idempotency_key])
<1>1. r \in Requests \cup BridgeRequests /\ Admissible(HeadSeq)
  BY DEF IInv, CallerOK, RequestCommand, Command
<1>2. x \in Executions
  BY <1>1, ToolExecutionAssumption
<1>3. e \in Events /\ e.type = "requested" /\ e.execution = x
  <2>1. [idempotency_key |-> r.idempotency_key] \in Details
    <3>1. r.idempotency_key \in Keys
      BY <1>1 DEF Keys
    <3> QED
      BY <3>1 DEF Details
  <2> QED
    BY <1>2, <2>1 DEF Events, Event
<1>4. CASE Live(HeadSeq) /\ Owners(r, HeadSeq) = {}
  <2>1. RequestFacts(r) = <<e>>
    BY <1>4 DEF RequestFacts
  <2>2. Of("requested", x, HeadSeq) = {}
    BY <1>4 DEF Owners, Of
  <2>6. ASSUME NEW i \in 1..HeadSeq, stream[i].type = "requested", e.detail.idempotency_key # NoKey
        PROVE  stream[i].detail.idempotency_key # e.detail.idempotency_key
    <3>1. e.detail.idempotency_key = r.idempotency_key
      BY DEF Event
    <3> QED
      BY <1>4, <2>6, <3>1 DEF Owners
  <2>3. EventFits(e)
    <3> HIDE DEF e
    <3> QED
      BY <1>1, <1>3, <2>2, <2>6 DEF EventFits
  <2>4. RequestCommand(r).intent.type = "REQUEST" /\ RequestCommand(r).intent.execution = x
    BY DEF RequestCommand, Command
  <2> HIDE DEF e, r, x
  <2>5. Proposes(RequestCommand(r), RequestFacts(r), e)
    BY <1>3, <2>1, <2>3, <2>4 DEF Proposes
  <2> QED
    BY <2>5 DEF FactsFit, r
<1>5. CASE ~(Live(HeadSeq) /\ Owners(r, HeadSeq) = {})
  BY <1>5 DEF RequestFacts, FactsFit
<1> QED
  BY <1>4, <1>5

LEMMA SendRequestStep ==
    ASSUME IInv, NEW c \in Callers, SendRequest(c)
    PROVE  IInv'
<1> DEFINE r == request[c]
           a == Answer(RequestCommand(r), RequestFacts(r), "REFUSED")
<1>1. /\ phase[c] = "requesting"
      /\ Execute(RequestCommand(r), RequestFacts(r), "REFUSED")
      /\ IF a.ok
         THEN /\ Goto(c, "invoking") /\ seen' = [seen EXCEPT ![c] = a.last_seq]
              /\ UNCHANGED <<request, observation>>
         ELSE Leave(c)
      /\ UNCHANGED invocations
  BY DEF SendRequest
<1>2. RequestCommand(r).expected_seq = HeadSeq => FactsFit(RequestCommand(r), RequestFacts(r))
  BY <1>1, RequestFits
<1>3. /\ RequestCommand(r).intent.type = "REQUEST"
      /\ RequestCommand(r).intent.execution = r.tool_execution_id
  BY DEF RequestCommand, Command
<1>4. /\ History' /\ RowsOK' /\ Grows
      /\ a.ok => a.last_seq \in Nat /\ Requested(r.tool_execution_id, HeadSeq)'
  <2>1. History /\ RowsOK
    BY DEF IInv
  <2> QED
    BY <1>1, <1>2, <1>3, <2>1, Executed
<1> HIDE DEF a
<1>5. Typed
  BY DEF IInv
<1>6. IntentBeforeEffect'
  BY <1>1, <1>4, EffectsStand
<1>7. CASE a.ok
  <2>1. phase'[c] = "invoking" /\ request' = request
    BY <1>1, <1>5, <1>7 DEF Goto, Typed
  <2>2. r \in Requests \cup BridgeRequests
    BY <1>1 DEF IInv, CallerOK
  <2>3. CallerOK(c)'
    BY <1>4, <1>7, <2>1, <2>2 DEF CallerOK
  <2>4. "invoking" \in Phases
    BY DEF Phases, Announced
  <2>5. (\A d \in Callers : CallerOK(d)') /\ phase' \in [Callers -> Phases]
    BY <1>1, <1>4, <1>7, <2>1, <2>3, <2>4, GoesOn
  <2>6. Typed'
    BY <1>1, <1>4, <1>5, <1>7, <2>5 DEF Typed
  <2> QED
    BY <1>4, <1>6, <2>5, <2>6 DEF IInv
<1>8. CASE ~a.ok
  <2>1. Leave(c)
    BY <1>1, <1>8
  <2> QED
    BY <1>1, <1>4, <1>5, <1>6, <2>1, Left DEF IInv, Typed
<1> QED
  BY <1>7, <1>8

LEMMA InvokeStep ==
    ASSUME IInv, NEW c \in Callers, Invoke(c)
    PROVE  IInv'
<1>0. PICK x : x = request[c].tool_execution_id
  OBVIOUS
<1>1. /\ phase[c] = "invoking" /\ Goto(c, "invoked")
      /\ invocations' = [invocations EXCEPT ![x] = @ + 1]
      /\ \E obs \in Observed : observation' = [observation EXCEPT ![c] = obs]
      /\ UNCHANGED <<log, request, seen>>
  BY <1>0 DEF Invoke
<1>2. History' /\ RowsOK' /\ Grows /\ HeadSeq' = HeadSeq
  BY <1>1, LogStands
<1>3. Typed /\ stream \in Seq(Events) /\ IntentBeforeEffect
  BY DEF IInv, History
<1>4. Requested(x, HeadSeq) /\ request[c] \in Requests \cup BridgeRequests
  BY <1>0, <1>1 DEF IInv, CallerOK, Announced
<1>5. Requested(x, HeadSeq)'
  BY <1>2, <1>3, <1>4, RequestedStands
<1>6. phase'[c] = "invoked" /\ request' = request
  BY <1>1, <1>3 DEF Goto, Typed
<1>7. CallerOK(c)'
  BY <1>0, <1>4, <1>5, <1>6 DEF CallerOK
<1>8. "invoked" \in Phases
  BY DEF Phases, Announced
<1>9. (\A d \in Callers : CallerOK(d)') /\ phase' \in [Callers -> Phases]
  BY <1>1, <1>2, <1>6, <1>7, <1>8, GoesOn
<1>10. Typed'
  <2>1. x \in Executions
    BY <1>0, <1>4, ToolExecutionAssumption
  <2>2. invocations' \in [Executions -> Nat]
    BY <1>1, <1>3, <2>1 DEF Typed
  <2> QED
    BY <1>1, <1>3, <1>9, <2>2 DEF Typed
<1>11. IntentBeforeEffect'
  <2> SUFFICES ASSUME NEW y \in Executions, invocations'[y] > 0
               PROVE  Requested(y, HeadSeq)'
    BY DEF IntentBeforeEffect
  <2>1. CASE y = x
    BY <1>5, <2>1
  <2>2. CASE y # x
    <3>1. invocations'[y] = invocations[y]
      BY <1>1, <1>3, <2>2 DEF Typed
    <3> QED
      BY <1>2, <1>3, <3>1, RequestedStands DEF IntentBeforeEffect
  <2> QED
    BY <2>1, <2>2
<1> QED
  BY <1>2, <1>9, <1>10, <1>11 DEF IInv

(* The call ends without a command.                                        *)
LEMMA LeaveStep ==
    ASSUME IInv, NEW c \in Callers, Leave(c), UNCHANGED <<log, invocations>>
    PROVE  IInv'
<1>1. History' /\ RowsOK' /\ Grows
  BY LogStands
<1>2. IntentBeforeEffect'
  BY <1>1, EffectsStand
<1> QED
  BY <1>1, <1>2, Left DEF IInv, Typed

(* A step of a caller that only goes on, with what it has.                 *)
LEMMA MoveStep ==
    ASSUME IInv, NEW c \in Callers, NEW p \in Phases, Goto(c, p),
           UNCHANGED <<log, request, observation, invocations>>,
           seen' \in [Callers -> Nat],
           phase[c] \in Announced /\ p \in Announced
    PROVE  IInv'
<1>1. History' /\ RowsOK' /\ Grows /\ HeadSeq' = HeadSeq
  BY LogStands
<1>2. Typed /\ stream \in Seq(Events)
  BY DEF IInv, History
<1>3. phase'[c] = p /\ request' = request
  BY <1>2 DEF Goto, Typed
<1>4. Requested(request[c].tool_execution_id, HeadSeq) /\ request[c] \in Requests \cup BridgeRequests
  BY DEF IInv, CallerOK, Announced
<1>5. Requested(request[c].tool_execution_id, HeadSeq)'
  BY <1>1, <1>2, <1>4, RequestedStands
<1>6. CallerOK(c)'
  BY <1>3, <1>4, <1>5 DEF CallerOK, Announced
<1>7. (\A d \in Callers : CallerOK(d)') /\ phase' \in [Callers -> Phases]
  BY <1>1, <1>3, <1>6, GoesOn
<1>8. IntentBeforeEffect'
  BY <1>1, EffectsStand
<1> QED
  BY <1>1, <1>2, <1>7, <1>8 DEF IInv, Typed

LEMMA AssertHeadUnchangedStep ==
    ASSUME IInv, NEW c \in Callers, AssertHeadUnchanged(c)
    PROVE  IInv'
<1>1. CASE seen[c] = HeadSeq
  <2>1. phase[c] = "invoked" /\ Goto(c, "asserted")
        /\ UNCHANGED <<log, request, seen, observation, invocations>>
    BY <1>1 DEF AssertHeadUnchanged
  <2>2. "asserted" \in Phases /\ phase[c] \in Announced /\ "asserted" \in Announced
    BY <2>1 DEF Phases, Announced
  <2>3. seen' \in [Callers -> Nat]
    BY <2>1 DEF IInv, Typed
  <2> QED
    BY <2>1, <2>2, <2>3, MoveStep
<1>2. CASE seen[c] # HeadSeq
  BY <1>2, LeaveStep DEF AssertHeadUnchanged
<1> QED
  BY <1>1, <1>2

LEMMA ReadHeadStep ==
    ASSUME IInv, NEW c \in Callers, ReadHead(c)
    PROVE  IInv'
<1>1. /\ phase[c] = "asserted" /\ Goto(c, "recording")
      /\ seen' = [seen EXCEPT ![c] = HeadSeq]
      /\ UNCHANGED <<log, request, observation, invocations>>
  BY DEF ReadHead
<1>2. "recording" \in Phases /\ phase[c] \in Announced /\ "recording" \in Announced
  BY <1>1 DEF Phases, Announced
<1>3. HeadSeq \in Nat
  BY DEF IInv, History, HeadSeq
<1>4. seen' \in [Callers -> Nat]
  BY <1>1, <1>3 DEF IInv, Typed
<1> QED
  BY <1>1, <1>2, <1>4, MoveStep

LEMMA OutcomeFits ==
    ASSUME History, NEW x \in Executions, NEW obs \in Observed \cup {o.observation : o \in Outcomes},
           NEW cmd, cmd.intent.type = "OUTCOME"
    PROVE  FactsFit(cmd, OutcomeFacts(x, obs))
<1> DEFINE e == Event("observed", x, obs)
<1>1. e \in Events /\ e.type = "observed" /\ e.execution = x
  BY DEF Events, Event, Details
<1>2. CASE Live(HeadSeq) /\ Requested(x, HeadSeq) /\ Facts(x, HeadSeq) = {}
  <2>1. OutcomeFacts(x, obs) = <<e>>
    BY <1>2 DEF OutcomeFacts
  <2> HIDE DEF e
  <2>2. EventFits(e)
    BY <1>1, <1>2 DEF EventFits
  <2> QED
    BY <1>1, <2>1, <2>2 DEF FactsFit, Proposes
<1>3. CASE ~(Live(HeadSeq) /\ Requested(x, HeadSeq) /\ Facts(x, HeadSeq) = {})
  BY <1>3 DEF OutcomeFacts, FactsFit
<1> QED
  BY <1>2, <1>3

LEMMA RecordOutcomeStep ==
    ASSUME IInv, NEW c \in Callers, RecordOutcome(c)
    PROVE  IInv'
<1> DEFINE r == request[c]
           obs == observation[c]
           cmd == OutcomeCommand(r, seen[c], obs)
           facts == OutcomeFacts(r.tool_execution_id, obs)
<1>1. phase[c] = "recording" /\ Execute(cmd, facts, "REFUSED") /\ Leave(c) /\ UNCHANGED invocations
  BY DEF RecordOutcome
<1>2. History /\ RowsOK /\ Typed
  BY DEF IInv
<1>3. r.tool_execution_id \in Executions /\ obs \in Observed /\ cmd.intent.type = "OUTCOME"
  <2>1. r \in Requests \cup BridgeRequests
    BY <1>1 DEF IInv, CallerOK
  <2> QED
    BY <1>2, <2>1, ToolExecutionAssumption DEF Typed, OutcomeCommand, Command
<1> HIDE DEF r, obs, cmd
<1>4. FactsFit(cmd, facts)
  BY <1>2, <1>3, OutcomeFits
<1> HIDE DEF facts
<1>5. History' /\ RowsOK' /\ Grows
  BY <1>1, <1>2, <1>4, Executed
<1>6. IntentBeforeEffect'
  BY <1>1, <1>5, EffectsStand
<1> QED
  BY <1>1, <1>2, <1>5, <1>6, Left DEF IInv, Typed

-----------------------------------------------------------------------------
(* The commands of others, and the bridge.                                 *)

(* A command of someone who is not in execute().                           *)
LEMMA OutsideStep ==
    ASSUME IInv, History', RowsOK', Grows, UNCHANGED <<calls, invocations>>
    PROVE  IInv'
<1>1. IntentBeforeEffect'
  BY EffectsStand
<1>2. \A c \in Callers : CallerOK(c)'
  BY CallerStands DEF calls
<1> QED
  BY <1>1, <1>2 DEF IInv, Typed, calls

LEMMA SendOutcomeStep ==
    ASSUME IInv, NEW o \in Outcomes, SendOutcome(o)
    PROVE  IInv'
<1> DEFINE cmd == Command(o.command_id, o.idempotency_key, o.expected_seq,
                       [type |-> "OUTCOME", execution |-> o.tool_execution_id,
                        observation |-> o.observation])
           facts == OutcomeFacts(o.tool_execution_id, o.observation)
<1>1. Execute(cmd, facts, "REFUSED") /\ UNCHANGED <<calls, invocations>>
  BY DEF SendOutcome
<1>2. History /\ RowsOK /\ cmd.intent.type = "OUTCOME"
  BY DEF IInv, Command
<1> HIDE DEF cmd
<1>3. FactsFit(cmd, facts)
  BY <1>2, OutcomeFits, ToolExecutionAssumption
<1> HIDE DEF facts
<1> QED
  BY <1>1, <1>2, <1>3, Executed, OutsideStep

LEMMA ReconcileFits ==
    ASSUME History, NEW q \in Reconciles
    PROVE  FactsFit(ReconcileCommand(q), ReconcileFacts(q))
<1> DEFINE x == q.tool_execution_id
           d == [reconciliation_id |-> q.reconciliation_id, status |-> q.observation]
           e == Event("reconciled", x, d)
<1>1. x \in Executions
  BY ToolExecutionAssumption
<1>2. d \in Details
  BY DEF Details
<1>3. e \in Events /\ e.type = "reconciled" /\ e.execution = x
  BY <1>1, <1>2 DEF Events, Event
<1>4. ReconcileCommand(q).intent.type # "REQUEST"
  BY DEF ReconcileCommand, Command
<1>5. CASE ReconcileRefusal(q) = "NONE"
  <2>1. ~FactIs(x, HeadSeq, "CONFIRMED")
    BY <1>5 DEF ReconcileRefusal
  <2>2. ReconcileFacts(q) = <<e>>
    BY <1>5 DEF ReconcileFacts
  <2> HIDE DEF e
  <2>3. EventFits(e)
    BY <1>3, <2>1 DEF EventFits
  <2> QED
    BY <1>4, <2>2, <2>3 DEF FactsFit, Proposes
<1>6. CASE ReconcileRefusal(q) # "NONE"
  BY <1>6 DEF ReconcileFacts, FactsFit
<1> QED
  BY <1>5, <1>6

LEMMA ReconcileStep ==
    ASSUME IInv, NEW q \in Reconciles, Reconcile(q)
    PROVE  IInv'
<1>1. History /\ RowsOK
  BY DEF IInv
<1> QED
  BY <1>1, ReconcileFits, Executed, OutsideStep DEF Reconcile

LEMMA RecordEvidenceStep ==
    ASSUME IInv, NEW v \in Evidence, RecordEvidence(v)
    PROVE  IInv'
<1> DEFINE x == v.tool_execution_id
           d == [evidence_id |-> v.evidence_id, fact_seq |-> v.fact_seq]
           e == Event("evidence", x, d)
           cmd == Command(v.command_id, v.idempotency_key, v.expected_seq,
                       [type |-> "EVIDENCE", execution |-> v.tool_execution_id,
                        evidence_id |-> v.evidence_id, fact_seq |-> v.fact_seq])
<1>1. Execute(cmd, EvidenceFacts(v), "REFUSED") /\ UNCHANGED <<calls, invocations>>
  BY DEF RecordEvidence
<1>2. History /\ RowsOK /\ cmd.intent.type # "REQUEST"
  BY DEF IInv, Command
<1>3. d \in Details
  BY DEF Details
<1>4. e \in Events /\ e.type = "evidence" /\ e.execution = x /\ e.detail = d
  BY <1>3, ToolExecutionAssumption DEF Events, Event
<1> HIDE DEF cmd
<1>5. FactsFit(cmd, EvidenceFacts(v))
  <2>1. CASE /\ Live(HeadSeq) /\ v.fact_seq \in Facts(x, HeadSeq)
             /\ ~HasEvidence(x, v.evidence_id, HeadSeq)
    <3>1. EvidenceFacts(v) = <<e>>
      BY <2>1 DEF EvidenceFacts
    <3>2. EventFits(e)
      BY <1>4, <2>1 DEF EventFits
    <3> HIDE DEF e
    <3> QED
      BY <1>2, <3>1, <3>2 DEF FactsFit, Proposes
  <2>2. CASE ~(/\ Live(HeadSeq) /\ v.fact_seq \in Facts(x, HeadSeq)
               /\ ~HasEvidence(x, v.evidence_id, HeadSeq))
    BY <2>2 DEF EvidenceFacts, FactsFit
  <2> QED
    BY <2>1, <2>2
<1> QED
  BY <1>1, <1>2, <1>5, Executed, OutsideStep

LEMMA BridgeTurnStep ==
    ASSUME IInv, NEW c \in Callers, NEW q \in Reconciles, NEW r \in BridgeRequests,
           BridgeTurn(c, q, r)
    PROVE  IInv'
<1>1. Execute(ReconcileCommand(q), ReconcileFacts(q), ReconcileRefusal(q))
      /\ UNCHANGED invocations
  BY DEF BridgeTurn
<1>2. History' /\ RowsOK' /\ Grows
  <2>1. History /\ RowsOK
    BY DEF IInv
  <2> QED
    BY <1>1, <2>1, ReconcileFits, Executed
<1>3. CASE ReconcileAnswer(q).ok
  <2>1. UNCHANGED calls
    BY <1>3 DEF BridgeTurn
  <2> QED
    BY <1>1, <1>2, <2>1, OutsideStep
<1>4. CASE ~ReconcileAnswer(q).ok
  <2>1. /\ Goto(c, "dispatching") /\ request' = [request EXCEPT ![c] = r]
        /\ UNCHANGED <<seen, observation>>
    BY <1>4 DEF BridgeTurn
  <2>2. Typed
    BY DEF IInv
  <2>3. phase'[c] = "dispatching" /\ request'[c] = r
    BY <2>1, <2>2 DEF Goto, Typed
  <2>4. CallerOK(c)'
    BY <2>3 DEF CallerOK, Announced
  <2>5. "dispatching" \in Phases /\ \A d \in Callers \ {c} : request'[d] = request[d]
    BY <2>1, <2>2 DEF Phases, Typed
  <2>6. (\A d \in Callers : CallerOK(d)') /\ phase' \in [Callers -> Phases]
    BY <1>2, <2>1, <2>4, <2>5, GoesOn
  <2>7. IntentBeforeEffect'
    BY <1>1, <1>2, EffectsStand
  <2> QED
    BY <1>1, <1>2, <2>1, <2>2, <2>6, <2>7 DEF IInv, Typed
<1> QED
  BY <1>3, <1>4

LEMMA BridgeExecuteStep ==
    ASSUME IInv, NEW c \in Callers, BridgeExecute(c)
    PROVE  IInv'
<1>0. PICK r : r = request[c]
  OBVIOUS
<1>1. phase[c] = "dispatching" /\ UNCHANGED <<log, invocations>>
  BY DEF BridgeExecute
<1>2. CASE Prepared(r)
  <2>1. Goto(c, "requesting") /\ UNCHANGED <<request, seen, observation>>
    BY <1>0, <1>2 DEF BridgeExecute
  <2>2. History' /\ RowsOK' /\ Grows /\ HeadSeq' = HeadSeq
    BY <1>1, LogStands
  <2>3. Typed /\ stream \in Seq(Events)
    BY DEF IInv, History
  <2>4. phase'[c] = "requesting" /\ request' = request
    BY <2>1, <2>3 DEF Goto, Typed
  <2>5. r \in Requests \cup BridgeRequests /\ r.expected_seq <= HeadSeq /\ Admissible(r.expected_seq)
    BY <1>0, <1>1, <1>2 DEF Prepared, IInv, CallerOK
  <2>6. Admissible(r.expected_seq)'
    <3>1. r.expected_seq \in 0..HeadSeq
      BY <2>5, ToolExecutionAssumption DEF HeadSeq
    <3> QED
      BY <2>2, <2>3, <2>5, <3>1, PastStands
  <2>7. CallerOK(c)'
    BY <1>0, <2>2, <2>4, <2>5, <2>6 DEF CallerOK, Announced
  <2>8. "requesting" \in Phases
    BY DEF Phases
  <2>9. (\A d \in Callers : CallerOK(d)') /\ phase' \in [Callers -> Phases]
    BY <2>1, <2>2, <2>4, <2>7, <2>8, GoesOn
  <2>10. IntentBeforeEffect'
    BY <1>1, <2>2, EffectsStand
  <2> QED
    BY <1>1, <2>1, <2>2, <2>3, <2>9, <2>10 DEF IInv, Typed
<1>3. CASE ~Prepared(r)
  BY <1>0, <1>1, <1>3, LeaveStep DEF BridgeExecute
<1> QED
  BY <1>2, <1>3

LEMMA OthersWriteStep ==
    ASSUME IInv, OthersWrite
    PROVE  IInv'
<1>1. PICK type \in {"other", "session_closed", "task_left"} :
          stream' = Append(stream, Event(type, NoExecution, "NONE"))
  BY DEF OthersWrite
<1> DEFINE e == Event(type, NoExecution, "NONE")
<1>2. EventFits(e)
  BY DEF EventFits, Event, Events, Details
<1> HIDE DEF e
<1>3. History' /\ Grows
  <2>1. stream' = Append(stream, e)
    BY <1>1 DEF e
  <2> QED
    BY <1>2, <2>1, HistoryGrows DEF IInv
<1>4. RowsOK' /\ UNCHANGED <<calls, invocations>>
  BY <1>3, RowsStand DEF OthersWrite, IInv, History
<1> QED
  BY <1>3, <1>4, OutsideStep

-----------------------------------------------------------------------------
(* The theorems.                                                           *)

LEMMA NextIInv == IInv /\ [Next]_vars => IInv'
<1> SUFFICES ASSUME IInv, [Next]_vars PROVE IInv'
  OBVIOUS
<1>1. CASE UNCHANGED vars
  <2>1. UNCHANGED log /\ UNCHANGED <<calls, invocations>>
    BY <1>1 DEF vars
  <2> QED
    BY <2>1, LogStands, OutsideStep
<1>2. ASSUME NEW c \in Callers, Step(c) PROVE IInv'
  <2>1. CASE SendRequest(c)
    BY <2>1, SendRequestStep
  <2>2. CASE Invoke(c)
    BY <2>2, InvokeStep
  <2>3. CASE AdapterRefused(c)
    BY <2>3, LeaveStep DEF AdapterRefused
  <2>4. CASE AssertHeadUnchanged(c)
    BY <2>4, AssertHeadUnchangedStep
  <2>5. CASE ReadHead(c)
    BY <2>5, ReadHeadStep
  <2>6. CASE RecordOutcome(c)
    BY <2>6, RecordOutcomeStep
  <2>7. CASE BridgeExecute(c)
    BY <2>7, BridgeExecuteStep
  <2>8. CASE Crash(c)
    BY <2>8, LeaveStep DEF Crash
  <2> QED
    BY <1>2, <2>1, <2>2, <2>3, <2>4, <2>5, <2>6, <2>7, <2>8 DEF Step
<1>3. ASSUME NEW c \in Callers, NEW r \in Requests, Prepare(c, r) PROVE IInv'
  BY <1>3, PrepareStep
<1>4. ASSUME NEW c \in Callers, NEW q \in Reconciles, NEW r \in BridgeRequests, BridgeTurn(c, q, r)
      PROVE  IInv'
  BY <1>4, BridgeTurnStep
<1>5. ASSUME NEW o \in Outcomes, SendOutcome(o) PROVE IInv'
  BY <1>5, SendOutcomeStep
<1>6. ASSUME NEW q \in Reconciles, Reconcile(q) PROVE IInv'
  BY <1>6, ReconcileStep
<1>7. ASSUME NEW v \in Evidence, RecordEvidence(v) PROVE IInv'
  BY <1>7, RecordEvidenceStep
<1>8. CASE OthersWrite
  BY <1>8, OthersWriteStep
<1> QED
  BY <1>1, <1>2, <1>3, <1>4, <1>5, <1>6, <1>7, <1>8 DEF Next

(* The inductive invariant: the history is sound, every stored answer is   *)
(* backed by it, and so is what each caller of execute() relies on.        *)
THEOREM Invariance == Spec => []IInv
<1>1. Init => IInv
  BY InitIInv
<1>2. IInv /\ [Next]_vars => IInv'
  BY NextIInv
<1> QED
  BY <1>1, <1>2, PTL DEF Spec

(* Whatever crashes and however often a request is sent again, directly or *)
(* through the bridge, an execution that was carried out has its intent on *)
(* record (ToolExecutionApplicationService.execute).                       *)
THEOREM EffectsAreAnnounced == Spec => []IntentBeforeEffect
<1>1. IInv => IntentBeforeEffect
  BY DEF IInv
<1> QED
  BY <1>1, Invariance, PTL

(* No execution ever has two intents or two facts, nor a fact without its  *)
(* intent before it, nor two intents one idempotency key (the handlers     *)
(* REQUEST and OUTCOME on the stored head).                                *)
THEOREM FactsAreUnique == Spec => []OneFactPerIntent
<1>1. IInv => OneFactPerIntent
  BY DEF IInv, History
<1> QED
  BY <1>1, Invariance, PTL

(* The preconditions execute() checks outside the transaction, on the      *)
(* state at the seq the request names, hold where the intent is recorded.  *)
THEOREM IntentsHold == Spec => []IntentsAreAdmissible
<1>1. IInv => IntentsAreAdmissible
  BY DEF IInv, History
<1> QED
  BY <1>1, Invariance, PTL

(* No reconciliation follows the fact that an execution was CONFIRMED.     *)
THEOREM ConfirmationIsFinal == Spec => []ConfirmedIsFinal
<1>1. IInv => ConfirmedIsFinal
  BY DEF IInv, History
<1> QED
  BY <1>1, Invariance, PTL

(* Evidence rests on an earlier fact of its own execution, and no          *)
(* evidence_id is attached twice.                                          *)
THEOREM EvidenceIsFounded == Spec => []EvidenceRestsOnFacts
<1>1. IInv => EvidenceRestsOnFacts
  BY DEF IInv, History
<1> QED
  BY <1>1, Invariance, PTL

(* RecordsGoWithTheFact: no order of late outcomes, reconciliations and    *)
(* evidence lets the service record what the fact of the execution denies. *)
THEOREM RecordsFit == Spec => []RecordsGoWithTheFact
<1>1. IInv => RecordsGoWithTheFact
  BY DEF IInv, History, RecordsGoWithTheFact
<1> QED
  BY <1>1, Invariance, PTL

(* The Mission's log, the callers and the world are typed.                 *)
THEOREM TypeCorrect == Spec => []TypeOK
<1>1. IInv => TypeOK
  <2> SUFFICES ASSUME IInv PROVE TypeOK
    OBVIOUS
  <2>1. \A i \in 1..HeadSeq : stream[i].execution \in Executions \cup {NoExecution}
    <3>1. stream \in Seq(Events) /\ HeadSeq = Len(stream)
      BY DEF IInv, History, HeadSeq
    <3>2. ASSUME NEW i \in 1..HeadSeq PROVE stream[i] \in Events
      BY <3>1
    <3> QED
      BY <3>2 DEF Events
  <2>2. \A c \in Callers : request[c] = NoRequest <=> phase[c] = "idle"
    BY ToolExecutionAssumption DEF IInv, CallerOK
  <2> QED
    BY <2>1, <2>2 DEF IInv, Typed, RowsOK, TypeOK, Phases, Announced
<1> QED
  BY <1>1, Invariance, PTL
=============================================================================
