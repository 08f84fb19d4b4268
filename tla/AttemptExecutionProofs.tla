------------------------ MODULE AttemptExecutionProofs ------------------------
(***************************************************************************)
(* AttemptExecution for any callers, Tasks, Attempts, Sessions, requests   *)
(* and providers, and any bounds.                                          *)
(*                                                                         *)
(* No step changes what is on the stream, so the state after its first n   *)
(* events never changes (StatePersists), and each property is a matter of  *)
(* the event that is appended.  What the handler asked of the head is what *)
(* the reducer asks of the state before the event.  A caller is believed   *)
(* nothing but this: a transport call it reports was made, and not before  *)
(* the cursor it names; with the head still at that cursor, it was made at *)
(* the head.                                                               *)
(***************************************************************************)
EXTENDS AttemptExecution, MissionLogProofs

-----------------------------------------------------------------------------
(* The invariant.                                                          *)

(* A bridge request is a record with all its fields.                       *)
IsCall(cmd) ==
    cmd = Request("CALL", cmd.id, cmd.session, None, cmd.from, cmd.cursor, cmd.provider, cmd.seq)

(* The transport was asked for cmd, with the head anywhere from lo to hi.  *)
AskedBetween(cmd, lo, hi) ==
    \E s \in sent : /\ s.request = cmd.id /\ s.attempt = cmd.from
                    /\ s.at \in Nat /\ lo <= s.at /\ s.at <= hi

(* What a caller relies on at its place.                                   *)
PlaceIsMeant(w) ==
    \/ w = Idle
    \/ /\ w.at = "submit" /\ w.cmd.kind \in {"START", "RESUME", "BIND"}
    \/ /\ IsCall(w.cmd) /\ w.cmd.seq \in Nat /\ w.cmd.seq <= HeadSeq
       /\ \/ w = [at |-> "call", cmd |-> w.cmd]
          \/ /\ w = [at |-> "check", cmd |-> w.cmd]
             /\ AskedBetween(w.cmd, w.cmd.seq, HeadSeq)
          \/ /\ w = [at |-> "record", cmd |-> w.cmd]
             /\ AskedBetween(w.cmd, w.cmd.seq, w.cmd.seq)

CallersAreMeant ==
    /\ DOMAIN call = Callers /\ call = [c \in Callers |-> call[c]]
    /\ \A c \in Callers : PlaceIsMeant(call[c])

(* An accepted bridge request is on the stream.                            *)
OnRecord(cmd) == \E i \in 1..HeadSeq : stream[i] = Observation(cmd)
AnswersAreOnRecord ==
    \A row \in rows :
        row.answer.ok /\ row.fingerprint.intent.kind = "CALL"
            => OnRecord(row.fingerprint.intent)

IInv ==
    /\ IsStream(stream)
    /\ CallersAreMeant /\ AnswersAreOnRecord
    /\ AttemptsReplay /\ ContextsStillHold
    /\ ObservationsAreCurrent /\ AnswersAreOfTheAsker

-----------------------------------------------------------------------------
(* The state after the first n events.                                     *)

(* The largest of some positions in a stream is one of them.               *)
LEMMA MaxIsThere ==
    ASSUME NEW n \in Nat, NEW S, S \subseteq 1..n, S # {}
    PROVE  Max(S) \in S
<1> DEFINE T == {n - x : x \in S}
<1>1. T \subseteq Nat /\ T # {}
  <2>1. \A x \in S : x \in 1..n /\ n - x \in Nat
    OBVIOUS
  <2> QED
    BY <2>1
<1>2. PICK m \in T : \A k \in T : ~(k < m)
  <2> HIDE DEF T
  <2> QED
    BY <1>1, NatLeast
<1>3. PICK x \in S : m = n - x
  OBVIOUS
<1>4. \A y \in S : x >= y
  <2> SUFFICES ASSUME NEW y \in S PROVE x >= y
    OBVIOUS
  <2>1. n - y \in T /\ ~(n - y < m)
    BY <1>2
  <2> QED
    BY <1>3, <2>1
<1> QED
  BY <1>3, <1>4 DEF Max

(* The Attempt an id names is one of those, and of the chain of its Task.  *)
LEMMA AttemptsAreThere ==
    ASSUME NEW n \in Nat, NEW id, AttemptIs(id, n) # {}
    PROVE  LET task == TheAttempt(id, n).task
           IN  /\ (CHOOSE i \in AttemptIs(id, n) : TRUE) \in 1..n
               /\ Max(AttemptsForTask(task, n)) \in 1..n
<1> DEFINE k == CHOOSE i \in AttemptIs(id, n) : TRUE
           task == TheAttempt(id, n).task
<1>1. k \in AttemptIs(id, n)
  OBVIOUS
<1>2. k \in FactsAt(n, {"started", "resumed"}) /\ stream[k].task = task
  BY <1>1 DEF AttemptIs, TheAttempt
<1>3. k \in AttemptsForTask(task, n) /\ AttemptsForTask(task, n) \subseteq 1..n
  BY <1>2 DEF AttemptsForTask, FactsAt
<1>4. Max(AttemptsForTask(task, n)) \in AttemptsForTask(task, n)
  <2> HIDE DEF task, k
  <2> QED
    BY <1>3, MaxIsThere
<1>5. k \in 1..n
  BY <1>2 DEF FactsAt
<1> QED
  BY <1>3, <1>4, <1>5

(* Nothing that happens changes the state after the first n events.        *)
LEMMA FactsPersist ==
    ASSUME NEW n \in Nat, SamePast(n)
    PROVE  /\ \A types : FactsAt(n, types)' = FactsAt(n, types)
           /\ \A what : Gone(what, n)' = Gone(what, n)
           /\ \A id : AttemptIs(id, n)' = AttemptIs(id, n)
           /\ \A task : AttemptsForTask(task, n)' = AttemptsForTask(task, n)
           /\ \A id : BindingOf(id, n)' = BindingOf(id, n)
           /\ \A id : ByRequest(id, n)' = ByRequest(id, n)
           /\ \A id : ByProvider(id, n)' = ByProvider(id, n)
<1>1. \A i \in 1..n : stream'[i] = stream[i]
  BY DEF SamePast
<1>2. \A types : FactsAt(n, types)' = FactsAt(n, types)
  BY <1>1 DEF FactsAt
<1>3. \A types : FactsAt(n, types) \subseteq 1..n
  BY DEF FactsAt
<1>4. \A what : Gone(what, n)' = Gone(what, n)
  BY <1>1, <1>2, <1>3 DEF Gone
<1>5. \A id : AttemptIs(id, n)' = AttemptIs(id, n)
  BY <1>1, <1>2, <1>3 DEF AttemptIs
<1>6. \A task : AttemptsForTask(task, n)' = AttemptsForTask(task, n)
  BY <1>1, <1>2, <1>3 DEF AttemptsForTask
<1>7. \A id : BindingOf(id, n)' = BindingOf(id, n)
  BY <1>1, <1>2, <1>3 DEF BindingOf
<1>8. \A id : ByRequest(id, n)' = ByRequest(id, n)
  BY <1>1, <1>2, <1>3 DEF ByRequest
<1>9. \A id : ByProvider(id, n)' = ByProvider(id, n)
  BY <1>1, <1>2, <1>3 DEF ByProvider
<1> QED
  BY <1>2, <1>4, <1>5, <1>6, <1>7, <1>8, <1>9

(* Nor is another Attempt named, or another the latest.                    *)
LEMMA StatePersists ==
    ASSUME NEW n \in Nat, SamePast(n)
    PROVE  /\ \A id : AttemptIs(id, n) # {} => TheAttempt(id, n)' = TheAttempt(id, n)
           /\ \A id : IsLatest(id, n)' = IsLatest(id, n)
<1>1. \A id : AttemptIs(id, n)' = AttemptIs(id, n)
  BY FactsPersist
<1>2. \A task : AttemptsForTask(task, n)' = AttemptsForTask(task, n)
  BY FactsPersist
<1>3. ASSUME NEW id, AttemptIs(id, n) # {}
      PROVE  TheAttempt(id, n)' = TheAttempt(id, n)
  <2>1. PICK mine : mine = AttemptIs(id, n)
    OBVIOUS
  <2>2. (CHOOSE i \in mine : TRUE) \in 1..n
    BY <1>3, <2>1, AttemptsAreThere
  <2>3. TheAttempt(id, n) = stream[CHOOSE i \in mine : TRUE]
    BY <2>1 DEF TheAttempt
  <2>4. TheAttempt(id, n)' = stream'[CHOOSE i \in mine : TRUE]
    <3>1. AttemptIs(id, n)' = mine
      BY <1>1, <2>1
    <3> QED
      BY <3>1 DEF TheAttempt
  <2> QED
    BY <2>2, <2>3, <2>4 DEF SamePast
<1>4. ASSUME NEW id PROVE IsLatest(id, n)' = IsLatest(id, n)
  <2>1. CASE AttemptIs(id, n) = {}
    BY <1>1, <2>1 DEF IsLatest
  <2>2. CASE AttemptIs(id, n) # {}
    <3>0. PICK task : task = TheAttempt(id, n).task
      OBVIOUS
    <3>1. TheAttempt(id, n)'.task = task
      BY <1>3, <2>2, <3>0
    <3>2. PICK last : last = Max(AttemptsForTask(task, n))
      OBVIOUS
    <3>3. last \in 1..n
      BY <2>2, <3>0, <3>2, AttemptsAreThere
    <3>4. Max(AttemptsForTask(task, n)') = last
      BY <1>2, <3>2
    <3>5. IsLatest(id, n) <=> stream[last].id = id
      BY <2>2, <3>0, <3>2 DEF IsLatest
    <3>6. IsLatest(id, n)' <=> stream'[last].id = id
      <4>1. AttemptIs(id, n)' # {}
        BY <1>1, <2>2
      <4>2. Max(AttemptsForTask(TheAttempt(id, n).task, n)') = last
        BY <3>0, <3>1, <3>4
      <4> QED
        BY <4>1, <4>2, <3>1, <3>4 DEF IsLatest
    <3> QED
      BY <3>3, <3>5, <3>6 DEF SamePast, IsLatest
  <2> QED
    BY <2>1, <2>2
<1> QED
  BY <1>3, <1>4

(* An event is added to the facts of its own type and to no other.         *)
LEMMA NewFact ==
    ASSUME IsStream(stream), NEW e, Grows(e), NEW n, n = HeadSeq
    PROVE  /\ n \in Nat
           /\ \A types : e.type \in types =>
                  FactsAt(n + 1, types)' = FactsAt(n, types) \cup {n + 1}
           /\ \A types : e.type \notin types =>
                  FactsAt(n + 1, types)' = FactsAt(n, types)
<1>1. n \in Nat /\ stream'[n + 1] = e /\ SamePast(n)
  BY OneMore
<1>2. \A i \in 1..n : stream'[i] = stream[i]
  BY <1>1 DEF SamePast
<1> QED
  BY <1>1, <1>2 DEF FactsAt

(* An event of other types leaves the facts as they were.                  *)
LEMMA NoNewFact ==
    ASSUME IsStream(stream), NEW e, Grows(e), NEW n, n = HeadSeq
    PROVE  /\ e.type # "changed" => \A what : Gone(what, n + 1)' = Gone(what, n)
           /\ e.type \notin {"started", "resumed"} =>
                  /\ \A id : AttemptIs(id, n) # {} => TheAttempt(id, n + 1)' = TheAttempt(id, n)
                  /\ \A id : IsLatest(id, n + 1)' = IsLatest(id, n)
           /\ e.type # "bound" => \A id : BindingOf(id, n + 1)' = BindingOf(id, n)
<1>1. n \in Nat /\ SamePast(n)
  BY OneMore
<1>2. ASSUME NEW types, e.type \notin types
      PROVE  FactsAt(n + 1, types)' = FactsAt(n, types) /\ FactsAt(n, types)' = FactsAt(n, types)
  <2>1. FactsAt(n + 1, types)' = FactsAt(n, types)
    BY <1>2, NewFact
  <2>2. FactsAt(n, types)' = FactsAt(n, types)
    BY <1>1, FactsPersist
  <2> QED
    BY <2>1, <2>2
<1>3. ASSUME e.type # "changed"
      PROVE  \A what : Gone(what, n + 1)' = Gone(what, n)
  <2>1. FactsAt(n + 1, {"changed"})' = FactsAt(n, {"changed"})'
    BY <1>2, <1>3
  <2>2. \A what : Gone(what, n + 1)' = Gone(what, n)'
    BY <2>1 DEF Gone
  <2> QED
    BY <1>1, <2>2, FactsPersist
<1>4. ASSUME e.type \notin {"started", "resumed"}
      PROVE  /\ \A id : AttemptIs(id, n) # {} => TheAttempt(id, n + 1)' = TheAttempt(id, n)
             /\ \A id : IsLatest(id, n + 1)' = IsLatest(id, n)
  <2>1. FactsAt(n + 1, {"started", "resumed"})' = FactsAt(n, {"started", "resumed"})'
    BY <1>2, <1>4
  <2>2. \A id : AttemptIs(id, n + 1)' = AttemptIs(id, n)'
    BY <2>1 DEF AttemptIs
  <2>3. \A task : AttemptsForTask(task, n + 1)' = AttemptsForTask(task, n)'
    BY <2>1 DEF AttemptsForTask
  <2>4. \A id : TheAttempt(id, n + 1)' = TheAttempt(id, n)'
    BY <2>2 DEF TheAttempt
  <2>5. \A id : IsLatest(id, n + 1)' = IsLatest(id, n)'
    BY <2>2, <2>3, <2>4 DEF IsLatest
  <2> QED
    BY <1>1, <2>4, <2>5, StatePersists
<1>5. ASSUME e.type # "bound"
      PROVE  \A id : BindingOf(id, n + 1)' = BindingOf(id, n)
  <2>1. FactsAt(n + 1, {"bound"})' = FactsAt(n, {"bound"})'
    BY <1>2, <1>5
  <2>2. \A id : BindingOf(id, n + 1)' = BindingOf(id, n)'
    BY <2>1 DEF BindingOf
  <2> QED
    BY <1>1, <2>2, FactsPersist
<1> QED
  BY <1>3, <1>4, <1>5

(* What each rule asks of the first n events is settled by them.           *)
LEMMA RulesPersist ==
    ASSUME NEW n \in Nat, SamePast(n)
    PROVE  \A f : ReducerTakes(f, n)' = ReducerTakes(f, n)
<1> SUFFICES ASSUME NEW f PROVE ReducerTakes(f, n)' = ReducerTakes(f, n)
  OBVIOUS
<1>1. ReduceAttempt(f, n)' = ReduceAttempt(f, n)
  <2>1. IsLatest(f.from, n)' = IsLatest(f.from, n)
    BY StatePersists
  <2>2. IsLatest(f.from, n) => TheAttempt(f.from, n)' = TheAttempt(f.from, n)
    BY StatePersists DEF IsLatest
  <2>3. /\ AttemptIs(f.id, n)' = AttemptIs(f.id, n)
        /\ AttemptsForTask(f.task, n)' = AttemptsForTask(f.task, n)
    BY FactsPersist
  <2> QED
    BY <2>1, <2>2, <2>3 DEF ReduceAttempt
<1>2. ReduceBinding(f, n)' = ReduceBinding(f, n)
  BY FactsPersist DEF ReduceBinding
<1>3. ReduceObservation(f, n)' = ReduceObservation(f, n)
  BY FactsPersist DEF ReduceObservation
<1> QED
  BY <1>1, <1>2, <1>3 DEF ReducerTakes

-----------------------------------------------------------------------------
(* What becomes of the properties.                                         *)

(* What the place of an event on the stream asks of it, n events before it. *)
AttemptFits(e, n) ==
    e.type \in {"started", "resumed"} =>
        SessionOpen(e.session, n) /\ TaskIsWorkedOn(e.task, n) /\ ~Gone("MISSION", n)
ObservationFits(e, n) ==
    e.type = "observed" =>
        /\ \E s \in sent : s.request = e.id /\ s.attempt = e.from /\ s.at = n
        /\ SessionOpen(e.session, n) /\ IsLatest(e.from, n) /\ BindingOf(e.from, n) # {}

(* A step that leaves the stream alone, and forgets no call, keeps them.   *)
LEMMA StreamStays ==
    ASSUME IInv, stream' = stream, sent \subseteq sent'
    PROVE  AttemptsReplay' /\ ContextsStillHold' /\ ObservationsAreCurrent'
<1>1. PICK h : h = HeadSeq
  OBVIOUS
<1>2. h \in Nat /\ HeadSeq' = h
  BY <1>1, StreamShape DEF IInv, HeadSeq
<1>3. \A n \in Nat : SamePast(n)
  BY DEF SamePast
<1>4. AttemptsReplay'
  <2> SUFFICES ASSUME NEW i \in 1..h PROVE ReducerTakes(stream[i], i - 1)'
    BY <1>2 DEF AttemptsReplay
  <2>1. PICK e : e = stream[i]
    OBVIOUS
  <2>2. i - 1 \in Nat /\ ReducerTakes(e, i - 1)
    BY <1>1, <1>2, <2>1 DEF IInv, AttemptsReplay
  <2>3. ReducerTakes(e, i - 1)'
    BY <1>3, <2>2, RulesPersist
  <2> QED
    BY <2>1, <2>3
<1>5. \A types : FactsAt(h, types)' = FactsAt(h, types)
  BY <1>2, <1>3, FactsPersist
<1>6. \A i \in 1..h : \A what : Gone(what, i)' = Gone(what, i)
  BY <1>2, <1>3, FactsPersist
<1>7. ContextsStillHold'
  <2> SUFFICES ASSUME NEW i \in FactsAt(h, {"started", "resumed"})
               PROVE  /\ SessionOpen(stream[i].session, i)' /\ TaskIsWorkedOn(stream[i].task, i)'
                      /\ ~Gone("MISSION", i)'
    BY <1>2, <1>5 DEF ContextsStillHold
  <2>1. i \in 1..h
    BY DEF FactsAt
  <2>2. PICK e : e = stream[i]
    OBVIOUS
  <2>3. SessionOpen(e.session, i) /\ TaskIsWorkedOn(e.task, i) /\ ~Gone("MISSION", i)
    BY <1>1, <2>2 DEF IInv, ContextsStillHold
  <2>4. SessionOpen(e.session, i)' /\ TaskIsWorkedOn(e.task, i)' /\ ~Gone("MISSION", i)'
    BY <1>6, <2>1, <2>3 DEF SessionOpen, TaskIsWorkedOn
  <2> QED
    BY <2>2, <2>4
<1>8. ObservationsAreCurrent'
  <2> SUFFICES ASSUME NEW i \in FactsAt(h, {"observed"})
               PROVE  /\ \E s \in sent' : s.request = stream'[i].id /\ s.attempt = stream'[i].from /\ s.at = i - 1
                      /\ SessionOpen(stream[i].session, i)' /\ IsLatest(stream[i].from, i)'
                      /\ (BindingOf(stream[i].from, i) # {})'
    BY <1>2, <1>5 DEF ObservationsAreCurrent
  <2>1. i \in 1..h
    BY DEF FactsAt
  <2>2. PICK e : e = stream[i]
    OBVIOUS
  <2>3. /\ \E s \in sent : s.request = e.id /\ s.attempt = e.from /\ s.at = i - 1
        /\ SessionOpen(e.session, i) /\ IsLatest(e.from, i) /\ BindingOf(e.from, i) # {}
    BY <1>1, <2>2 DEF IInv, ObservationsAreCurrent
  <2>4. SessionOpen(e.session, i)'
    BY <1>6, <2>1, <2>3 DEF SessionOpen
  <2>5. i \in Nat
    BY <1>2, <2>1
  <2>6. IsLatest(e.from, i)'
    BY <1>3, <2>3, <2>5, StatePersists
  <2>7. (BindingOf(e.from, i) # {})'
    BY <1>3, <2>3, <2>5, FactsPersist
  <2> QED
    BY <2>2, <2>3, <2>4, <2>6, <2>7
<1> QED
  BY <1>4, <1>7, <1>8

(* So does a step that appends an event that fits.                         *)
LEMMA StreamGrows ==
    ASSUME IInv, NEW e, Grows(e), sent' = sent, NEW h, h = HeadSeq,
           ReducerTakes(e, h), AttemptFits(e, h), ObservationFits(e, h)
    PROVE  AttemptsReplay' /\ ContextsStillHold' /\ ObservationsAreCurrent'
<1>1. IsStream(stream)
  BY DEF IInv
<1>2. /\ h \in Nat /\ HeadSeq' = h + 1 /\ stream'[h + 1] = e
      /\ \A n \in 0..h : SamePast(n)
  BY <1>1, OneMore
<1>3. \A i \in 1..h : stream'[i] = stream[i]
  BY <1>2 DEF SamePast
<1>4. AttemptsReplay'
  <2> SUFFICES ASSUME NEW i \in 1..(h + 1) PROVE ReducerTakes(stream[i], i - 1)'
    BY <1>2 DEF AttemptsReplay
  <2>1. PICK f : f = stream'[i]
    OBVIOUS
  <2>2. ReducerTakes(f, i - 1)
    <3>1. CASE i = h + 1
      BY <1>2, <2>1, <3>1
    <3>2. CASE i \in 1..h
      BY <1>3, <2>1, <3>2 DEF IInv, AttemptsReplay
    <3> QED
      BY <1>2, <3>1, <3>2
  <2>3. i - 1 \in Nat /\ SamePast(i - 1)
    BY <1>2
  <2>4. ReducerTakes(f, i - 1)'
    BY <2>2, <2>3, RulesPersist
  <2> QED
    BY <2>1, <2>4
<1>5. \A i \in 1..h : \A what : Gone(what, i)' = Gone(what, i)
  BY <1>2, FactsPersist
<1>6. /\ \A types : e.type \in types => FactsAt(h + 1, types)' = FactsAt(h, types) \cup {h + 1}
      /\ \A types : e.type \notin types => FactsAt(h + 1, types)' = FactsAt(h, types)
  BY <1>1, NewFact
<1>7. ContextsStillHold'
  <2> SUFFICES ASSUME NEW i \in FactsAt(h + 1, {"started", "resumed"})'
               PROVE  /\ SessionOpen(stream[i].session, i)' /\ TaskIsWorkedOn(stream[i].task, i)'
                      /\ ~Gone("MISSION", i)'
    BY <1>2 DEF ContextsStillHold
  <2>1. PICK f : f = stream'[i]
    OBVIOUS
  <2>2. CASE i \in FactsAt(h, {"started", "resumed"})
    <3>1. i \in 1..h
      BY <2>2 DEF FactsAt
    <3>2. f = stream[i]
      BY <1>3, <2>1, <3>1
    <3>3. SessionOpen(f.session, i) /\ TaskIsWorkedOn(f.task, i) /\ ~Gone("MISSION", i)
      BY <2>2, <3>2 DEF IInv, ContextsStillHold
    <3>4. SessionOpen(f.session, i)' /\ TaskIsWorkedOn(f.task, i)' /\ ~Gone("MISSION", i)'
      BY <1>5, <3>1, <3>3 DEF SessionOpen, TaskIsWorkedOn
    <3> QED
      BY <2>1, <3>4
  <2>3. CASE i = h + 1 /\ e.type \in {"started", "resumed"}
    <3>1. SessionOpen(e.session, h) /\ TaskIsWorkedOn(e.task, h) /\ ~Gone("MISSION", h)
      BY <2>3 DEF AttemptFits
    <3>2. \A what : Gone(what, h + 1)' = Gone(what, h)
      BY <1>1, <2>3, NoNewFact
    <3>3. SessionOpen(e.session, h + 1)' /\ TaskIsWorkedOn(e.task, h + 1)' /\ ~Gone("MISSION", h + 1)'
      BY <3>1, <3>2 DEF SessionOpen, TaskIsWorkedOn
    <3> QED
      BY <1>2, <2>3, <3>3
  <2> QED
    BY <1>6, <2>2, <2>3
<1>8. ObservationsAreCurrent'
  <2> SUFFICES ASSUME NEW i \in FactsAt(h + 1, {"observed"})'
               PROVE  /\ \E s \in sent : s.request = stream'[i].id /\ s.attempt = stream'[i].from /\ s.at = i - 1
                      /\ SessionOpen(stream[i].session, i)' /\ IsLatest(stream[i].from, i)'
                      /\ (BindingOf(stream[i].from, i) # {})'
    BY <1>2 DEF ObservationsAreCurrent
  <2>1. PICK f : f = stream'[i]
    OBVIOUS
  <2>2. CASE i \in FactsAt(h, {"observed"})
    <3>1. i \in 1..h /\ i \in Nat /\ SamePast(i)
      BY <1>2, <2>2 DEF FactsAt
    <3>2. f = stream[i]
      BY <1>3, <2>1, <3>1
    <3>3. /\ \E s \in sent : s.request = f.id /\ s.attempt = f.from /\ s.at = i - 1
          /\ SessionOpen(f.session, i) /\ IsLatest(f.from, i) /\ BindingOf(f.from, i) # {}
      BY <2>2, <3>2 DEF IInv, ObservationsAreCurrent
    <3>4. SessionOpen(f.session, i)'
      BY <1>5, <3>1, <3>3 DEF SessionOpen
    <3>5. IsLatest(f.from, i)'
      BY <3>1, <3>3, StatePersists
    <3>6. (BindingOf(f.from, i) # {})'
      BY <3>1, <3>3, FactsPersist
    <3> QED
      BY <2>1, <3>3, <3>4, <3>5, <3>6
  <2>3. CASE i = h + 1 /\ e.type = "observed"
    <3>1. /\ \E s \in sent : s.request = e.id /\ s.attempt = e.from /\ s.at = h
          /\ SessionOpen(e.session, h) /\ IsLatest(e.from, h) /\ BindingOf(e.from, h) # {}
      BY <2>3 DEF ObservationFits
    <3>2. (h + 1) - 1 = h
      BY <1>2
    <3>3. SessionOpen(e.session, h + 1)'
      BY <1>1, <2>3, <3>1, NoNewFact DEF SessionOpen
    <3>4. IsLatest(e.from, h + 1)'
      BY <1>1, <2>3, <3>1, NoNewFact
    <3>5. (BindingOf(e.from, h + 1) # {})'
      BY <1>1, <2>3, <3>1, NoNewFact
    <3> QED
      BY <1>2, <2>3, <3>1, <3>2, <3>3, <3>4, <3>5
  <2> QED
    BY <1>6, <2>2, <2>3
<1> QED
  BY <1>4, <1>7, <1>8

-----------------------------------------------------------------------------
(* Commands.                                                               *)

(* What a handler proposes at the head is one event that fits there.       *)
LEMMA HandledFits ==
    ASSUME NEW cmd, cmd.kind \in {"START", "RESUME", "BIND", "CALL"}, Handle(cmd) # << >>,
           NEW h \in Nat, h = HeadSeq, cmd.seq = h,
           cmd.kind = "CALL" => AskedBetween(cmd, h, h)
    PROVE  \E e : /\ Handle(cmd) = << e >>
                  /\ ReducerTakes(e, h) /\ AttemptFits(e, h) /\ ObservationFits(e, h)
                  /\ cmd.kind = "CALL" => e = Observation(cmd)
<1>1. CASE cmd.kind \in {"START", "RESUME"}
  <2>1. Handle(cmd) = HandleAttempt(cmd, h)
    BY <1>1 DEF Handle
  <2>2. cmd.cursor = h /\ MayAttempt(cmd, h)
    BY <2>1 DEF HandleAttempt
  <2>3. CASE cmd.kind = "START"
    <3> DEFINE e == StartedAttempt(cmd)
    <3>1. Handle(cmd) = << e >>
      BY <2>1, <2>2, <2>3 DEF HandleAttempt
    <3>2. /\ e.type = "started" /\ e.id = cmd.id /\ e.session = cmd.session /\ e.task = cmd.task
          /\ e.from = None /\ e.root = cmd.id /\ e.ordinal = 1 /\ e.cursor = cmd.cursor
      BY DEF StartedAttempt, Fact
    <3> HIDE DEF e
    <3>3. ReduceAttempt(e, h)
      BY <2>2, <2>3, <3>2 DEF MayAttempt, ReduceAttempt
    <3>4. ReducerTakes(e, h) /\ ObservationFits(e, h)
      BY <3>2, <3>3 DEF ReducerTakes, ObservationFits
    <3>5. AttemptFits(e, h)
      BY <2>2, <3>2 DEF AttemptFits, MayAttempt
    <3> QED
      BY <2>3, <3>1, <3>4, <3>5
  <2>4. CASE cmd.kind = "RESUME"
    <3>0. PICK p : p = TheAttempt(cmd.from, h)
      OBVIOUS
    <3> DEFINE e == ResumedAttempt(cmd, p)
    <3>1. Handle(cmd) = << e >>
      BY <2>1, <2>2, <2>4, <3>0 DEF HandleAttempt
    <3>2. /\ e.type = "resumed" /\ e.id = cmd.id /\ e.session = cmd.session /\ e.task = cmd.task
          /\ e.from = cmd.from /\ e.root = p.root /\ e.ordinal = p.ordinal + 1
          /\ e.cursor = cmd.cursor
      BY DEF ResumedAttempt, Fact
    <3> HIDE DEF e
    <3>3. ReduceAttempt(e, h)
      BY <2>2, <2>4, <3>0, <3>2 DEF MayAttempt, ReduceAttempt
    <3>4. ReducerTakes(e, h) /\ ObservationFits(e, h)
      BY <3>2, <3>3 DEF ReducerTakes, ObservationFits
    <3>5. AttemptFits(e, h)
      BY <2>2, <3>2 DEF AttemptFits, MayAttempt
    <3> QED
      BY <2>4, <3>1, <3>4, <3>5
  <2> QED
    BY <1>1, <2>3, <2>4
<1>2. CASE cmd.kind = "BIND"
  <2> DEFINE e == Binding(cmd)
  <2>1. Handle(cmd) = << e >> /\ MayBind(cmd, h)
    BY <1>2 DEF Handle, HandleBinding
  <2>2. e.type = "bound" /\ e.id = cmd.id
    BY DEF Binding, Fact
  <2> HIDE DEF e
  <2>3. ReducerTakes(e, h)
    BY <2>1, <2>2 DEF ReducerTakes, ReduceBinding, MayBind
  <2> QED
    BY <1>2, <2>1, <2>2, <2>3 DEF AttemptFits, ObservationFits
<1>3. CASE cmd.kind = "CALL"
  <2>0. PICK e : e = Observation(cmd)
    OBVIOUS
  <2>1. /\ Handle(cmd) = << e >> /\ MayCall(cmd, h) /\ cmd.cursor <= h
        /\ ByRequest(cmd.id, h) = {} /\ ByProvider(cmd.provider, h) = {}
    BY <1>3, <2>0 DEF Handle, HandleCall
  <2>2. /\ e.type = "observed" /\ e.id = cmd.id /\ e.session = cmd.session
        /\ e.from = cmd.from /\ e.cursor = cmd.cursor /\ e.provider = cmd.provider
    BY <2>0 DEF Observation, Fact
  <2>3. ReducerTakes(e, h)
    BY <2>1, <2>2 DEF ReducerTakes, ReduceObservation
  <2>4. ObservationFits(e, h)
    <3>1. \E s \in sent : s.request = cmd.id /\ s.attempt = cmd.from /\ s.at = h
      BY <1>3 DEF AskedBetween
    <3> QED
      BY <2>1, <2>2, <3>1 DEF ObservationFits, MayCall
  <2> QED
    BY <2>0, <2>1, <2>2, <2>3, <2>4 DEF AttemptFits
<1> QED
  BY <1>1, <1>2, <1>3

(* What is on record stays on record.                                      *)
LEMMA RecordsStay ==
    ASSUME HeadSeq \in Nat, HeadSeq' \in Nat, HeadSeq <= HeadSeq', SamePast(HeadSeq)
    PROVE  \A e : (\E i \in 1..HeadSeq : stream[i] = e) => \E i \in 1..HeadSeq' : stream'[i] = e
BY DEF SamePast

(* A command of one of the services, and the answer to it.                 *)
LEMMA SubmitKeeps ==
    ASSUME IInv, NEW cmd, cmd.kind \in {"START", "RESUME", "BIND", "CALL"},
           cmd.kind = "CALL" => AskedBetween(cmd, cmd.seq, cmd.seq),
           Submit(cmd), sent' = sent
    PROVE  /\ IsStream(stream)' /\ AnswersAreOnRecord'
           /\ AttemptsReplay' /\ ContextsStillHold' /\ ObservationsAreCurrent'
           /\ HeadSeq \in Nat /\ HeadSeq' \in Nat /\ HeadSeq <= HeadSeq' /\ SamePast(HeadSeq)
           /\ cmd.kind = "CALL" /\ Answer(Envelope(cmd), Handle(cmd), "REFUSED").ok
                  => OnRecord(cmd)'
<1>0. PICK env : env = Envelope(cmd)
  OBVIOUS
<1>1. env.expected_seq = cmd.seq /\ env.idempotency_key = NoKey /\ Fingerprint(env).intent = cmd
  BY <1>0 DEF Envelope, Command, Fingerprint
<1>2. PICK facts : facts = Handle(cmd)
  OBVIOUS
<1>3. Execute(env, facts, "REFUSED")
  BY <1>0, <1>2 DEF Submit
<1>4. IsStream(stream) /\ HeadSeq \in Nat
  BY StreamShape DEF IInv, HeadSeq
<1>5. ASSUME stream' = stream
      PROVE  /\ IsStream(stream)' /\ HeadSeq' = HeadSeq /\ SamePast(HeadSeq)
             /\ AttemptsReplay' /\ ContextsStillHold' /\ ObservationsAreCurrent'
  <2>1. IsStream(stream)' /\ HeadSeq' = HeadSeq /\ SamePast(HeadSeq)
    BY <1>4, <1>5 DEF HeadSeq, SamePast
  <2> QED
    BY <1>5, <2>1, StreamStays
<1>6. \A x : OnRecord(x) /\ stream' = stream => OnRecord(x)'
  BY DEF OnRecord, HeadSeq
<1>7. KeyOwners(env) = {}
  BY <1>1 DEF KeyOwners
<1>8. CASE Known(env) \cup KeyOwners(env) # {} /\ UNCHANGED log
  <2>1. rows' = rows /\ stream' = stream
    BY <1>8 DEF log
  <2>2. AnswersAreOnRecord'
    <3>1. AnswersAreOnRecord
      BY DEF IInv
    <3> QED
      BY <1>6, <2>1, <3>1 DEF AnswersAreOnRecord
  <2>3. ASSUME cmd.kind = "CALL", Answer(env, facts, "REFUSED").ok
        PROVE  OnRecord(cmd)
    <3>1. PICK row \in Known(env) : row = CHOOSE r \in Known(env) : TRUE
      BY <1>7, <1>8
    <3>2. Answer(env, facts, "REFUSED") =
              IF row.fingerprint = Fingerprint(env) THEN row.answer
              ELSE Rejected("COMMAND_ID_CONFLICT")
      BY <3>1 DEF Answer, StoredAnswer
    <3>3. row.fingerprint = Fingerprint(env) /\ row.answer.ok
      BY <2>3, <3>2 DEF Rejected
    <3>4. row \in rows
      BY <3>1 DEF Known
    <3>5. row.fingerprint.intent = cmd
      BY <1>1, <3>3
    <3> QED
      BY <2>3, <3>3, <3>4, <3>5 DEF IInv, AnswersAreOnRecord
  <2> QED
    BY <1>0, <1>2, <1>4, <1>5, <1>6, <2>1, <2>2, <2>3
<1>9. CASE \E code : /\ Answer(env, facts, "REFUSED") = Rejected(code)
                     /\ rows' = rows \cup {Row(env, Rejected(code))} /\ stream' = stream
  <2>1. PICK code : /\ Answer(env, facts, "REFUSED") = Rejected(code)
                    /\ rows' = rows \cup {Row(env, Rejected(code))} /\ stream' = stream
    BY <1>9
  <2>2. PICK new : new = Row(env, Rejected(code))
    OBVIOUS
  <2>3. ~new.answer.ok /\ rows' = rows \cup {new}
    BY <2>1, <2>2 DEF Row, Rejected
  <2>4. ~Answer(env, facts, "REFUSED").ok
    BY <2>1 DEF Rejected
  <2>5. AnswersAreOnRecord'
    <3>1. AnswersAreOnRecord
      BY DEF IInv
    <3> QED
      BY <1>6, <2>1, <2>3, <3>1 DEF AnswersAreOnRecord
  <2> QED
    BY <1>0, <1>2, <1>4, <1>5, <2>1, <2>4, <2>5
<1>10. CASE /\ env.expected_seq = HeadSeq /\ facts # << >>
            /\ rows' = rows \cup {Row(env, Accepted(HeadSeq + Len(facts)))}
            /\ stream' = stream \o facts
  <2>0. PICK h \in Nat : h = HeadSeq
    BY <1>4
  <2>1. PICK e : /\ facts = << e >>
                 /\ ReducerTakes(e, h) /\ AttemptFits(e, h) /\ ObservationFits(e, h)
                 /\ cmd.kind = "CALL" => e = Observation(cmd)
    <3>1. cmd.seq = h
      BY <1>1, <1>10, <2>0
    <3>2. cmd.kind = "CALL" => AskedBetween(cmd, h, h)
      BY <3>1
    <3>3. Handle(cmd) # << >>
      BY <1>2, <1>10
    <3>4. \E e : /\ Handle(cmd) = << e >>
                 /\ ReducerTakes(e, h) /\ AttemptFits(e, h) /\ ObservationFits(e, h)
                 /\ cmd.kind = "CALL" => e = Observation(cmd)
      BY <2>0, <3>1, <3>2, <3>3, HandledFits
    <3> QED
      BY <1>2, <3>4
  <2>2. Grows(e)
    BY <1>4, <1>10, <2>1, AppendedStream DEF Grows
  <2>3. AttemptsReplay' /\ ContextsStillHold' /\ ObservationsAreCurrent'
    BY <2>0, <2>1, <2>2, StreamGrows
  <2>4. /\ IsStream(stream)' /\ HeadSeq' = h + 1 /\ stream'[h + 1] = e /\ SamePast(h)
    BY <1>4, <2>0, <2>2, OneMore
  <2>5. \A x : OnRecord(x) => OnRecord(x)'
    BY <2>0, <2>4 DEF OnRecord, SamePast
  <2>6. cmd.kind = "CALL" => OnRecord(cmd)'
    BY <2>0, <2>1, <2>4 DEF OnRecord
  <2>7. PICK new : new = Row(env, Accepted(HeadSeq + Len(facts)))
    OBVIOUS
  <2>8. new.fingerprint.intent = cmd /\ rows' = rows \cup {new}
    BY <1>1, <1>10, <2>7 DEF Row
  <2>9. AnswersAreOnRecord'
    <3>1. AnswersAreOnRecord
      BY DEF IInv
    <3> QED
      BY <2>5, <2>6, <2>8, <3>1 DEF AnswersAreOnRecord
  <2>10. HeadSeq' \in Nat /\ HeadSeq <= HeadSeq' /\ SamePast(HeadSeq)
    BY <2>0, <2>4
  <2> QED
    BY <1>4, <2>3, <2>4, <2>6, <2>9, <2>10
<1> QED
  BY <1>3, <1>8, <1>9, <1>10, ExecuteOutcomes

(* The calls of the others go on, and the places of their callers.         *)
LEMMA CallersKeep ==
    ASSUME CallersAreMeant, HeadSeq \in Nat, HeadSeq' \in Nat, HeadSeq <= HeadSeq',
           sent \subseteq sent', NEW c \in Callers, NEW w,
           call' = [call EXCEPT ![c] = w] \/ UNCHANGED call, PlaceIsMeant(w)'
    PROVE  CallersAreMeant'
<1>1. \A cmd, lo : AskedBetween(cmd, lo, HeadSeq) => AskedBetween(cmd, lo, HeadSeq)'
  BY DEF AskedBetween
<1>2. \A cmd : AskedBetween(cmd, cmd.seq, cmd.seq) => AskedBetween(cmd, cmd.seq, cmd.seq)'
  BY DEF AskedBetween
<1>3. ASSUME NEW x, PlaceIsMeant(x) PROVE PlaceIsMeant(x)'
  <2>1. CASE x = Idle \/ (x.at = "submit" /\ x.cmd.kind \in {"START", "RESUME", "BIND"})
    BY <2>1 DEF PlaceIsMeant
  <2>2. CASE /\ IsCall(x.cmd) /\ x.cmd.seq \in Nat /\ x.cmd.seq <= HeadSeq
             /\ \/ x = [at |-> "call", cmd |-> x.cmd]
                \/ x = [at |-> "check", cmd |-> x.cmd] /\ AskedBetween(x.cmd, x.cmd.seq, HeadSeq)
                \/ x = [at |-> "record", cmd |-> x.cmd] /\ AskedBetween(x.cmd, x.cmd.seq, x.cmd.seq)
    <3>1. IsCall(x.cmd) /\ x.cmd.seq \in Nat /\ x.cmd.seq <= HeadSeq'
      BY <2>2
    <3> QED
      BY <1>1, <1>2, <2>2, <3>1 DEF PlaceIsMeant
  <2> QED
    BY <1>3, <2>1, <2>2 DEF PlaceIsMeant
<1>4. /\ DOMAIN call = Callers /\ call = [x \in Callers |-> call[x]]
      /\ \A x \in Callers : PlaceIsMeant(call[x])
  BY DEF CallersAreMeant
<1>5. CASE call' = [call EXCEPT ![c] = w]
  <2>1. DOMAIN call' = Callers /\ call' = [x \in Callers |-> call'[x]]
    BY <1>4, <1>5
  <2>2. \A x \in Callers : call'[x] = IF x = c THEN w ELSE call[x]
    BY <1>4, <1>5
  <2>3. ASSUME NEW x \in Callers PROVE PlaceIsMeant(call[x])'
    <3>1. PICK y : y = call'[x]
      OBVIOUS
    <3>2. PlaceIsMeant(y)'
      BY <1>3, <1>4, <2>2, <3>1
    <3> QED
      BY <3>1, <3>2
  <2> QED
    BY <2>1, <2>3 DEF CallersAreMeant
<1>6. CASE UNCHANGED call
  <2>1. ASSUME NEW x \in Callers PROVE PlaceIsMeant(call[x])'
    <3>1. PICK y : y = call[x]
      OBVIOUS
    <3>2. PlaceIsMeant(y)'
      BY <1>3, <1>4, <3>1
    <3> QED
      BY <1>6, <3>1, <3>2
  <2> QED
    BY <1>4, <1>6, <2>1 DEF CallersAreMeant
<1> QED
  BY <1>5, <1>6

(* The properties, when neither the log nor what callers were told changes *)
(* and no call is forgotten.                                               *)
LEMMA LogStays ==
    ASSUME IInv, UNCHANGED <<log, told>>, sent \subseteq sent',
           NEW c \in Callers, NEW w,
           call' = [call EXCEPT ![c] = w] \/ UNCHANGED call, PlaceIsMeant(w)'
    PROVE  IInv'
<1>1. rows' = rows /\ stream' = stream /\ told' = told
  BY DEF log
<1>2. IsStream(stream) /\ HeadSeq \in Nat
  BY StreamShape DEF IInv, HeadSeq
<1>3. IsStream(stream)' /\ HeadSeq' = HeadSeq
  BY <1>1, <1>2 DEF HeadSeq
<1>4. AttemptsReplay' /\ ContextsStillHold' /\ ObservationsAreCurrent'
  BY <1>1, StreamStays
<1>5. CallersAreMeant'
  BY <1>2, <1>3, CallersKeep DEF IInv
<1>6. AnswersAreOnRecord'
  BY <1>1 DEF IInv, AnswersAreOnRecord, OnRecord, HeadSeq
<1>7. AnswersAreOfTheAsker'
  BY <1>1 DEF IInv, AnswersAreOfTheAsker, HeadSeq
<1> QED
  BY <1>3, <1>4, <1>5, <1>6, <1>7 DEF IInv

-----------------------------------------------------------------------------
(* The steps.                                                              *)

(* A caller that has left relies on nothing.                               *)
LEMMA IdleIsMeant ==
    PlaceIsMeant(Idle)'
BY DEF PlaceIsMeant

(* START, RESUME and BIND are prepared from any cursor: nothing is relied  *)
(* on.                                                                     *)
LEMMA PrepareKeeps ==
    ASSUME IInv, NEW c \in Callers, NEW cmd,
           cmd.kind \in {"START", "RESUME", "BIND"},
           Go(c, [at |-> "submit", cmd |-> cmd]), UNCHANGED <<log, sent, told>>
    PROVE  IInv'
<1>1. PICK w : w = [at |-> "submit", cmd |-> cmd]
  OBVIOUS
<1>2. PlaceIsMeant(w)'
  BY <1>1 DEF PlaceIsMeant
<1> QED
  BY <1>1, <1>2, LogStays DEF Go

(* The call begins at the head it names.                                   *)
LEMMA PrepareCallKeeps ==
    ASSUME IInv, NEW c \in Callers, NEW r, NEW attempt, NEW provider,
           PrepareCall(c, r, attempt, provider)
    PROVE  IInv'
<1>1. HeadSeq \in Nat /\ HeadSeq' = HeadSeq
  BY StreamShape DEF IInv, HeadSeq, PrepareCall, log
<1>2. PICK cmd : cmd = CallRequest(r, attempt, provider, HeadSeq)
  OBVIOUS
<1>3. IsCall(cmd) /\ cmd.seq = HeadSeq
  BY <1>2 DEF CallRequest, Request, IsCall
<1>4. PICK w : w = [at |-> "call", cmd |-> cmd]
  OBVIOUS
<1>5. PlaceIsMeant(w)'
  BY <1>1, <1>3, <1>4 DEF PlaceIsMeant
<1>6. call' = [call EXCEPT ![c] = w] /\ UNCHANGED <<log, sent, told>>
  BY <1>2, <1>4 DEF PrepareCall, Go
<1> QED
  BY <1>5, <1>6, LogStays

(* The transport is asked no earlier than that.                            *)
LEMMA CallTransportKeeps ==
    ASSUME IInv, NEW c \in Callers, CallTransport(c)
    PROVE  IInv'
<1>1. PICK cmd : cmd = call[c].cmd
  OBVIOUS
<1>2. /\ call[c].at = "call" /\ UNCHANGED <<log, told>>
      /\ sent' = sent \cup {[request |-> cmd.id, attempt |-> cmd.from, at |-> HeadSeq]}
      /\ \/ \E p \in Providers : Go(c, [at |-> "check", cmd |-> [cmd EXCEPT !.provider = p]])
         \/ Go(c, Idle)
  BY <1>1 DEF CallTransport
<1>3. HeadSeq \in Nat /\ HeadSeq' = HeadSeq
  BY <1>2, StreamShape DEF IInv, HeadSeq, log
<1>4. IsCall(cmd) /\ cmd.seq \in Nat /\ cmd.seq <= HeadSeq
  <2>1. PlaceIsMeant(call[c])
    BY DEF IInv, CallersAreMeant
  <2>2. call[c] # Idle
    BY <1>2 DEF Idle
  <2> QED
    BY <1>1, <1>2, <2>1, <2>2 DEF PlaceIsMeant
<1>5. CASE Go(c, Idle)
  BY <1>2, <1>5, LogStays, IdleIsMeant DEF Go
<1>6. CASE \E p \in Providers : Go(c, [at |-> "check", cmd |-> [cmd EXCEPT !.provider = p]])
  <2>1. PICK p \in Providers : Go(c, [at |-> "check", cmd |-> [cmd EXCEPT !.provider = p]])
    BY <1>6
  <2>2. PICK new : new = [cmd EXCEPT !.provider = p]
    OBVIOUS
  <2>3. /\ new = Request("CALL", cmd.id, cmd.session, None, cmd.from, cmd.cursor, p, cmd.seq)
        /\ new.id = cmd.id /\ new.from = cmd.from /\ new.seq = cmd.seq
    <3>1. cmd = Request("CALL", cmd.id, cmd.session, None, cmd.from, cmd.cursor, cmd.provider, cmd.seq)
      BY <1>4 DEF IsCall
    <3>2. new = Request("CALL", cmd.id, cmd.session, None, cmd.from, cmd.cursor, p, cmd.seq)
      BY <2>2, <3>1 DEF Request
    <3> QED
      BY <3>2 DEF Request
  <2>4. IsCall(new)
    BY <2>3 DEF IsCall, Request
  <2>5. AskedBetween(new, new.seq, HeadSeq)'
    <3>1. PICK s : s = [request |-> cmd.id, attempt |-> cmd.from, at |-> HeadSeq]
      OBVIOUS
    <3>2. /\ s \in sent' /\ s.request = new.id /\ s.attempt = new.from
          /\ s.at \in Nat /\ new.seq <= s.at /\ s.at <= HeadSeq'
      BY <1>2, <1>3, <1>4, <2>3, <3>1
    <3> QED
      BY <3>2 DEF AskedBetween
  <2>6. PICK w : w = [at |-> "check", cmd |-> new]
    OBVIOUS
  <2>7. PlaceIsMeant(w)'
    <3>1. new.seq \in Nat /\ new.seq <= HeadSeq'
      BY <1>3, <1>4, <2>3
    <3> QED
      BY <2>4, <2>5, <2>6, <3>1 DEF PlaceIsMeant
  <2>8. call' = [call EXCEPT ![c] = w] /\ sent \subseteq sent'
    BY <1>2, <2>1, <2>2, <2>6 DEF Go
  <2> QED
    BY <1>2, <2>7, <2>8, LogStays
<1> QED
  BY <1>2, <1>5, <1>6

(* With the head still there, it was asked at the head.                    *)
LEMMA CheckHeadKeeps ==
    ASSUME IInv, NEW c \in Callers, CheckHead(c)
    PROVE  IInv'
<1>1. PICK w : w = IF HeadSeq = call[c].cmd.seq THEN [call[c] EXCEPT !.at = "record"] ELSE Idle
  OBVIOUS
<1>2. call' = [call EXCEPT ![c] = w] /\ UNCHANGED <<log, sent, told>>
  BY <1>1 DEF CheckHead, Go
<1>3. PlaceIsMeant(w)'
  <2>1. CASE HeadSeq # call[c].cmd.seq
    BY <1>1, <2>1, IdleIsMeant
  <2>2. CASE HeadSeq = call[c].cmd.seq
    <3>1. PICK cmd : cmd = call[c].cmd
      OBVIOUS
    <3>2. PlaceIsMeant(call[c]) /\ call[c].at = "check" /\ call[c] # Idle
      BY DEF IInv, CallersAreMeant, CheckHead, Idle
    <3>3. /\ IsCall(cmd) /\ cmd.seq \in Nat /\ cmd.seq = HeadSeq
          /\ call[c] = [at |-> "check", cmd |-> cmd] /\ AskedBetween(cmd, cmd.seq, HeadSeq)
      BY <2>2, <3>1, <3>2 DEF PlaceIsMeant
    <3>4. w = [at |-> "record", cmd |-> cmd] /\ w.cmd = cmd
      BY <1>1, <2>2, <3>3
    <3>5. AskedBetween(cmd, cmd.seq, cmd.seq)' /\ cmd.seq <= HeadSeq'
      BY <1>2, <3>3 DEF AskedBetween, HeadSeq, log
    <3> QED
      BY <3>3, <3>4, <3>5 DEF PlaceIsMeant
  <2> QED
    BY <2>1, <2>2
<1> QED
  BY <1>2, <1>3, LogStays

(* A death leaves behind only what was sent.                               *)
LEMMA DieKeeps ==
    ASSUME IInv, NEW c \in Callers, Die(c)
    PROVE  IInv'
BY LogStays, IdleIsMeant DEF Die, Go

(* What a caller was told is still on record.                              *)
LEMMA ToldStays ==
    ASSUME AnswersAreOfTheAsker, HeadSeq \in Nat, HeadSeq' \in Nat, HeadSeq <= HeadSeq',
           SamePast(HeadSeq)
    PROVE  \A t \in told : /\ t.got.id = t.request /\ t.got.from = t.attempt
                           /\ \E i \in 1..HeadSeq' : stream'[i] = t.got
BY RecordsStay DEF AnswersAreOfTheAsker

(* The command of START, RESUME or BIND, and its caller, who leaves.       *)
LEMMA SubmitCommandKeeps ==
    ASSUME IInv, NEW c \in Callers, SubmitCommand(c)
    PROVE  IInv'
<1>1. PICK cmd : cmd = call[c].cmd
  OBVIOUS
<1>2. cmd.kind \in {"START", "RESUME", "BIND"}
  <2>1. PlaceIsMeant(call[c]) /\ call[c].at = "submit" /\ call[c] # Idle
    BY DEF IInv, CallersAreMeant, SubmitCommand, Idle
  <2> QED
    BY <1>1, <2>1 DEF PlaceIsMeant
<1>3. Submit(cmd) /\ call' = [call EXCEPT ![c] = Idle] /\ sent' = sent /\ told' = told
  BY <1>1 DEF SubmitCommand, Go
<1>4. /\ IsStream(stream)' /\ AnswersAreOnRecord'
      /\ AttemptsReplay' /\ ContextsStillHold' /\ ObservationsAreCurrent'
      /\ HeadSeq \in Nat /\ HeadSeq' \in Nat /\ HeadSeq <= HeadSeq' /\ SamePast(HeadSeq)
  BY <1>2, <1>3, SubmitKeeps
<1>5. CallersAreMeant'
  BY <1>3, <1>4, CallersKeep, IdleIsMeant DEF IInv
<1>6. AnswersAreOfTheAsker'
  BY <1>3, <1>4, ToldStays DEF IInv, AnswersAreOfTheAsker
<1> QED
  BY <1>4, <1>5, <1>6 DEF IInv

(* The record of a transport call, new or from an earlier try.             *)
LEMMA RecordCallKeeps ==
    ASSUME IInv, NEW c \in Callers, RecordCall(c)
    PROVE  IInv'
<1>1. PICK cmd : cmd = call[c].cmd
  OBVIOUS
<1>2. cmd.kind = "CALL" /\ AskedBetween(cmd, cmd.seq, cmd.seq)
  <2>1. PlaceIsMeant(call[c]) /\ call[c].at = "record" /\ call[c] # Idle
    BY DEF IInv, CallersAreMeant, RecordCall, Idle
  <2>2. IsCall(cmd) /\ AskedBetween(cmd, cmd.seq, cmd.seq)
    BY <1>1, <2>1 DEF PlaceIsMeant
  <2> QED
    BY <2>2 DEF IsCall, Request
<1>3. PICK said : said = [request |-> cmd.id, attempt |-> cmd.from, got |-> Observation(cmd)]
  OBVIOUS
<1>4. /\ Submit(cmd) /\ call' = [call EXCEPT ![c] = Idle] /\ sent' = sent
      /\ told' = told \/ (told' = told \cup {said}
                          /\ Answer(Envelope(cmd), Handle(cmd), "REFUSED").ok)
  BY <1>1, <1>3 DEF RecordCall, Go
<1>5. /\ IsStream(stream)' /\ AnswersAreOnRecord'
      /\ AttemptsReplay' /\ ContextsStillHold' /\ ObservationsAreCurrent'
      /\ HeadSeq \in Nat /\ HeadSeq' \in Nat /\ HeadSeq <= HeadSeq' /\ SamePast(HeadSeq)
      /\ Answer(Envelope(cmd), Handle(cmd), "REFUSED").ok => OnRecord(cmd)'
  BY <1>2, <1>4, SubmitKeeps
<1>6. CallersAreMeant'
  BY <1>4, <1>5, CallersKeep, IdleIsMeant DEF IInv
<1>7. AnswersAreOfTheAsker'
  <2>1. \A t \in told : /\ t.got.id = t.request /\ t.got.from = t.attempt
                        /\ \E i \in 1..HeadSeq' : stream'[i] = t.got
    BY <1>5, ToldStays DEF IInv
  <2>2. CASE told' = told
    BY <2>1, <2>2 DEF AnswersAreOfTheAsker
  <2>3. CASE told' = told \cup {said} /\ Answer(Envelope(cmd), Handle(cmd), "REFUSED").ok
    <3>1. said.got = Observation(cmd) /\ said.request = cmd.id /\ said.attempt = cmd.from
      BY <1>3
    <3>2. Observation(cmd).id = cmd.id /\ Observation(cmd).from = cmd.from
      BY DEF Observation, Fact
    <3>3. \E i \in 1..HeadSeq' : stream'[i] = said.got
      BY <1>5, <2>3, <3>1 DEF OnRecord
    <3>4. \A t \in told' : t \in told \/ t = said
      BY <2>3
    <3> HIDE DEF Observation
    <3> QED
      BY <2>1, <3>1, <3>2, <3>3, <3>4 DEF AnswersAreOfTheAsker
  <2> QED
    BY <1>4, <2>2, <2>3
<1> QED
  BY <1>5, <1>6, <1>7 DEF IInv

(* A retry is answered from the record of the same request and Attempt.    *)
LEMMA AnswerFromRecordKeeps ==
    ASSUME IInv, NEW c \in Callers, NEW r, NEW attempt, NEW provider, NEW n,
           AnswerFromRecord(c, r, attempt, provider, n)
    PROVE  IInv'
<1>1. PICK cmd : cmd = CallRequest(r, attempt, provider, n)
  OBVIOUS
<1>2. cmd.from = attempt
  BY <1>1 DEF CallRequest, Request
<1>3. UNCHANGED <<log, call, sent>>
  BY DEF AnswerFromRecord
<1>4. PICK i \in ByRequest(r, HeadSeq) :
            /\ SameIntent(stream[i], cmd)
            /\ told' = told \cup {[request |-> r, attempt |-> attempt, got |-> stream[i]]}
  BY <1>1 DEF AnswerFromRecord
<1>5. i \in 1..HeadSeq /\ stream[i].id = r /\ stream[i].from = attempt
  BY <1>2, <1>4 DEF ByRequest, FactsAt, SameIntent
<1>6. rows' = rows /\ stream' = stream /\ call' = call /\ sent' = sent
  BY <1>3 DEF log
<1>7. IsStream(stream) /\ HeadSeq \in Nat /\ IsStream(stream)' /\ HeadSeq' = HeadSeq
  BY <1>6, StreamShape DEF IInv, HeadSeq
<1>8. AttemptsReplay' /\ ContextsStillHold' /\ ObservationsAreCurrent'
  BY <1>6, StreamStays
<1>9. CallersAreMeant'
  BY <1>6, <1>7, CallersKeep, IdleIsMeant DEF IInv
<1>10. AnswersAreOnRecord'
  BY <1>6 DEF IInv, AnswersAreOnRecord, OnRecord, HeadSeq
<1>11. AnswersAreOfTheAsker'
  <2>1. PICK said : said = [request |-> r, attempt |-> attempt, got |-> stream[i]]
    OBVIOUS
  <2>2. said.request = r /\ said.attempt = attempt /\ said.got = stream[i] /\ told' = told \cup {said}
    BY <1>4, <2>1
  <2> QED
    BY <1>5, <1>6, <1>7, <2>2 DEF IInv, AnswersAreOfTheAsker
<1> QED
  BY <1>7, <1>8, <1>9, <1>10, <1>11 DEF IInv

(* The events of the others are no facts of these services.                *)
LEMMA OtherWriterKeeps ==
    ASSUME IInv, OtherWriter
    PROVE  IInv'
<1>1. PICK what \in Changes : stream' = Append(stream, Change(what))
  BY DEF OtherWriter
<1>2. PICK e : e = Change(what)
  OBVIOUS
<1>3. e.type = "changed"
  BY <1>2 DEF Change, Fact
<1>4. Grows(e) /\ UNCHANGED <<rows, call, sent, told>>
  BY <1>1, <1>2 DEF Grows, OtherWriter
<1>5. PICK h : h = HeadSeq
  OBVIOUS
<1>6. ReducerTakes(e, h) /\ AttemptFits(e, h) /\ ObservationFits(e, h)
  BY <1>3 DEF ReducerTakes, AttemptFits, ObservationFits
<1>7. AttemptsReplay' /\ ContextsStillHold' /\ ObservationsAreCurrent'
  BY <1>4, <1>5, <1>6, StreamGrows
<1>8. /\ IsStream(stream)' /\ h \in Nat /\ HeadSeq' = h + 1 /\ SamePast(h)
  BY <1>4, <1>5, OneMore DEF IInv
<1>9. AnswersAreOnRecord'
  BY <1>4, <1>5, <1>8 DEF IInv, AnswersAreOnRecord, OnRecord, SamePast
<1>10. AnswersAreOfTheAsker'
  BY <1>4, <1>5, <1>8, ToldStays DEF IInv, AnswersAreOfTheAsker
<1>11. CallersAreMeant'
  <2>1. ASSUME NEW c \in Callers PROVE CallersAreMeant'
    BY <1>4, <1>5, <1>8, CallersKeep, IdleIsMeant DEF IInv
  <2>2. CASE Callers = {}
    BY <1>4, <2>2 DEF IInv, CallersAreMeant
  <2> QED
    BY <2>1, <2>2
<1> QED
  BY <1>7, <1>8, <1>9, <1>10, <1>11 DEF IInv

(* Each step of any caller, and of the others, keeps the invariant.        *)
LEMMA NextKeeps ==
    ASSUME IInv, Next
    PROVE  IInv'
<1>1. CASE OtherWriter
  BY <1>1, OtherWriterKeeps
<1>2. ASSUME NEW c \in Callers, Step(c) PROVE IInv'
  <2>1. ASSUME NEW kind \in {"START", "RESUME"}, NEW id \in Attempts, NEW session \in Sessions,
               NEW task \in Tasks, NEW from \in Attempts \cup {None}, NEW n \in 0..HeadSeq,
               PrepareAttempt(c, kind, id, session, task, from, n)
        PROVE  IInv'
    <3>1. PICK cmd : cmd = Request(kind, id, session, task, from, n, None, n)
      OBVIOUS
    <3>2. cmd.kind \in {"START", "RESUME", "BIND"}
      BY <3>1 DEF Request
    <3> QED
      BY <2>1, <3>1, <3>2, PrepareKeeps DEF PrepareAttempt
  <2>2. ASSUME NEW id \in Attempts, NEW session \in Sessions, NEW n \in 0..HeadSeq,
               PrepareBinding(c, id, session, n)
        PROVE  IInv'
    <3>1. PICK cmd : cmd = Request("BIND", id, session, None, None, 0, None, n)
      OBVIOUS
    <3>2. cmd.kind \in {"START", "RESUME", "BIND"}
      BY <3>1 DEF Request
    <3> QED
      BY <2>2, <3>1, <3>2, PrepareKeeps DEF PrepareBinding
  <2>3. ASSUME NEW r \in Requests, NEW attempt \in Attempts, NEW provider \in Providers \cup {None},
               \/ PrepareCall(c, r, attempt, provider)
               \/ \E n \in 0..HeadSeq : AnswerFromRecord(c, r, attempt, provider, n)
        PROVE  IInv'
    BY <2>3, PrepareCallKeeps, AnswerFromRecordKeeps
  <2>4. CASE SubmitCommand(c) \/ RecordCall(c)
    BY <2>4, SubmitCommandKeeps, RecordCallKeeps
  <2>5. CASE CallTransport(c) \/ CheckHead(c) \/ Die(c)
    BY <2>5, CallTransportKeeps, CheckHeadKeeps, DieKeeps
  <2> QED
    BY <1>2, <2>1, <2>2, <2>3, <2>4, <2>5 DEF Step
<1> QED
  BY <1>1, <1>2 DEF Next

-----------------------------------------------------------------------------
(* The inductive invariant holds of any callers, in any order of their     *)
(* steps and wherever they die.                                            *)
THEOREM AttemptInvariant == Spec => []IInv
<1>1. Init => IInv
  <2> SUFFICES ASSUME Init PROVE IInv
    OBVIOUS
  <2>1. stream = << >> /\ rows = {} /\ call = [c \in Callers |-> Idle] /\ told = {}
    BY DEF Init
  <2>2. IsStream(stream) /\ HeadSeq = 0
    <3>1. << >> \in Seq({})
      OBVIOUS
    <3> QED
      BY <2>1, <3>1 DEF IsStream, HeadSeq
  <2>3. CallersAreMeant
    BY <2>1 DEF CallersAreMeant, PlaceIsMeant
  <2>4. AttemptsReplay /\ ContextsStillHold /\ ObservationsAreCurrent
    BY <2>2 DEF AttemptsReplay, ContextsStillHold, ObservationsAreCurrent, FactsAt
  <2>5. AnswersAreOnRecord /\ AnswersAreOfTheAsker
    BY <2>1 DEF AnswersAreOnRecord, AnswersAreOfTheAsker
  <2> QED
    BY <2>2, <2>3, <2>4, <2>5 DEF IInv
<1>2. IInv /\ [Next]_vars => IInv'
  <2> SUFFICES ASSUME IInv, [Next]_vars PROVE IInv'
    OBVIOUS
  <2>1. CASE UNCHANGED vars
    <3>1. UNCHANGED <<log, told, sent, call>>
      BY <2>1 DEF vars
    <3>2. rows' = rows /\ stream' = stream
      BY <3>1 DEF log
    <3>3. IsStream(stream)' /\ AttemptsReplay' /\ ContextsStillHold' /\ ObservationsAreCurrent'
      BY <3>1, <3>2, StreamStays DEF IInv
    <3>4. CallersAreMeant'
      BY <3>1, <3>2 DEF IInv, CallersAreMeant, PlaceIsMeant, AskedBetween, HeadSeq
    <3>5. AnswersAreOnRecord'
      BY <3>2 DEF IInv, AnswersAreOnRecord, OnRecord, HeadSeq
    <3>6. AnswersAreOfTheAsker'
      BY <3>1, <3>2 DEF IInv, AnswersAreOfTheAsker, HeadSeq
    <3> QED
      BY <3>3, <3>4, <3>5, <3>6 DEF IInv
  <2> QED
    BY <2>1, NextKeeps
<1> QED
  BY <1>1, <1>2, PTL DEF Spec

(* What the handlers of the three services accept under races, retries and *)
(* deaths, their reducers take when the stream is read back.               *)
THEOREM AttemptsCanBeReplayed == Spec => []AttemptsReplay
<1>1. IInv => AttemptsReplay
  BY DEF IInv
<1> QED
  BY <1>1, AttemptInvariant, PTL

(* An Attempt begins in the Mission its Context shows, however old the     *)
(* read it was built from.                                                 *)
THEOREM ContextsHold == Spec => []ContextsStillHold
<1>1. IInv => ContextsStillHold
  BY DEF IInv
<1> QED
  BY <1>1, AttemptInvariant, PTL

(* No transport call that another writer overtook is ever recorded.        *)
THEOREM NoOvertakenCallIsRecorded == Spec => []ObservationsAreCurrent
<1>1. IInv => ObservationsAreCurrent
  BY DEF IInv
<1> QED
  BY <1>1, AttemptInvariant, PTL

(* Nobody is told of the record of another's request.                      *)
THEOREM AnswersBelongToTheAsker == Spec => []AnswersAreOfTheAsker
<1>1. IInv => AnswersAreOfTheAsker
  BY DEF IInv
<1> QED
  BY <1>1, AttemptInvariant, PTL
=============================================================================
