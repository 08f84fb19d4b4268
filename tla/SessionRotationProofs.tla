------------------------ MODULE SessionRotationProofs ------------------------
(***************************************************************************)
(* SessionRotation for any number of callers, Sessions, rotations, deaths  *)
(* and events of others.                                                   *)
(*                                                                         *)
(* Whatever its callers believe, the Mission's events and commands keep    *)
(* the order of a rotation: the Session that follows Attempt m is opened   *)
(* by one command, whose id is made of m, and only at a head at which the  *)
(* Session of Attempt m is no longer OPEN; Attempt m + 1 is made in the    *)
(* Session that was opened.  Hence one OPEN Session (OneOpenSession).      *)
(*                                                                         *)
(* For a single caller, also that the Attempts are made by the rotations   *)
(* that were asked for, and that these are completed with their Sessions.  *)
(***************************************************************************)
EXTENDS SessionRotation, MissionLogProofs, FunctionTheorems

-----------------------------------------------------------------------------
(* The invariant.                                                          *)

Status(s) == CoreStatus(s, HeadSeq)
Worker    == Latest(HeadSeq)

(* The Sessions that were bound to the rotation of p.                      *)
BoundIn(p, n) == {stream[i].session : i \in Of("provision_bound", p, n)}
Bound(p)      == BoundIn(p, HeadSeq)

(* The stream begins with Session 1 and the Attempt in it.                 *)
StreamIsMeant ==
    /\ IsStream(stream) /\ HeadSeq \in Nat /\ HeadSeq >= 2
    /\ stream[1] = Event("opened", 1, 0) /\ stream[2] = Event("attempt", 1, 1)

(* The Attempts are 1, 2, ... up to the latest, each there once.           *)
AttemptIn(m, s) == \E a \in Attempts(HeadSeq) : stream[a].about = m /\ stream[a].session = s

Chain ==
    /\ Worker.ordinal \in Nat /\ AttemptIn(Worker.ordinal, Worker.session)
    /\ \A a \in Attempts(HeadSeq) : stream[a].about \in 1..Worker.ordinal
    /\ \A a, b \in Attempts(HeadSeq) : stream[a].about = stream[b].about => a = b
    /\ \A m \in 1..Worker.ordinal : \E s : AttemptIn(m, s)

(* The command that opens the Session to follow Attempt m.                 *)
OpenId(m) == <<"operation", m + 1, "OPEN">>
OpenedAfter(m, s) ==
    \E row \in rows : /\ row.command_id = OpenId(m) /\ row.answer.ok
                      /\ row.fingerprint.intent.session = s

(* An Attempt but the first runs in the Session opened for it.             *)
WorkersWereOpened ==
    \A m \in Nat : \A s : m > 0 /\ AttemptIn(m + 1, s) => OpenedAfter(m, s)
WorkersExist == \A m, s : AttemptIn(m, s) => Status(s) # "none"
OpenIsTheWorker ==
    \A s : Status(s) = "opened" => s = Worker.session \/ OpenedAfter(Worker.ordinal, s)

Moves   == {"SUSPEND", "CLOSE"}
Modes   == Moves \cup {"ALREADY_TERMINAL"}
Over(t) == t \notin {"opened", "none"}

(* What a command of each kind that is on record means.                    *)
RowIsMeant(row) ==
    /\ row.answer.ok => row.answer.last_seq \in 0..HeadSeq
    /\ \A m \in Nat : row.command_id = OpenId(m) =>
          /\ row.fingerprint.intent.mode \in Modes
          /\ row.answer.ok => \E s : AttemptIn(m, s) /\ Over(Status(s))
    /\ \A m \in Nat, mode \in Moves :
          row.command_id = <<"operation", m + 1, mode>> /\ row.answer.ok =>
              \E s : AttemptIn(m, s) /\ CoreStatus(s, row.answer.last_seq) # "opened"
    /\ \A p : row.command_id = <<"rotation", p, "CLOSE">> /\ row.answer.ok =>
          Status(p) = "closed"
    /\ \A p, s : row.command_id = <<"provision", p, "BIND", s>> /\ row.answer.ok =>
          s \in Bound(p)

RowsAreMeant == \A row \in rows : RowIsMeant(row)
RowsAreOne   == \A r, q \in rows : r.command_id = q.command_id => r = q

(* A completed rotation, at i.                                             *)
CompletionIsMeant(i, s, p) ==
    s \in briefed /\ s \in BoundIn(p, i - 1) /\ CoreStatus(p, i - 1) = "closed"
CompletionsAreMeant ==
    \A i \in 1..HeadSeq : \A s, p :
        stream[i].type = "rotation_completed" /\ stream[i].session = s /\ stream[i].about = p
            => CompletionIsMeant(i, s, p)

LogInv ==
    /\ StreamIsMeant /\ Chain /\ WorkersWereOpened /\ WorkersExist /\ OpenIsTheWorker
    /\ RowsAreMeant /\ RowsAreOne /\ CompletionsAreMeant

(* What a caller knows at its place.                                       *)
Chosen  == {"creating", "deciding", "transition", "opening", "resuming"}
Binding == {"binding", "bind"}
Closing == {"closing", "close", "delete", "complete"}

IsJob(j) ==
    j = [predecessor |-> j.predecessor, source |-> j.source, ordinal |-> j.ordinal,
         successor |-> j.successor, mode |-> j.mode, cursor |-> j.cursor,
         sending |-> j.sending]

Knows(ph, j) ==
    /\ ph \in Phases /\ IsJob(j) /\ (j.sending => ph \in DOMAIN After)
    /\ ph \in Chosen => j.ordinal \in Nat /\ AttemptIn(j.ordinal, j.source)
    /\ ph = "transition" => j.mode \in Moves
    /\ ph = "opening" => /\ j.mode \in Modes /\ j.cursor \in 0..HeadSeq
                         /\ CoreStatus(j.source, j.cursor) # "opened"
    /\ ph = "resuming" => \E s : OpenedAfter(j.ordinal, s)
    /\ ph \in Binding \cup Closing => j.successor \in briefed
    /\ ph \in Closing => j.successor \in Bound(j.predecessor)
    /\ ph \in {"delete", "complete"} => Status(j.predecessor) = "closed"

CallsInv ==
    /\ DOMAIN phase = Callers /\ phase = [c \in Callers |-> phase[c]]
    /\ DOMAIN job = Callers /\ job = [c \in Callers |-> job[c]]
    /\ \A c \in Callers : Knows(phase[c], job[c])

RInv == LogInv /\ CallsInv

-----------------------------------------------------------------------------
(* The last of some positions.                                             *)

LEMMA LastIs ==
    ASSUME NEW S, S \subseteq Nat, NEW m \in S, \A y \in S : m >= y
    PROVE  Max(S) = m
<1>1. \A x \in S : (\A y \in S : x >= y) => x = m
  <2>1. \A x, y \in Nat : x >= y /\ y >= x => x = y
    OBVIOUS
  <2> QED
    BY <2>1
<1>2. Max(S) \in S /\ \A y \in S : Max(S) >= y
  BY DEF Max
<1> QED
  BY <1>1, <1>2

LEMMA LastIsThere ==
    ASSUME NEW n \in Nat, NEW S, S \subseteq 1..n, S # {}
    PROVE  Max(S) \in S /\ \A y \in S : Max(S) >= y
<1> DEFINE T == {n - x : x \in S}
<1>1. T \subseteq Nat /\ T # {}
  <2>1. \A x \in S : x \in 1..n /\ n - x \in Nat
    OBVIOUS
  <2> QED
    BY <2>1
<1>2. PICK m \in T : \A k \in T : ~(k < m)
  <2> HIDE DEF T
  <2> QED
    BY <1>1, NatLeast
<1>3. PICK x \in S : m = n - x
  OBVIOUS
<1>4. \A y \in S : x >= y
  <2> SUFFICES ASSUME NEW y \in S PROVE x >= y
    OBVIOUS
  <2>1. n - y \in T /\ ~(n - y < m)
    BY <1>2
  <2> QED
    BY <1>3, <2>1
<1> QED
  BY <1>3, <1>4 DEF Max

-----------------------------------------------------------------------------
(* What one event more does to what the reducers say.                      *)

Turns(s, n) == {i \in 1..n : stream[i].session = s /\ stream[i].type \in CoreEvents}

LEMMA StatusGrows ==
    ASSUME IsStream(stream), NEW e, Grows(e), NEW h, h = HeadSeq
    PROVE  \A s : /\ \A n \in 0..h : CoreStatus(s, n)' = CoreStatus(s, n)
                  /\ Status(s)' = IF e.session = s /\ e.type \in CoreEvents THEN e.type
                                  ELSE Status(s)
<1>1. /\ h \in Nat /\ HeadSeq' = h + 1 /\ stream'[h + 1] = e
      /\ \A i \in 1..h : stream'[i] = stream[i]
  BY OneMore DEF SamePast
<1> SUFFICES ASSUME NEW s
             PROVE  /\ \A n \in 0..h : CoreStatus(s, n)' = CoreStatus(s, n)
                    /\ Status(s)' = IF e.session = s /\ e.type \in CoreEvents THEN e.type
                                    ELSE Status(s)
  OBVIOUS
<1>2. ASSUME NEW n \in 0..h
      PROVE  Turns(s, n)' = Turns(s, n) /\ Turns(s, n) \subseteq 1..n /\ n \in Nat
  <2>1. n \in Nat /\ \A i \in 1..n : i \in 1..h
    BY <1>1
  <2> QED
    BY <1>1, <2>1 DEF Turns
<1>3. ASSUME NEW n \in 0..h PROVE CoreStatus(s, n)' = CoreStatus(s, n)
  <2>1. CASE Turns(s, n) = {}
    BY <1>2, <2>1 DEF CoreStatus, Turns
  <2>2. CASE Turns(s, n) # {}
    <3>1. PICK last : last = Max(Turns(s, n))
      OBVIOUS
    <3>2. last \in Turns(s, n) /\ last \in 1..h
      BY <1>1, <1>2, <2>2, <3>1, LastIsThere
    <3>3. CoreStatus(s, n) = stream[last].type
      BY <2>2, <3>1 DEF CoreStatus, Turns
    <3>4. CoreStatus(s, n)' = stream'[last].type
      BY <1>2, <2>2, <3>1 DEF CoreStatus, Turns
    <3> QED
      BY <1>1, <3>2, <3>3, <3>4
  <2> QED
    BY <2>1, <2>2
<1>4. h \in 0..h /\ \A i \in 1..(h + 1) : i = h + 1 \/ i \in 1..h
  BY <1>1
<1>5. CASE e.session = s /\ e.type \in CoreEvents
  <2> DEFINE T == {i \in 1..(h + 1) : stream'[i].session = s /\ stream'[i].type \in CoreEvents}
  <2>1. h + 1 \in T /\ T \subseteq Nat /\ \A y \in T : h + 1 >= y
    BY <1>1, <1>5
  <2>2. Max(T) = h + 1
    <3> HIDE DEF T
    <3> QED
      BY <2>1, LastIs
  <2>3. Turns(s, HeadSeq)' = T
    BY <1>1 DEF Turns
  <2>4. T # {}
    BY <2>1
  <2>5. Status(s)' = stream'[Max(T)].type
    <3> HIDE DEF T
    <3> QED
      BY <2>3, <2>4 DEF Status, CoreStatus, Turns
  <2> QED
    BY <1>1, <1>3, <1>5, <2>2, <2>5
<1>6. CASE ~(e.session = s /\ e.type \in CoreEvents)
  <2>1. Turns(s, HeadSeq)' = Turns(s, h)'
    BY <1>1, <1>4, <1>6 DEF Turns
  <2>2. Status(s)' = CoreStatus(s, h)'
    BY <2>1 DEF Status, CoreStatus, Turns
  <2>3. CoreStatus(s, h)' = CoreStatus(s, h) /\ CoreStatus(s, h) = Status(s)
    BY <1>3, <1>4 DEF Status
  <2> QED
    BY <1>3, <1>6, <2>2, <2>3
<1> QED
  BY <1>3, <1>5, <1>6

LEMMA AttemptsGrow ==
    ASSUME StreamIsMeant, NEW e, Grows(e), NEW h, h = HeadSeq
    PROVE  /\ \A n \in 0..h : Attempts(n)' = Attempts(n)
           /\ \A n \in 2..h : Latest(n)' = Latest(n)
           /\ e.type # "attempt" =>
                 Attempts(HeadSeq)' = Attempts(HeadSeq) /\ Worker' = Worker
           /\ e.type = "attempt" =>
                 /\ Attempts(HeadSeq)' = Attempts(HeadSeq) \cup {h + 1}
                 /\ Worker' = [session |-> e.session, ordinal |-> e.about]
<1>1. /\ h \in Nat /\ h >= 2 /\ HeadSeq' = h + 1 /\ stream'[h + 1] = e
      /\ \A i \in 1..h : stream'[i] = stream[i]
  BY OneMore DEF SamePast, StreamIsMeant
<1>2. stream[2].type = "attempt"
  BY DEF StreamIsMeant, Event
<1>3. \A n \in 0..h : n \in Nat /\ \A i \in 1..n : i \in 1..h
  BY <1>1
<1>4. \A n \in 0..h : Attempts(n)' = Attempts(n) /\ Attempts(n) \subseteq 1..n
  BY <1>1, <1>3 DEF Attempts
<1>5. ASSUME NEW n \in 2..h
      PROVE  /\ Latest(n)' = Latest(n)
             /\ Max(Attempts(n)) \in Attempts(n) /\ n \in 0..h
  <2>1. n \in 0..h /\ 2 \in 1..n /\ n \in Nat
    BY <1>1
  <2>2. 2 \in Attempts(n)
    BY <1>2, <2>1 DEF Attempts
  <2>3. PICK last : last = Max(Attempts(n))
    OBVIOUS
  <2>4. last \in Attempts(n) /\ last \in 1..h
    BY <1>3, <1>4, <2>1, <2>2, <2>3, LastIsThere
  <2>5. Attempts(n)' = Attempts(n)
    BY <1>4, <2>1
  <2>6. Max(Attempts(n)') = last
    BY <2>3, <2>5
  <2>7. Latest(n) = [session |-> stream[last].session, ordinal |-> stream[last].about]
    BY <2>3 DEF Latest
  <2>8. Latest(n)' = [session |-> stream'[last].session, ordinal |-> stream'[last].about]
    BY <2>6 DEF Latest
  <2> QED
    BY <1>1, <2>1, <2>3, <2>4, <2>7, <2>8
<1>6. h \in 2..h /\ h \in 0..h /\ \A i \in 1..(h + 1) : i = h + 1 \/ i \in 1..h
  BY <1>1
<1>7. Attempts(HeadSeq)' = {i \in 1..(h + 1) : stream'[i].type = "attempt"}
  BY <1>1 DEF Attempts
<1>8. Attempts(h)' = {i \in 1..h : stream'[i].type = "attempt"}
  BY DEF Attempts
<1>9. CASE e.type # "attempt"
  <2>1. Attempts(HeadSeq)' = Attempts(h)'
    BY <1>1, <1>6, <1>7, <1>8, <1>9
  <2>2. Worker' = Latest(h)'
    BY <2>1 DEF Worker, Latest
  <2> QED
    BY <1>4, <1>5, <1>6, <1>9, <2>1, <2>2 DEF Worker
<1>10. CASE e.type = "attempt"
  <2>1. Attempts(HeadSeq)' = Attempts(h)' \cup {h + 1}
    BY <1>1, <1>6, <1>7, <1>8, <1>10
  <2>2. /\ Attempts(HeadSeq)' \subseteq Nat /\ h + 1 \in Attempts(HeadSeq)'
        /\ \A y \in Attempts(HeadSeq)' : h + 1 >= y
    BY <1>1, <1>7, <2>1
  <2>3. Max(Attempts(HeadSeq)') = h + 1
    BY <2>2, LastIs
  <2>4. Worker' = [session |-> stream'[h + 1].session, ordinal |-> stream'[h + 1].about]
    BY <2>3 DEF Worker, Latest
  <2> QED
    BY <1>1, <1>4, <1>5, <1>6, <1>10, <2>1, <2>4
<1> QED
  BY <1>4, <1>5, <1>9, <1>10

LEMMA BindingsGrow ==
    ASSUME IsStream(stream), NEW e, Grows(e), NEW h, h = HeadSeq
    PROVE  \A p : /\ \A n \in 0..h : BoundIn(p, n)' = BoundIn(p, n)
                  /\ Bound(p)' = IF e.type = "provision_bound" /\ e.about = p
                                 THEN Bound(p) \cup {e.session} ELSE Bound(p)
<1>1. /\ h \in Nat /\ HeadSeq' = h + 1 /\ stream'[h + 1] = e
      /\ \A i \in 1..h : stream'[i] = stream[i]
  BY OneMore DEF SamePast
<1>2. \A n \in 0..h : \A i \in 1..n : i \in 1..h
  BY <1>1
<1> SUFFICES ASSUME NEW p
             PROVE  /\ \A n \in 0..h : BoundIn(p, n)' = BoundIn(p, n)
                    /\ Bound(p)' = IF e.type = "provision_bound" /\ e.about = p
                                   THEN Bound(p) \cup {e.session} ELSE Bound(p)
  OBVIOUS
<1>3. ASSUME NEW n \in 0..h PROVE BoundIn(p, n)' = BoundIn(p, n)
  <2>1. Of("provision_bound", p, n)' = Of("provision_bound", p, n)
    BY <1>1, <1>2 DEF Of
  <2>2. \A i \in Of("provision_bound", p, n) : i \in 1..h
    BY <1>2 DEF Of
  <2> QED
    BY <1>1, <2>1, <2>2 DEF BoundIn
<1>4. h \in 0..h /\ \A i \in 1..(h + 1) : i = h + 1 \/ i \in 1..h
  BY <1>1
<1> DEFINE All == {i \in 1..(h + 1) : stream'[i].type = "provision_bound" /\ stream'[i].about = p}
           Old == {i \in 1..h : stream'[i].type = "provision_bound" /\ stream'[i].about = p}
<1>5. Bound(p)' = {stream'[i].session : i \in All}
  BY <1>1 DEF Bound, BoundIn, Of
<1>6. BoundIn(p, h)' = {stream'[i].session : i \in Old} /\ BoundIn(p, h)' = Bound(p)
  <2>1. BoundIn(p, h)' = BoundIn(p, h) /\ BoundIn(p, h) = Bound(p)
    BY <1>3, <1>4 DEF Bound
  <2> QED
    BY <2>1 DEF BoundIn, Of
<1>7. CASE e.type = "provision_bound" /\ e.about = p
  <2>1. All = Old \cup {h + 1}
    BY <1>1, <1>4, <1>7
  <2> QED
    BY <1>1, <1>3, <1>5, <1>6, <1>7, <2>1
<1>8. CASE ~(e.type = "provision_bound" /\ e.about = p)
  <2>1. All = Old
    BY <1>1, <1>4, <1>8
  <2> QED
    BY <1>3, <1>5, <1>6, <1>8, <2>1
<1> QED
  BY <1>3, <1>7, <1>8

-----------------------------------------------------------------------------
(* A step of the Mission.                                                  *)

(* What an event must be in the state it is appended to.                   *)
Legal(e) ==
    /\ e.type = "opened" => Status(e.session) = "none"
    /\ e.type = "suspended" => Status(e.session) = "opened"
    /\ e.type = "closed" => Status(e.session) \in {"opened", "suspended"}
    /\ e.type # "failed"
    /\ e.type = "rotation_completed" =>
          e.session \in briefed /\ e.session \in Bound(e.about) /\ Status(e.about) = "closed"

StreamMoves == stream' = stream \/ \E e : Grows(e) /\ Legal(e)

NewRow(row) ==
    /\ rows' = rows \cup {row} /\ \A r \in rows : r.command_id # row.command_id
    /\ RowIsMeant(row)'
RowsMove == rows' = rows \/ \E row : NewRow(row)

(* What was true of the Mission with h events and stays so.                *)
Stands(h) ==
    /\ HeadSeq' \in Nat /\ h <= HeadSeq' /\ SamePast(h)
    /\ \A m, s : AttemptIn(m, s) => AttemptIn(m, s)'
    /\ \A s : \A n \in 0..h : CoreStatus(s, n)' = CoreStatus(s, n)
    /\ \A p : \A n \in 0..h : BoundIn(p, n)' = BoundIn(p, n)
    /\ \A s : Over(Status(s)) => Over(Status(s)')
    /\ \A s : Status(s) # "none" => Status(s)' # "none"
    /\ \A s : Status(s) = "closed" => Status(s)' = "closed"
    /\ \A p : Bound(p) \subseteq Bound(p)'
    /\ \A m, s : OpenedAfter(m, s) => OpenedAfter(m, s)'
    /\ briefed \subseteq briefed'

LEMMA MissionMoves ==
    ASSUME StreamIsMeant, StreamMoves, rows \subseteq rows', briefed \subseteq briefed',
           NEW h, h = HeadSeq
    PROVE  Stands(h) /\ StreamIsMeant'
<1>1. \A m, s : OpenedAfter(m, s) => OpenedAfter(m, s)'
  BY DEF OpenedAfter
<1>2. CASE stream' = stream
  <2>1. HeadSeq' = HeadSeq /\ StreamIsMeant' /\ HeadSeq \in Nat
    BY <1>2 DEF HeadSeq, StreamIsMeant
  <2>2. \A m, s : AttemptIn(m, s)' <=> AttemptIn(m, s)
    BY <1>2 DEF AttemptIn, Attempts, HeadSeq
  <2>3. \A s, n : CoreStatus(s, n)' = CoreStatus(s, n)
    BY <1>2 DEF CoreStatus
  <2>4. \A p, n : BoundIn(p, n)' = BoundIn(p, n)
    BY <1>2 DEF BoundIn, Of
  <2>5. \A s : Status(s)' = Status(s)
    BY <1>2 DEF Status, CoreStatus, HeadSeq
  <2>6. \A p : Bound(p)' = Bound(p)
    BY <1>2 DEF Bound, BoundIn, Of, HeadSeq
  <2>7. h <= HeadSeq' /\ HeadSeq' \in Nat /\ SamePast(h)
    BY <1>2, <2>1 DEF SamePast
  <2> QED
    BY <1>1, <2>1, <2>2, <2>3, <2>4, <2>5, <2>6, <2>7 DEF Stands
<1>3. CASE \E e : Grows(e) /\ Legal(e)
  <2>1. PICK e : Grows(e) /\ Legal(e)
    BY <1>3
  <2>2. /\ IsStream(stream)' /\ h \in Nat /\ h >= 2 /\ HeadSeq' = h + 1
        /\ SamePast(h) /\ \A i \in 1..h : stream'[i] = stream[i]
    BY <2>1, OneMore DEF StreamIsMeant, SamePast
  <2>3. StreamIsMeant'
    <3>1. 1 \in 1..h /\ 2 \in 1..h /\ h + 1 \in Nat /\ h + 1 >= 2 /\ h <= h + 1
      BY <2>2
    <3>2. stream'[1] = Event("opened", 1, 0) /\ stream'[2] = Event("attempt", 1, 1)
      BY <2>2, <3>1 DEF StreamIsMeant
    <3>3. HeadSeq' \in Nat /\ HeadSeq' >= 2
      BY <2>2, <3>1
    <3> QED
      BY <2>2, <3>2, <3>3 DEF StreamIsMeant, Event
  <2>4. HeadSeq' \in Nat /\ h <= HeadSeq'
    BY <2>2
  <2>5. \A m, s : AttemptIn(m, s) => AttemptIn(m, s)'
    <3>1. Attempts(HeadSeq) \subseteq Attempts(HeadSeq)'
      BY <2>1, AttemptsGrow
    <3>2. \A a \in Attempts(HeadSeq) : stream'[a] = stream[a]
      BY <2>2 DEF Attempts
    <3> QED
      BY <3>1, <3>2 DEF AttemptIn
  <2>6. \A s : /\ \A n \in 0..h : CoreStatus(s, n)' = CoreStatus(s, n)
               /\ Status(s)' = IF e.session = s /\ e.type \in CoreEvents THEN e.type
                               ELSE Status(s)
    BY <2>1, StatusGrows DEF StreamIsMeant
  <2>7. /\ \A s : Over(Status(s)) => Over(Status(s)')
        /\ \A s : Status(s) # "none" => Status(s)' # "none"
        /\ \A s : Status(s) = "closed" => Status(s)' = "closed"
    BY <2>1, <2>6 DEF Legal, Over, CoreEvents
  <2>8. /\ \A p : \A n \in 0..h : BoundIn(p, n)' = BoundIn(p, n)
        /\ \A p : Bound(p) \subseteq Bound(p)'
    <3>1. \A p : /\ \A n \in 0..h : BoundIn(p, n)' = BoundIn(p, n)
                 /\ Bound(p)' = IF e.type = "provision_bound" /\ e.about = p
                                THEN Bound(p) \cup {e.session} ELSE Bound(p)
      BY <2>1, BindingsGrow DEF StreamIsMeant
    <3> QED
      BY <2>1, <3>1 DEF Legal
  <2> QED
    BY <1>1, <2>2, <2>3, <2>4, <2>5, <2>6, <2>7, <2>8 DEF Stands
<1> QED
  BY <1>2, <1>3 DEF StreamMoves

(* What stands keeps what the commands on record mean, and what callers    *)
(* know.                                                                   *)
LEMMA RowStands ==
    ASSUME NEW h \in Nat, h = HeadSeq, Stands(h), NEW row, RowIsMeant(row)
    PROVE  RowIsMeant(row)'
<1>1. row.answer.ok => row.answer.last_seq \in 0..h
  BY DEF RowIsMeant
<1>2. row.answer.ok => row.answer.last_seq \in 0..HeadSeq'
  <2>1. \A k \in Nat : h <= k => \A i \in 0..h : i \in 0..k
    OBVIOUS
  <2> QED
    BY <1>1, <2>1 DEF Stands
<1>3. ASSUME NEW m \in Nat, row.command_id = OpenId(m)
      PROVE  /\ row.fingerprint.intent.mode \in Modes
             /\ row.answer.ok => \E s : AttemptIn(m, s)' /\ Over(Status(s)')
  BY <1>3 DEF RowIsMeant, Stands
<1>4. ASSUME NEW m \in Nat, NEW mode \in Moves,
             row.command_id = <<"operation", m + 1, mode>>, row.answer.ok
      PROVE  \E s : AttemptIn(m, s)' /\ CoreStatus(s, row.answer.last_seq)' # "opened"
  <2>1. PICK s : AttemptIn(m, s) /\ CoreStatus(s, row.answer.last_seq) # "opened"
    BY <1>4 DEF RowIsMeant
  <2>2. PICK i : i = row.answer.last_seq
    OBVIOUS
  <2>3. CoreStatus(s, i)' = CoreStatus(s, i) /\ AttemptIn(m, s)'
    BY <1>1, <1>4, <2>1, <2>2 DEF Stands
  <2> QED
    BY <2>1, <2>2, <2>3
<1>5. ASSUME NEW p, row.command_id = <<"rotation", p, "CLOSE">>, row.answer.ok
      PROVE  Status(p)' = "closed"
  BY <1>5 DEF RowIsMeant, Stands
<1>6. ASSUME NEW p, NEW s, row.command_id = <<"provision", p, "BIND", s>>, row.answer.ok
      PROVE  s \in Bound(p)'
  BY <1>6 DEF RowIsMeant, Stands
<1> QED
  BY <1>2, <1>3, <1>4, <1>5, <1>6 DEF RowIsMeant, OpenId, Over

LEMMA KnowledgeStands ==
    ASSUME NEW h \in Nat, h = HeadSeq, Stands(h), NEW ph, NEW j, Knows(ph, j)
    PROVE  Knows(ph, j)'
<1>1. \A i \in 0..h : i \in 0..HeadSeq'
  <2>1. \A k \in Nat : h <= k => \A i \in 0..h : i \in 0..k
    OBVIOUS
  <2> QED
    BY <2>1 DEF Stands
<1>2. ph \in Phases /\ IsJob(j) /\ (j.sending => ph \in DOMAIN After)
  BY DEF Knows
<1>3. ph \in Chosen => j.ordinal \in Nat /\ AttemptIn(j.ordinal, j.source)'
  BY DEF Knows, Stands
<1>4. ph = "opening" => /\ j.mode \in Modes /\ j.cursor \in 0..HeadSeq'
                        /\ CoreStatus(j.source, j.cursor)' # "opened"
  BY <1>1 DEF Knows, Stands
<1>5. ph = "resuming" => \E s : OpenedAfter(j.ordinal, s)'
  BY DEF Knows, Stands
<1>6. ph \in Binding \cup Closing => j.successor \in briefed'
  BY DEF Knows, Stands
<1>7. ph \in Closing => j.successor \in Bound(j.predecessor)'
  BY DEF Knows, Stands
<1>8. ph \in {"delete", "complete"} => Status(j.predecessor)' = "closed"
  BY DEF Knows, Stands
<1>9. ph = "transition" => j.mode \in Moves
  BY DEF Knows
<1> QED
  BY <1>2, <1>3, <1>4, <1>5, <1>6, <1>7, <1>8, <1>9 DEF Knows, IsJob

-----------------------------------------------------------------------------
(* Every legal step keeps what is on record ...                            *)

LEMMA RecordsKept ==
    ASSUME LogInv, StreamMoves, RowsMove, briefed \subseteq briefed', NEW h, h = HeadSeq
    PROVE  /\ Stands(h) /\ StreamIsMeant'
           /\ RowsAreMeant' /\ RowsAreOne' /\ CompletionsAreMeant'
<1>1. rows \subseteq rows'
  BY DEF RowsMove, NewRow
<1>2. Stands(h) /\ StreamIsMeant'
  BY <1>1, MissionMoves DEF LogInv
<1>3. h \in Nat
  BY DEF LogInv, StreamIsMeant
<1>4. \A row \in rows : RowIsMeant(row)'
  <2> TAKE row \in rows
  <2>1. RowIsMeant(row)
    BY DEF LogInv, RowsAreMeant
  <2> QED
    BY <1>2, <1>3, <2>1, RowStands
<1>5. RowsAreMeant' /\ RowsAreOne'
  <2>1. CASE rows' = rows
    BY <1>4, <2>1 DEF RowsAreMeant, LogInv, RowsAreOne
  <2>2. CASE \E row : NewRow(row)
    <3>1. PICK row : NewRow(row)
      BY <2>2
    <3>2. \A r \in rows' : r \in rows \/ r = row
      BY <3>1 DEF NewRow
    <3>3. \A r \in rows' : RowIsMeant(r)'
      <4> TAKE r \in rows'
      <4>1. CASE r \in rows
        BY <1>4, <4>1
      <4>2. CASE r = row
        BY <3>1, <4>2 DEF NewRow
      <4> QED
        BY <3>2, <4>1, <4>2
    <3>4. \A r, q \in rows' : r.command_id = q.command_id => r = q
      BY <3>1, <3>2 DEF NewRow, LogInv, RowsAreOne
    <3> QED
      BY <3>3, <3>4 DEF RowsAreMeant, RowsAreOne
  <2> QED
    BY <2>1, <2>2 DEF RowsMove
<1>6. CASE stream' = stream
  <2>2. ASSUME NEW i \in 1..h, NEW s, NEW p, CompletionIsMeant(i, s, p)
        PROVE  CompletionIsMeant(i, s, p)'
    <3>1. i - 1 \in 0..h
      BY <1>3
    <3> QED
      BY <1>2, <2>2, <3>1 DEF Stands, CompletionIsMeant
  <2>3. CompletionsAreMeant'
    <3>1. HeadSeq' = h
      BY <1>6 DEF HeadSeq
    <3> QED
      BY <1>6, <2>2, <3>1 DEF LogInv, CompletionsAreMeant
  <2> QED
    BY <1>2, <1>5, <2>3
<1>7. CASE \E e : Grows(e) /\ Legal(e)
  <2>1. PICK e : Grows(e) /\ Legal(e)
    BY <1>7
  <2>2. HeadSeq' = h + 1 /\ stream'[h + 1] = e /\ \A i \in 1..h : stream'[i] = stream[i]
    BY <2>1, OneMore DEF LogInv, StreamIsMeant, SamePast
  <2>4. CompletionsAreMeant'
    <3> SUFFICES ASSUME NEW i \in 1..(h + 1), NEW s, NEW p,
                        stream'[i].type = "rotation_completed",
                        stream'[i].session = s, stream'[i].about = p
                 PROVE  CompletionIsMeant(i, s, p)'
      BY <2>2 DEF CompletionsAreMeant
    <3>1. CASE i \in 1..h
      <4>1. CompletionIsMeant(i, s, p) /\ i - 1 \in 0..h
        BY <1>3, <2>2, <3>1 DEF LogInv, CompletionsAreMeant
      <4> QED
        BY <1>2, <4>1 DEF Stands, CompletionIsMeant
    <3>2. CASE i = h + 1
      <4>1. i - 1 = h /\ h \in 0..h
        BY <1>3, <3>2
      <4>2. s \in briefed /\ s \in Bound(p) /\ Status(p) = "closed"
        BY <2>1, <2>2, <3>2 DEF Legal
      <4>3. s \in BoundIn(p, h)' /\ CoreStatus(p, h)' = "closed"
        BY <1>2, <4>1, <4>2 DEF Stands, Bound, Status
      <4> QED
        BY <4>1, <4>2, <4>3 DEF CompletionIsMeant
    <3> QED
      BY <1>3, <3>1, <3>2
  <2> QED
    BY <1>2, <1>5, <2>4
<1> QED
  BY <1>6, <1>7 DEF StreamMoves

(* ... and one that neither opens a Session nor resumes the Attempt keeps  *)
(* the worker what it is.                                                  *)
QuietStream ==
    stream' = stream \/ \E e : Grows(e) /\ Legal(e) /\ e.type \notin {"opened", "attempt"}

LEMMA QuietSteps ==
    ASSUME LogInv, QuietStream, RowsMove, briefed \subseteq briefed'
    PROVE  LogInv' /\ Worker' = Worker /\ Attempts(HeadSeq)' = Attempts(HeadSeq)
<1>1. PICK h : h = HeadSeq
  OBVIOUS
<1>2. StreamMoves
  BY DEF QuietStream, StreamMoves
<1>3. /\ Stands(h) /\ StreamIsMeant'
      /\ RowsAreMeant' /\ RowsAreOne' /\ CompletionsAreMeant'
  BY <1>1, <1>2, RecordsKept
<1>4. /\ Worker' = Worker /\ Attempts(HeadSeq)' = Attempts(HeadSeq)
      /\ \A s : Status(s)' = "opened" => Status(s) = "opened"
      /\ \A a \in Attempts(HeadSeq) : stream'[a] = stream[a]
  <2>1. CASE stream' = stream
    BY <2>1 DEF Worker, Latest, Attempts, HeadSeq, Status, CoreStatus
  <2>2. CASE \E e : Grows(e) /\ Legal(e) /\ e.type \notin {"opened", "attempt"}
    <3>1. PICK e : Grows(e) /\ Legal(e) /\ e.type \notin {"opened", "attempt"}
      BY <2>2
    <3>2. \A i \in 1..h : stream'[i] = stream[i]
      BY <1>3 DEF Stands, SamePast
    <3>3. \A s : Status(s)' = IF e.session = s /\ e.type \in CoreEvents THEN e.type
                              ELSE Status(s)
      BY <1>1, <3>1, StatusGrows DEF LogInv, StreamIsMeant
    <3>4. Worker' = Worker /\ Attempts(HeadSeq)' = Attempts(HeadSeq)
      BY <1>1, <3>1, AttemptsGrow DEF LogInv
    <3> QED
      BY <1>1, <3>1, <3>2, <3>3, <3>4 DEF Attempts
  <2> QED
    BY <2>1, <2>2 DEF QuietStream
<1>5. \A m, s : AttemptIn(m, s)' <=> AttemptIn(m, s)
  BY <1>4 DEF AttemptIn
<1>6. PICK k, w : k = Worker.ordinal /\ w = Worker.session
  OBVIOUS
<1>7. Worker.ordinal' = k /\ Worker.session' = w
  BY <1>4, <1>6
<1>8. Chain'
  <2>1. k \in Nat /\ AttemptIn(k, w) /\ \A m \in 1..k : \E s : AttemptIn(m, s)
    BY <1>6 DEF LogInv, Chain
  <2>2. /\ \A a \in Attempts(HeadSeq)' : stream'[a].about \in 1..k
        /\ \A a, b \in Attempts(HeadSeq)' : stream'[a].about = stream'[b].about => a = b
    BY <1>4, <1>6 DEF LogInv, Chain
  <2>3. AttemptIn(Worker.ordinal, Worker.session)'
    <3>1. AttemptIn(k, w)'
      BY <1>5, <2>1
    <3> QED
      BY <1>7, <3>1 DEF AttemptIn
  <2>4. \A m \in 1..k : \E s : AttemptIn(m, s)'
    BY <1>5, <2>1
  <2> QED
    BY <1>7, <2>1, <2>2, <2>3, <2>4 DEF Chain
<1>9. WorkersWereOpened'
  BY <1>3, <1>5 DEF LogInv, WorkersWereOpened, Stands
<1>10. WorkersExist'
  BY <1>3, <1>5 DEF LogInv, WorkersExist, Stands
<1>11. OpenIsTheWorker'
  <2>1. \A s : Status(s)' = "opened" => s = w \/ OpenedAfter(k, s)'
    BY <1>3, <1>4, <1>6 DEF LogInv, OpenIsTheWorker, Stands
  <2> QED
    BY <1>7, <2>1 DEF OpenIsTheWorker, OpenedAfter, OpenId
<1> QED
  BY <1>3, <1>4, <1>8, <1>9, <1>10, <1>11 DEF LogInv

(* The Session that is to follow the worker is opened: nobody has done so  *)
(* before, and the worker is no longer OPEN.                               *)
LEMMA OpeningSteps ==
    ASSUME LogInv, NEW m \in Nat, NEW source, NEW s, NEW row,
           Grows(Event("opened", s, 0)), Status(s) = "none",
           AttemptIn(m, source), Status(source) # "opened",
           NewRow(row), row.command_id = OpenId(m), row.answer.ok,
           row.fingerprint.intent.session = s,
           briefed \subseteq briefed'
    PROVE  LogInv' /\ Worker' = Worker /\ Attempts(HeadSeq)' = Attempts(HeadSeq)
<1> DEFINE e == Event("opened", s, 0)
<1>1. PICK h : h = HeadSeq
  OBVIOUS
<1>2. e.type = "opened" /\ e.session = s /\ Legal(e)
  BY DEF Event, Legal
<1>3. StreamMoves /\ RowsMove
  BY <1>2 DEF StreamMoves, RowsMove
<1>4. /\ Stands(h) /\ StreamIsMeant'
      /\ RowsAreMeant' /\ RowsAreOne' /\ CompletionsAreMeant'
  BY <1>1, <1>3, RecordsKept
<1>5. /\ Worker' = Worker /\ Attempts(HeadSeq)' = Attempts(HeadSeq)
      /\ \A t : Status(t)' = IF t = s THEN "opened" ELSE Status(t)
      /\ \A a \in Attempts(HeadSeq) : stream'[a] = stream[a]
  <2>1. \A i \in 1..h : stream'[i] = stream[i]
    BY <1>4 DEF Stands, SamePast
  <2>2. \A t : Status(t)' = IF e.session = t /\ e.type \in CoreEvents THEN e.type
                            ELSE Status(t)
    <3> HIDE DEF e
    <3> QED
      BY <1>1, <1>2, StatusGrows DEF LogInv, StreamIsMeant, e
  <2>3. Worker' = Worker /\ Attempts(HeadSeq)' = Attempts(HeadSeq)
    <3> HIDE DEF e
    <3> QED
      BY <1>1, <1>2, AttemptsGrow DEF LogInv, e
  <2> QED
    BY <1>1, <1>2, <2>1, <2>2, <2>3 DEF Attempts, CoreEvents
<1>6. \A k, t : AttemptIn(k, t)' <=> AttemptIn(k, t)
  BY <1>5 DEF AttemptIn
<1>7. PICK k, w : k = Worker.ordinal /\ w = Worker.session
  OBVIOUS
<1>8. Worker.ordinal' = k /\ Worker.session' = w
  BY <1>5, <1>7
<1>9. k \in Nat /\ AttemptIn(k, w) /\ \A i \in 1..k : \E t : AttemptIn(i, t)
  BY <1>7 DEF LogInv, Chain
<1>10. \A t : ~OpenedAfter(m, t)
  BY DEF NewRow, OpenedAfter
<1>11. m = k
  <2>1. m \in 1..k
    BY <1>7 DEF LogInv, Chain, AttemptIn
  <2>2. CASE m < k
    <3>1. m + 1 \in 1..k /\ m > 0
      BY <1>9, <2>1, <2>2
    <3>2. PICK t : AttemptIn(m + 1, t)
      BY <1>9, <3>1
    <3> QED
      BY <1>10, <3>1, <3>2 DEF LogInv, WorkersWereOpened
  <2> QED
    BY <1>9, <2>1, <2>2
<1>12. source = w
  BY <1>9, <1>11 DEF LogInv, Chain, AttemptIn
<1>13. \A t : Status(t) # "opened"
  BY <1>7, <1>10, <1>11, <1>12 DEF LogInv, OpenIsTheWorker
<1>14. OpenedAfter(m, s)'
  BY DEF NewRow, OpenedAfter, OpenId
<1>15. Chain'
  <2>1. /\ \A a \in Attempts(HeadSeq)' : stream'[a].about \in 1..k
        /\ \A a, b \in Attempts(HeadSeq)' : stream'[a].about = stream'[b].about => a = b
    BY <1>5, <1>7 DEF LogInv, Chain
  <2>2. AttemptIn(Worker.ordinal, Worker.session)'
    <3>1. AttemptIn(k, w)'
      BY <1>6, <1>9
    <3> QED
      BY <1>8, <3>1 DEF AttemptIn
  <2>3. \A i \in 1..k : \E t : AttemptIn(i, t)'
    BY <1>6, <1>9
  <2> QED
    BY <1>8, <1>9, <2>1, <2>2, <2>3 DEF Chain
<1>16. WorkersWereOpened'
  BY <1>4, <1>6 DEF LogInv, WorkersWereOpened, Stands
<1>17. WorkersExist'
  BY <1>4, <1>6 DEF LogInv, WorkersExist, Stands
<1>18. OpenIsTheWorker'
  <2>1. \A t : Status(t)' = "opened" => t = w \/ OpenedAfter(k, t)'
    BY <1>5, <1>11, <1>13, <1>14
  <2> QED
    BY <1>8, <2>1 DEF OpenIsTheWorker, OpenedAfter, OpenId
<1> QED
  BY <1>4, <1>5, <1>15, <1>16, <1>17, <1>18 DEF LogInv

(* The Attempt is resumed in the Session that was opened to follow it.     *)
LEMMA ResumingSteps ==
    ASSUME LogInv, NEW s, NEW k, k = Worker.ordinal,
           Grows(Event("attempt", s, k + 1)), Status(s) = "opened",
           \E t : OpenedAfter(k, t), RowsMove, briefed \subseteq briefed'
    PROVE  LogInv'
<1> DEFINE e == Event("attempt", s, k + 1)
<1>1. PICK h : h = HeadSeq
  OBVIOUS
<1>2. e.type = "attempt" /\ e.session = s /\ e.about = k + 1 /\ Legal(e)
  BY DEF Event, Legal
<1>3. StreamMoves
  BY <1>2 DEF StreamMoves
<1>4. /\ Stands(h) /\ StreamIsMeant'
      /\ RowsAreMeant' /\ RowsAreOne' /\ CompletionsAreMeant'
  BY <1>1, <1>3, RecordsKept
<1>5. /\ Worker' = [session |-> s, ordinal |-> k + 1]
      /\ Attempts(HeadSeq)' = Attempts(HeadSeq) \cup {h + 1}
      /\ \A t : Status(t)' = Status(t)
      /\ stream'[h + 1].about = k + 1 /\ stream'[h + 1].session = s
      /\ \A a \in Attempts(HeadSeq) : stream'[a] = stream[a] /\ a # h + 1
  <2>1. (\A i \in 1..h : stream'[i] = stream[i]) /\ stream'[h + 1] = e /\ h \in Nat
    BY <1>1, OneMore DEF LogInv, StreamIsMeant, SamePast
  <2>2. \A t : Status(t)' = IF e.session = t /\ e.type \in CoreEvents THEN e.type
                            ELSE Status(t)
    <3> HIDE DEF e
    <3> QED
      BY <1>1, <1>2, StatusGrows DEF LogInv, StreamIsMeant, e
  <2>3. /\ Attempts(HeadSeq)' = Attempts(HeadSeq) \cup {h + 1}
        /\ Worker' = [session |-> e.session, ordinal |-> e.about]
    <3> HIDE DEF e
    <3> QED
      BY <1>1, <1>2, AttemptsGrow DEF LogInv, e
  <2>4. \A a \in Attempts(HeadSeq) : a \in 1..h /\ a # h + 1
    BY <1>1, <2>1 DEF Attempts
  <2> QED
    BY <1>2, <2>1, <2>2, <2>3, <2>4 DEF CoreEvents
<1>6. /\ k \in Nat /\ AttemptIn(k, Worker.session)
      /\ \A i \in 1..k : \E t : AttemptIn(i, t)
      /\ \A a \in Attempts(HeadSeq) : stream[a].about \in 1..k
      /\ \A a, b \in Attempts(HeadSeq) : stream[a].about = stream[b].about => a = b
  BY DEF LogInv, Chain
<1>7. \A i, t : AttemptIn(i, t)' <=> AttemptIn(i, t) \/ (i = k + 1 /\ t = s)
  BY <1>5 DEF AttemptIn
<1>8. \A i, t : AttemptIn(i, t) => i \in 1..k
  BY <1>6 DEF AttemptIn
<1>9. OpenedAfter(k, s) /\ \A t : OpenedAfter(k, t) => t = s
  <2>1. PICK row \in rows : row.command_id = OpenId(k) /\ row.answer.ok
    BY DEF OpenedAfter
  <2>2. RowIsMeant(row) /\ \A r \in rows : r.command_id = OpenId(k) => r = row
    BY <2>1 DEF LogInv, RowsAreMeant, RowsAreOne
  <2>3. PICK t : AttemptIn(k, t) /\ Over(Status(t))
    BY <1>6, <2>1, <2>2 DEF RowIsMeant
  <2>4. t = Worker.session
    BY <1>6, <2>3 DEF AttemptIn
  <2>5. OpenedAfter(k, s)
    BY <2>3, <2>4 DEF LogInv, OpenIsTheWorker, Over
  <2> QED
    BY <2>2, <2>5 DEF OpenedAfter
<1>10. Worker.ordinal' = k + 1 /\ Worker.session' = s
  BY <1>5
<1>11. Chain'
  <2>1. /\ \A a \in Attempts(HeadSeq)' : stream'[a].about \in 1..(k + 1)
        /\ \A a, b \in Attempts(HeadSeq)' : stream'[a].about = stream'[b].about => a = b
    <3>1. k + 1 \in Nat /\ k + 1 \in 1..(k + 1) /\ k + 1 \notin 1..k
          /\ \A i \in 1..k : i \in 1..(k + 1)
      BY <1>6
    <3> QED
      BY <1>5, <1>6, <3>1
  <2>2. AttemptIn(Worker.ordinal, Worker.session)'
    <3>1. AttemptIn(k + 1, s)'
      BY <1>7
    <3> QED
      BY <1>10, <3>1 DEF AttemptIn
  <2>3. \A i \in 1..(k + 1) : \E t : AttemptIn(i, t)'
    <3>1. \A i \in 1..(k + 1) : i = k + 1 \/ i \in 1..k
      BY <1>6
    <3> QED
      BY <1>6, <1>7, <3>1
  <2>4. k + 1 \in Nat
    BY <1>6
  <2> QED
    BY <1>10, <2>1, <2>2, <2>3, <2>4 DEF Chain
<1>12. WorkersWereOpened'
  <2> SUFFICES ASSUME NEW i \in Nat, NEW t, i > 0, AttemptIn(i + 1, t)'
               PROVE  OpenedAfter(i, t)'
    BY DEF WorkersWereOpened
  <2>1. CASE AttemptIn(i + 1, t)
    BY <1>4, <2>1 DEF LogInv, WorkersWereOpened, Stands
  <2>2. CASE i + 1 = k + 1 /\ t = s
    <3>1. i = k
      BY <1>6, <2>2
    <3> QED
      BY <1>4, <1>9, <2>2, <3>1 DEF Stands
  <2> QED
    BY <1>7, <2>1, <2>2
<1>13. WorkersExist'
  BY <1>5, <1>7 DEF LogInv, WorkersExist
<1>14. OpenIsTheWorker'
  <2>1. \A t : Status(t)' = "opened" => t = s
    <3> SUFFICES ASSUME NEW t, Status(t) = "opened" PROVE t = s
      BY <1>5
    <3>1. t = Worker.session \/ OpenedAfter(k, t)
      BY DEF LogInv, OpenIsTheWorker
    <3>2. s = Worker.session \/ OpenedAfter(k, s)
      BY <1>9
    <3>3. PICK row \in rows : row.command_id = OpenId(k) /\ row.answer.ok
      BY DEF OpenedAfter
    <3>4. PICK u : AttemptIn(k, u) /\ Over(Status(u))
      BY <1>6, <3>3 DEF LogInv, RowsAreMeant, RowIsMeant
    <3>5. u = Worker.session
      BY <1>6, <3>4 DEF AttemptIn
    <3>6. t # Worker.session
      BY <3>4, <3>5 DEF Over
    <3> QED
      BY <1>9, <3>1, <3>6
  <2> QED
    BY <1>10, <2>1 DEF OpenIsTheWorker
<1> QED
  BY <1>4, <1>11, <1>12, <1>13, <1>14 DEF LogInv

-----------------------------------------------------------------------------
(* The callers.                                                            *)

(* A caller goes on with what it knows; the others go on knowing theirs.   *)
LEMMA CallsMove ==
    ASSUME CallsInv, NEW h \in Nat, h = HeadSeq, Stands(h),
           NEW c \in Callers, NEW ph, NEW j, Goto(c, ph, j), Knows(ph, j)'
    PROVE  CallsInv'
<1>1. DOMAIN phase = Callers /\ DOMAIN job = Callers
  BY DEF CallsInv
<1>2. /\ DOMAIN phase' = Callers /\ phase' = [d \in Callers |-> phase'[d]]
      /\ phase'[c] = ph /\ \A d \in Callers : d # c => phase'[d] = phase[d]
  BY <1>1 DEF Goto
<1>3. /\ DOMAIN job' = Callers /\ job' = [d \in Callers |-> job'[d]]
      /\ job'[c] = j /\ \A d \in Callers : d # c => job'[d] = job[d]
  BY <1>1 DEF Goto
<1>4. ASSUME NEW d \in Callers PROVE Knows(phase[d], job[d])'
  <2>1. CASE d = c
    <3>1. phase'[d] = ph /\ job'[d] = j
      BY <1>2, <1>3, <2>1
    <3> QED
      BY <3>1 DEF Knows
  <2>2. CASE d # c
    <3>1. PICK q, k : q = phase[d] /\ k = job[d]
      OBVIOUS
    <3>2. Knows(q, k)'
      BY <3>1, KnowledgeStands DEF CallsInv
    <3>3. phase'[d] = q /\ job'[d] = k
      BY <1>2, <1>3, <2>2, <3>1
    <3> QED
      BY <3>2, <3>3 DEF Knows
  <2> QED
    BY <2>1, <2>2
<1> QED
  BY <1>2, <1>3, <1>4 DEF CallsInv

LEMMA CallerLeaves ==
    ASSUME CallsInv, NEW h \in Nat, h = HeadSeq, Stands(h), NEW c \in Callers, Leave(c)
    PROVE  CallsInv'
<1>1. Knows("idle", NoJob)'
  BY DEF Knows, IsJob, NoJob, Phases, Chosen, Binding, Closing
<1> QED
  BY <1>1, CallsMove DEF Leave

(* A step that leaves the Mission alone.                                   *)
LEMMA MissionStays ==
    ASSUME LogInv, UNCHANGED log, briefed \subseteq briefed'
    PROVE  /\ LogInv' /\ HeadSeq' = HeadSeq /\ Stands(HeadSeq)
           /\ \A s, n : CoreStatus(s, n)' = CoreStatus(s, n)
           /\ \A p, n : BoundIn(p, n)' = BoundIn(p, n)
           /\ \A m, s : AttemptIn(m, s)' <=> AttemptIn(m, s)
           /\ \A m, s : OpenedAfter(m, s)' <=> OpenedAfter(m, s)
<1>1. stream' = stream /\ rows' = rows
  BY DEF log
<1>2. LogInv'
  BY <1>1, QuietSteps DEF QuietStream, RowsMove
<1>3. HeadSeq' = HeadSeq
  BY <1>1 DEF HeadSeq
<1>4. PICK h : h = HeadSeq
  OBVIOUS
<1>5. Stands(h)
  BY <1>1, <1>4, MissionMoves DEF StreamMoves, LogInv
<1>6. Stands(HeadSeq)
  BY <1>4, <1>5
<1>7. /\ \A s, n : CoreStatus(s, n)' = CoreStatus(s, n)
      /\ \A p, n : BoundIn(p, n)' = BoundIn(p, n)
  BY <1>1 DEF CoreStatus, BoundIn, Of
<1>8. /\ \A m, s : AttemptIn(m, s)' <=> AttemptIn(m, s)
      /\ \A m, s : OpenedAfter(m, s)' <=> OpenedAfter(m, s)
  BY <1>1 DEF AttemptIn, Attempts, HeadSeq, OpenedAfter, OpenId
<1> QED
  BY <1>2, <1>3, <1>6, <1>7, <1>8

(* What must be so for a caller to go on from a command answered at seq.   *)
Entitles(ph, j, seq) ==
    /\ seq \in 0..HeadSeq
    /\ ph = "transition" => CoreStatus(j.source, seq) # "opened"
    /\ ph = "opening" => \E s : OpenedAfter(j.ordinal, s)
    /\ ph = "bind" => j.successor \in Bound(j.predecessor)
    /\ ph = "close" => Status(j.predecessor) = "closed"

LEMMA EntitledGoOn ==
    ASSUME NEW ph, NEW j, Knows(ph, j)', NEW seq, Entitles(ph, j, seq)',
           ph \in DOMAIN After, ph # "complete"
    PROVE  Knows(After[ph], [j EXCEPT !.cursor = seq, !.sending = FALSE])'
<1>1. PICK k : k = [j EXCEPT !.cursor = seq, !.sending = FALSE]
  OBVIOUS
<1>2. /\ IsJob(k) /\ k.sending = FALSE /\ k.cursor = seq
      /\ k.predecessor = j.predecessor /\ k.source = j.source /\ k.ordinal = j.ordinal
      /\ k.successor = j.successor /\ k.mode = j.mode
  BY <1>1 DEF Knows, IsJob
<1>3. \/ ph = "rotation" /\ After[ph] = "provisioning"
      \/ ph = "provision" /\ After[ph] = "recheck"
      \/ ph = "transition" /\ After[ph] = "opening"
      \/ ph = "opening" /\ After[ph] = "resuming"
      \/ ph = "resuming" /\ After[ph] = "context"
      \/ ph = "bind" /\ After[ph] = "closing"
      \/ ph = "close" /\ After[ph] = "delete"
  BY DEF After
<1>4. PICK q : q = After[ph]
  OBVIOUS
<1>5. q \in Phases
  BY <1>3, <1>4 DEF Phases, After
<1>6. Knows(q, k)'
  <2>1. q \in Chosen => k.ordinal \in Nat /\ AttemptIn(k.ordinal, k.source)'
    BY <1>2, <1>3, <1>4 DEF Knows, Chosen
  <2>2. q # "transition"
    BY <1>3, <1>4
  <2>3. q = "opening" => /\ k.mode \in Modes /\ k.cursor \in 0..HeadSeq'
                         /\ CoreStatus(k.source, k.cursor)' # "opened"
    BY <1>2, <1>3, <1>4 DEF Knows, Entitles, Modes
  <2>4. q = "resuming" => \E s : OpenedAfter(k.ordinal, s)'
    BY <1>2, <1>3, <1>4 DEF Entitles
  <2>5. q \in Binding \cup Closing => k.successor \in briefed'
    BY <1>2, <1>3, <1>4 DEF Knows, Binding, Closing
  <2>6. q \in Closing => k.successor \in Bound(k.predecessor)'
    BY <1>2, <1>3, <1>4 DEF Knows, Entitles, Closing
  <2>7. q \in {"delete", "complete"} => Status(k.predecessor)' = "closed"
    BY <1>2, <1>3, <1>4 DEF Entitles
  <2> QED
    BY <1>2, <1>5, <2>1, <2>2, <2>3, <2>4, <2>5, <2>6, <2>7 DEF Knows, IsJob
<1> QED
  BY <1>1, <1>4, <1>6

-----------------------------------------------------------------------------
(* The commands.                                                           *)

(* The command a caller with job j is about to send at ph, by its id.      *)
IsFor(id, ph, j) ==
    /\ ph = "transition" => id = <<"operation", j.ordinal + 1, j.mode>>
    /\ ph = "opening" => id = OpenId(j.ordinal)
    /\ ph = "bind" => id = <<"provision", j.predecessor, "BIND", j.successor>>
    /\ ph = "close" => id = <<"rotation", j.predecessor, "CLOSE">>

(* What it sends.                                                          *)
IsRequest(request, ph, j) ==
    LET p == j.predecessor
        facts == request.facts
    IN  /\ IsFor(request.id, ph, j)
        /\ ph = "rotation" => /\ request.id = <<"rotation", p, "REQUEST">>
                              /\ facts = << Event("rotation_requested", NoSession, p) >>
        /\ ph = "provision" => /\ request.id = <<"provision", p, "REQUEST">>
                               /\ facts = << Event("provision_requested", NoSession, p) >>
        /\ ph = "transition" =>
              facts = IF j.mode = "SUSPEND"
                      THEN MoveFacts(j.source, {"opened"}, "suspended")
                      ELSE MoveFacts(j.source, {"opened", "suspended"}, "closed")
        /\ ph = "opening" => /\ request.intent = [session |-> j.successor, mode |-> j.mode]
                             /\ facts = MoveFacts(j.successor, {"none"}, "opened")
        /\ ph = "resuming" =>
              /\ request.id = <<"operation", j.ordinal + 1, "RESUME">>
              /\ facts = IF Resumable(j, HeadSeq)
                         THEN << Event("attempt", j.successor, j.ordinal + 1) >> ELSE << >>
        /\ ph = "bind" => facts = << Event("provision_bound", j.successor, p) >>
        /\ ph = "close" => facts = MoveFacts(p, {"opened", "suspended"}, "closed")
        /\ ph = "complete" => /\ request.id = <<"rotation", p, "COMPLETE", j.successor>>
                              /\ facts = << Event("rotation_completed", j.successor, p) >>

LEMMA CommandIs ==
    ASSUME NEW c, NEW ph, ph = phase[c], ph \in DOMAIN After, NEW j, j = job[c],
           NEW request, request = CommandOf(c)
    PROVE  IsRequest(request, ph, j)
<1>1. ph \in {"rotation", "provision", "transition", "opening", "resuming", "bind",
              "close", "complete"}
  BY DEF After
<1>2. CASE ph = "rotation"
  BY <1>2 DEF CommandOf, Request, IsFor, IsRequest
<1>3. CASE ph = "provision"
  BY <1>3 DEF CommandOf, Request, IsFor, IsRequest
<1>4. CASE ph = "transition"
  BY <1>4 DEF CommandOf, Request, IsFor, IsRequest, OperationId
<1>5. CASE ph = "opening"
  BY <1>5 DEF CommandOf, Request, IsFor, IsRequest, OperationId, OpenId
<1>6. CASE ph = "resuming"
  BY <1>6 DEF CommandOf, Request, IsFor, IsRequest, OperationId
<1>7. CASE ph = "bind"
  BY <1>7 DEF CommandOf, Request, IsFor, IsRequest
<1>8. CASE ph = "close"
  BY <1>8 DEF CommandOf, Request, IsFor, IsRequest
<1>9. CASE ph = "complete"
  BY <1>9 DEF CommandOf, Request, IsFor, IsRequest
<1> QED
  BY <1>1, <1>2, <1>3, <1>4, <1>5, <1>6, <1>7, <1>8, <1>9

(* A command on record that was accepted entitles whoever sends it again   *)
(* to go on.                                                               *)
LEMMA RecordEntitles ==
    ASSUME LogInv', NEW ph, NEW j, Knows(ph, j)', NEW row \in rows',
           IsFor(row.command_id, ph, j), row.answer.ok
    PROVE  Entitles(ph, j, row.answer.last_seq)'
<1>1. RowIsMeant(row)'
  BY DEF LogInv, RowsAreMeant
<1>2. row.answer.last_seq \in 0..HeadSeq'
  BY <1>1 DEF RowIsMeant
<1>3. ASSUME ph = "transition"
      PROVE  CoreStatus(j.source, row.answer.last_seq)' # "opened"
  <2>1. j.ordinal \in Nat /\ AttemptIn(j.ordinal, j.source)' /\ j.mode \in Moves
    BY <1>3 DEF Knows, Chosen
  <2>2. PICK s : AttemptIn(j.ordinal, s)' /\ CoreStatus(s, row.answer.last_seq)' # "opened"
    BY <1>1, <1>3, <2>1 DEF RowIsMeant, IsFor
  <2>3. s = j.source
    BY <2>1, <2>2 DEF LogInv, Chain, AttemptIn
  <2> QED
    BY <2>2, <2>3
<1>4. ASSUME ph = "opening" PROVE \E s : OpenedAfter(j.ordinal, s)'
  BY <1>4 DEF IsFor, OpenedAfter, OpenId
<1>5. ASSUME ph = "bind" PROVE j.successor \in Bound(j.predecessor)'
  BY <1>1, <1>5 DEF RowIsMeant, IsFor
<1>6. ASSUME ph = "close" PROVE Status(j.predecessor)' = "closed"
  BY <1>1, <1>6 DEF RowIsMeant, IsFor
<1> QED
  BY <1>2, <1>3, <1>4, <1>5, <1>6 DEF Entitles

(* What becomes of a command that is sent.                                 *)
LEMMA SendOutcomes ==
    ASSUME NEW c, Send(c), NEW j, j = job[c], NEW h, h = HeadSeq,
           NEW request, request = CommandOf(c),
           NEW cmd, cmd = Command(request.id, NoKey, j.cursor, request.intent)
    PROVE  /\ briefed' = briefed /\ j.sending
           /\ \/ /\ UNCHANGED log
                 /\ \/ Leave(c)
                    \/ \E row \in rows : /\ row.command_id = request.id /\ row.answer.ok
                                         /\ Proceed(c, row.answer.last_seq)
              \/ \E code : /\ \A r \in rows : r.command_id # request.id
                           /\ rows' = rows \cup {Row(cmd, Rejected(code))}
                           /\ stream' = stream /\ Leave(c)
              \/ /\ \A r \in rows : r.command_id # request.id
                 /\ j.cursor = h /\ request.facts # << >>
                 /\ rows' = rows \cup {Row(cmd, Accepted(h + Len(request.facts)))}
                 /\ stream' = stream \o request.facts
                 /\ Proceed(c, h + Len(request.facts))
<1> DEFINE answer == Answer(cmd, request.facts, "REFUSED")
<1>1. /\ briefed' = briefed /\ job[c].sending
      /\ Execute(cmd, request.facts, "REFUSED")
      /\ IF answer.ok THEN Proceed(c, answer.last_seq) ELSE Leave(c)
  BY DEF Send, world
<1>2. KeyOwners(cmd) = {} /\ cmd.command_id = request.id /\ cmd.expected_seq = job[c].cursor
  BY DEF KeyOwners, Command
<1>3. \A code : Rejected(code).ok = FALSE
  BY DEF Rejected
<1>4. CASE Known(cmd) # {}
  <2>1. UNCHANGED log
    BY <1>1, <1>4 DEF Execute
  <2>2. PICK row : row = CHOOSE r \in Known(cmd) : TRUE
    OBVIOUS
  <2>3. row \in rows /\ row.command_id = request.id
    BY <1>2, <1>4, <2>2 DEF Known
  <2>4. answer = IF row.fingerprint = Fingerprint(cmd) THEN row.answer
                 ELSE Rejected("COMMAND_ID_CONFLICT")
    BY <1>4, <2>2 DEF Answer, StoredAnswer
  <2>5. CASE row.fingerprint = Fingerprint(cmd)
    <3>1. answer = row.answer
      BY <2>4, <2>5
    <3> QED
      BY <1>1, <2>1, <2>3, <3>1
  <2>6. CASE row.fingerprint # Fingerprint(cmd)
    <3>1. Leave(c)
      BY <1>1, <1>3, <2>4, <2>6
    <3> QED
      BY <1>1, <2>1, <3>1
  <2> QED
    BY <2>5, <2>6
<1>5. CASE Known(cmd) = {}
  <2>1. \A r \in rows : r.command_id # request.id
    BY <1>2, <1>5 DEF Known
  <2>2. /\ rows' = rows \cup {Row(cmd, answer)}
        /\ stream' = IF answer.ok THEN stream \o request.facts ELSE stream
    BY <1>1, <1>2, <1>5 DEF Execute
  <2>3. answer = IF cmd.expected_seq # HeadSeq THEN Rejected("EXPECTED_SEQ_MISMATCH")
                 ELSE IF request.facts = << >> THEN Rejected("REFUSED")
                 ELSE Accepted(HeadSeq + Len(request.facts))
    BY <1>2, <1>5 DEF Answer
  <2>4. CASE cmd.expected_seq # HeadSeq \/ request.facts = << >>
    <3>1. PICK code : answer = Rejected(code)
      BY <2>3, <2>4
    <3> HIDE DEF answer
    <3> QED
      BY <1>1, <1>3, <2>1, <2>2, <3>1
  <2>5. CASE ~(cmd.expected_seq # HeadSeq \/ request.facts = << >>)
    <3>1. answer = Accepted(HeadSeq + Len(request.facts))
      BY <2>3, <2>5
    <3>2. answer.ok = TRUE /\ answer.last_seq = HeadSeq + Len(request.facts)
      BY <3>1 DEF Accepted
    <3> HIDE DEF answer
    <3> QED
      BY <1>1, <1>2, <2>1, <2>2, <2>5, <3>1, <3>2
  <2> QED
    BY <2>4, <2>5
<1> QED
  BY <1>4, <1>5

-----------------------------------------------------------------------------
(* A command that is answered for the first time.                          *)

(* The ids of what a command may mean are those of the commands that mean  *)
(* it.                                                                     *)
IsIdAt(id, ph, j) ==
    /\ IsFor(id, ph, j)
    /\ ph = "rotation" => id = <<"rotation", j.predecessor, "REQUEST">>
    /\ ph = "provision" => id = <<"provision", j.predecessor, "REQUEST">>
    /\ ph = "resuming" => id = <<"operation", j.ordinal + 1, "RESUME">>
    /\ ph = "complete" => id = <<"rotation", j.predecessor, "COMPLETE", j.successor>>

LEMMA IdsDiffer ==
    ASSUME NEW ph \in DOMAIN After, NEW j, NEW id, IsIdAt(id, ph, j),
           ph \in Chosen => j.ordinal \in Nat, ph = "transition" => j.mode \in Moves
    PROVE  /\ \A m \in Nat : id = OpenId(m) => ph = "opening" /\ m = j.ordinal
           /\ \A m \in Nat, mode \in Moves : id = <<"operation", m + 1, mode>> =>
                 ph = "transition" /\ m = j.ordinal
           /\ \A p : id = <<"rotation", p, "CLOSE">> => ph = "close" /\ p = j.predecessor
           /\ \A p, s : id = <<"provision", p, "BIND", s>> =>
                 ph = "bind" /\ p = j.predecessor /\ s = j.successor
<1>1. ph \in {"rotation", "provision", "transition", "opening", "resuming", "bind",
              "close", "complete"}
  BY DEF After
<1>2. CASE ph = "rotation"
  BY <1>2 DEF IsIdAt, OpenId, Moves
<1>3. CASE ph = "provision"
  BY <1>3 DEF IsIdAt, OpenId, Moves
<1>4. CASE ph = "transition"
  BY <1>4 DEF IsIdAt, IsFor, OpenId, Moves, Chosen
<1>5. CASE ph = "opening"
  BY <1>5 DEF IsIdAt, IsFor, OpenId, Moves, Chosen
<1>6. CASE ph = "resuming"
  BY <1>6 DEF IsIdAt, OpenId, Moves
<1>7. CASE ph = "bind"
  BY <1>7 DEF IsIdAt, IsFor, OpenId, Moves
<1>8. CASE ph = "close"
  BY <1>8 DEF IsIdAt, IsFor, OpenId, Moves
<1>9. CASE ph = "complete"
  BY <1>9 DEF IsIdAt, OpenId, Moves
<1> QED
  BY <1>1, <1>2, <1>3, <1>4, <1>5, <1>6, <1>7, <1>8, <1>9

(* One that is refused means nothing but the mode it bears.                *)
LEMMA RefusalIsMeant ==
    ASSUME NEW ph \in DOMAIN After, NEW j, Knows(ph, j), NEW row, ~row.answer.ok,
           IsIdAt(row.command_id, ph, j),
           ph = "opening" => row.fingerprint.intent.mode = j.mode
    PROVE  RowIsMeant(row)'
<1>1. /\ ph \in Chosen => j.ordinal \in Nat
      /\ ph = "transition" => j.mode \in Moves
      /\ ph = "opening" => j.mode \in Modes
  BY DEF Knows
<1>2. \A m \in Nat : row.command_id = OpenId(m) => ph = "opening"
  BY <1>1, IdsDiffer
<1> QED
  BY <1>1, <1>2 DEF RowIsMeant, OpenId

(* The event of one that is accepted, and that it is legal.                *)
IsFact(e, ph, j) ==
    /\ ph = "rotation" => e = Event("rotation_requested", NoSession, j.predecessor)
    /\ ph = "provision" => e = Event("provision_requested", NoSession, j.predecessor)
    /\ ph = "transition" => e.session = j.source /\ e.type \in {"suspended", "closed"}
    /\ ph = "opening" => e = Event("opened", j.successor, 0)
    /\ ph = "resuming" => /\ e = Event("attempt", j.successor, j.ordinal + 1)
                          /\ Resumable(j, HeadSeq)
    /\ ph = "bind" => e = Event("provision_bound", j.successor, j.predecessor)
    /\ ph = "close" => e = Event("closed", j.predecessor, 0)
    /\ ph = "complete" => e = Event("rotation_completed", j.successor, j.predecessor)

LEMMA FactsAreLegal ==
    ASSUME LogInv, NEW c, NEW ph, ph = phase[c], ph \in DOMAIN After, NEW j, j = job[c],
           Knows(ph, j), j.sending, j.cursor = HeadSeq,
           NEW request, request = CommandOf(c), request.facts # << >>
    PROVE  \E e : request.facts = <<e>> /\ Legal(e) /\ IsFact(e, ph, j)
<1>1. ph \in {"rotation", "provision", "transition", "opening", "resuming", "bind",
              "close", "complete"}
  BY DEF After
<1>0. IsRequest(request, ph, j)
  BY CommandIs
<1>2. CASE ph = "rotation"
  <2>1. PICK e : e = Event("rotation_requested", NoSession, j.predecessor)
    OBVIOUS
  <2>2. e.type = "rotation_requested" /\ e.session = NoSession /\ e.about = j.predecessor
    BY <2>1 DEF Event
  <2>3. request.facts = <<e>>
    BY <1>0, <1>2, <2>1 DEF IsRequest
  <2>4. Legal(e)
    BY <1>2, <2>2 DEF Legal
  <2>5. IsFact(e, ph, j)
    BY <1>2, <2>1, <2>2, <2>3 DEF IsFact
  <2> QED
    BY <2>3, <2>4, <2>5
<1>3. CASE ph = "provision"
  <2>1. PICK e : e = Event("provision_requested", NoSession, j.predecessor)
    OBVIOUS
  <2>2. e.type = "provision_requested" /\ e.session = NoSession /\ e.about = j.predecessor
    BY <2>1 DEF Event
  <2>3. request.facts = <<e>>
    BY <1>0, <1>3, <2>1 DEF IsRequest
  <2>4. Legal(e)
    BY <1>3, <2>2 DEF Legal
  <2>5. IsFact(e, ph, j)
    BY <1>3, <2>1, <2>2, <2>3 DEF IsFact
  <2> QED
    BY <2>3, <2>4, <2>5
<1>4. CASE ph = "transition"
  <2>1. request.facts = IF j.mode = "SUSPEND"
                        THEN MoveFacts(j.source, {"opened"}, "suspended")
                        ELSE MoveFacts(j.source, {"opened", "suspended"}, "closed")
    BY <1>0, <1>4 DEF IsRequest
  <2>2. CASE j.mode = "SUSPEND"
    <3>1. PICK e : e = Event("suspended", j.source, 0)
      OBVIOUS
    <3>2. e.type = "suspended" /\ e.session = j.source
      BY <3>1 DEF Event
    <3>3. request.facts = <<e>> /\ Status(j.source) \in {"opened"}
      BY <2>1, <2>2, <3>1 DEF MoveFacts, Status
    <3>4. Legal(e)
      BY <3>2, <3>3 DEF Legal
    <3>5. IsFact(e, ph, j)
      BY <1>4, <3>2 DEF IsFact
    <3> QED
      BY <3>3, <3>4, <3>5
  <2>3. CASE j.mode # "SUSPEND"
    <3>1. PICK e : e = Event("closed", j.source, 0)
      OBVIOUS
    <3>2. e.type = "closed" /\ e.session = j.source
      BY <3>1 DEF Event
    <3>3. request.facts = <<e>> /\ Status(j.source) \in {"opened", "suspended"}
      BY <2>1, <2>3, <3>1 DEF MoveFacts, Status
    <3>4. Legal(e)
      BY <3>2, <3>3 DEF Legal
    <3>5. IsFact(e, ph, j)
      BY <1>4, <3>2 DEF IsFact
    <3> QED
      BY <3>3, <3>4, <3>5
  <2> QED
    BY <2>2, <2>3
<1>5. CASE ph = "opening"
  <2>1. PICK e : e = Event("opened", j.successor, 0)
    OBVIOUS
  <2>2. e.type = "opened" /\ e.session = j.successor /\ e.about = 0
    BY <2>1 DEF Event
  <2>3. request.facts = <<e>> /\ Status(j.successor) = "none"
    BY <1>0, <1>5, <2>1 DEF IsRequest, MoveFacts, Status
  <2>4. Legal(e)
    BY <1>5, <2>2, <2>3 DEF Legal
  <2>5. IsFact(e, ph, j)
    BY <1>5, <2>1, <2>2, <2>3 DEF IsFact
  <2> QED
    BY <2>3, <2>4, <2>5
<1>6. CASE ph = "resuming"
  <2>1. PICK e : e = Event("attempt", j.successor, j.ordinal + 1)
    OBVIOUS
  <2>2. e.type = "attempt" /\ e.session = j.successor /\ e.about = j.ordinal + 1
    BY <2>1 DEF Event
  <2>3. request.facts = <<e>> /\ Resumable(j, HeadSeq)
    BY <1>0, <1>6, <2>1 DEF IsRequest
  <2>4. Legal(e)
    BY <1>6, <2>2 DEF Legal
  <2>5. IsFact(e, ph, j)
    BY <1>6, <2>1, <2>2, <2>3 DEF IsFact
  <2> QED
    BY <2>3, <2>4, <2>5
<1>7. CASE ph = "bind"
  <2>1. PICK e : e = Event("provision_bound", j.successor, j.predecessor)
    OBVIOUS
  <2>2. e.type = "provision_bound" /\ e.session = j.successor /\ e.about = j.predecessor
    BY <2>1 DEF Event
  <2>3. request.facts = <<e>>
    BY <1>0, <1>7, <2>1 DEF IsRequest
  <2>4. Legal(e)
    BY <2>2 DEF Legal
  <2>5. IsFact(e, ph, j)
    BY <1>7, <2>1, <2>2, <2>3 DEF IsFact
  <2> QED
    BY <2>3, <2>4, <2>5
<1>8. CASE ph = "close"
  <2>1. PICK e : e = Event("closed", j.predecessor, 0)
    OBVIOUS
  <2>2. e.type = "closed" /\ e.session = j.predecessor /\ e.about = 0
    BY <2>1 DEF Event
  <2>3. request.facts = <<e>> /\ Status(j.predecessor) \in {"opened", "suspended"}
    BY <1>0, <1>8, <2>1 DEF IsRequest, MoveFacts, Status
  <2>4. Legal(e)
    BY <1>8, <2>2, <2>3 DEF Legal
  <2>5. IsFact(e, ph, j)
    BY <1>8, <2>1, <2>2, <2>3 DEF IsFact
  <2> QED
    BY <2>3, <2>4, <2>5
<1>9. CASE ph = "complete"
  <2>1. PICK e : e = Event("rotation_completed", j.successor, j.predecessor)
    OBVIOUS
  <2>2. e.type = "rotation_completed" /\ e.session = j.successor /\ e.about = j.predecessor
    BY <2>1 DEF Event
  <2>3. request.facts = <<e>>
    BY <1>0, <1>9, <2>1 DEF IsRequest
  <2>4. Legal(e)
    BY <1>9, <2>2 DEF Legal, Knows, Binding, Closing
  <2>5. IsFact(e, ph, j)
    BY <1>9, <2>1, <2>2, <2>3 DEF IsFact
  <2> QED
    BY <2>3, <2>4, <2>5
<1> QED
  BY <1>1, <1>2, <1>3, <1>4, <1>5, <1>6, <1>7, <1>8, <1>9

(* ... and the command that is accepted means what its event is.           *)
LEMMA AcceptanceIsMeant ==
    ASSUME LogInv, NEW h \in Nat, h = HeadSeq, Stands(h), NEW e, Grows(e),
           NEW ph \in DOMAIN After, NEW j, Knows(ph, j), j.cursor = h, IsFact(e, ph, j),
           NEW row, row.answer.last_seq = h + 1, IsIdAt(row.command_id, ph, j),
           ph = "opening" => row.fingerprint.intent.mode = j.mode
    PROVE  RowIsMeant(row)'
<1>1. /\ ph \in Chosen => j.ordinal \in Nat /\ AttemptIn(j.ordinal, j.source)
      /\ ph = "transition" => j.mode \in Moves
      /\ ph = "opening" => j.mode \in Modes /\ CoreStatus(j.source, h) # "opened"
  BY DEF Knows
<1>2. HeadSeq' = h + 1
  BY OneMore DEF LogInv, StreamIsMeant
<1>3. \A s : Status(s)' = IF e.session = s /\ e.type \in CoreEvents THEN e.type ELSE Status(s)
  BY StatusGrows DEF LogInv, StreamIsMeant
<1>4. row.answer.last_seq \in 0..HeadSeq'
  BY <1>2
<1>5. ASSUME NEW m \in Nat, row.command_id = OpenId(m)
      PROVE  /\ row.fingerprint.intent.mode \in Modes
             /\ \E s : AttemptIn(m, s)' /\ Over(Status(s)')
  <2>1. ph = "opening" /\ m = j.ordinal
    BY <1>1, <1>5, IdsDiffer
  <2>2. ph \in Chosen
    BY <2>1 DEF Chosen
  <2>3. Status(j.source) # "opened" /\ Status(j.source) # "none"
    BY <1>1, <2>1, <2>2 DEF Status, LogInv, WorkersExist
  <2>4. Over(Status(j.source)') /\ AttemptIn(m, j.source)'
    BY <1>1, <2>1, <2>2, <2>3 DEF Stands, Over
  <2> QED
    BY <1>1, <2>1, <2>4
<1>6. ASSUME NEW m \in Nat, NEW mode \in Moves, row.command_id = <<"operation", m + 1, mode>>
      PROVE  \E s : AttemptIn(m, s)' /\ CoreStatus(s, row.answer.last_seq)' # "opened"
  <2>1. ph = "transition" /\ m = j.ordinal
    BY <1>1, <1>6, IdsDiffer
  <2>2. ph \in Chosen
    BY <2>1 DEF Chosen
  <2>3. e.session = j.source /\ e.type \in {"suspended", "closed"}
    BY <2>1 DEF IsFact
  <2>4. Status(j.source)' # "opened"
    BY <1>3, <2>3 DEF CoreEvents
  <2>5. CoreStatus(j.source, h + 1)' # "opened"
    BY <1>2, <2>4 DEF Status
  <2>6. AttemptIn(m, j.source)'
    BY <1>1, <2>1, <2>2 DEF Stands
  <2> QED
    BY <2>5, <2>6
<1>7. ASSUME NEW p, row.command_id = <<"rotation", p, "CLOSE">> PROVE Status(p)' = "closed"
  <2>1. ph = "close" /\ p = j.predecessor
    BY <1>1, <1>7, IdsDiffer
  <2>2. e.type = "closed" /\ e.session = p
    BY <2>1 DEF IsFact, Event
  <2> QED
    BY <1>3, <2>2 DEF CoreEvents
<1>8. ASSUME NEW p, NEW s, row.command_id = <<"provision", p, "BIND", s>>
      PROVE  s \in Bound(p)'
  <2>1. ph = "bind" /\ p = j.predecessor /\ s = j.successor
    BY <1>1, <1>8, IdsDiffer
  <2>2. e.type = "provision_bound" /\ e.about = p /\ e.session = s
    BY <2>1 DEF IsFact, Event
  <2>3. Bound(p)' = IF e.type = "provision_bound" /\ e.about = p
                    THEN Bound(p) \cup {e.session} ELSE Bound(p)
    BY BindingsGrow DEF LogInv, StreamIsMeant
  <2> QED
    BY <2>2, <2>3
<1> QED
  BY <1>4, <1>5, <1>6, <1>7, <1>8 DEF RowIsMeant, OpenId

(* Who finds its command on record goes on, or returns after the last.     *)
LEMMA ProceedKeeps ==
    ASSUME LogInv', CallsInv, NEW h \in Nat, h = HeadSeq, Stands(h), NEW c \in Callers,
           NEW ph, ph = phase[c], ph \in DOMAIN After, NEW j, j = job[c],
           NEW row \in rows', row.answer.ok, IsFor(row.command_id, ph, j),
           Proceed(c, row.answer.last_seq)
    PROVE  CallsInv'
<1>1. CASE ph = "complete"
  <2>1. Leave(c)
    BY <1>1 DEF Proceed
  <2> QED
    BY <2>1, CallerLeaves
<1>2. CASE ph # "complete"
  <2>1. Goto(c, After[ph], [j EXCEPT !.cursor = row.answer.last_seq, !.sending = FALSE])
    BY <1>2 DEF Proceed
  <2>2. Knows(ph, j)'
    BY KnowledgeStands DEF CallsInv
  <2>3. Entitles(ph, j, row.answer.last_seq)'
    BY <2>2, RecordEntitles
  <2>4. PICK k, q : /\ k = [j EXCEPT !.cursor = row.answer.last_seq, !.sending = FALSE]
                    /\ q = After[ph]
    OBVIOUS
  <2>5. PICK seq : seq = row.answer.last_seq
    OBVIOUS
  <2>6. Knows(After[ph], [j EXCEPT !.cursor = seq, !.sending = FALSE])'
    BY <1>2, <2>2, <2>3, <2>5, EntitledGoOn
  <2>7. Knows(q, k)'
    BY <2>4, <2>5, <2>6
  <2> QED
    BY <2>1, <2>4, <2>7, CallsMove
<1> QED
  BY <1>1, <1>2

(* A command is answered.                                                  *)
LEMMA AcceptanceKeeps ==
    ASSUME LogInv, NEW h \in Nat, h = HeadSeq, briefed' = briefed,
           NEW ph \in DOMAIN After, NEW j, Knows(ph, j), j.cursor = h,
           NEW e, Grows(e), Legal(e), IsFact(e, ph, j),
           NEW row, rows' = rows \cup {row}, \A r \in rows : r.command_id # row.command_id,
           row.answer.ok, row.answer.last_seq = h + 1, IsIdAt(row.command_id, ph, j),
           ph = "opening" =>
              row.fingerprint.intent = [session |-> j.successor, mode |-> j.mode]
    PROVE  LogInv' /\ Stands(h)
<1>1. Stands(h)
  BY MissionMoves DEF StreamMoves, LogInv
<1>2. NewRow(row)
  <2>1. ph = "opening" => row.fingerprint.intent.mode = j.mode
    OBVIOUS
  <2>2. RowIsMeant(row)'
    BY <1>1, <2>1, AcceptanceIsMeant
  <2> QED
    BY <2>2 DEF NewRow
<1>3. RowsMove /\ briefed \subseteq briefed'
  BY <1>2 DEF RowsMove
<1>4. CASE ph = "opening"
  <2>1. j.ordinal \in Nat /\ AttemptIn(j.ordinal, j.source) /\ Status(j.source) # "opened"
    BY <1>4 DEF Knows, Chosen, Status
  <2>2. e = Event("opened", j.successor, 0) /\ Status(j.successor) = "none"
    BY <1>4 DEF IsFact, Legal, Event
  <2>3. Grows(Event("opened", j.successor, 0))
    BY <2>2
  <2>4. row.command_id = OpenId(j.ordinal) /\ row.fingerprint.intent.session = j.successor
    BY <1>4 DEF IsIdAt, IsFor
  <2>5. LogInv'
    BY <1>2, <1>3, <2>1, <2>2, <2>3, <2>4, OpeningSteps
  <2> QED
    BY <1>1, <2>5
<1>5. CASE ph = "resuming"
  <2>1. /\ e = Event("attempt", j.successor, j.ordinal + 1)
        /\ Status(j.successor) = "opened" /\ j.ordinal = Worker.ordinal
    BY <1>5 DEF IsFact, Resumable, Status, Worker
  <2>2. \E s : OpenedAfter(j.ordinal, s)
    BY <1>5 DEF Knows
  <2>3. Grows(Event("attempt", j.successor, j.ordinal + 1))
    BY <2>1
  <2>4. PICK k : k = j.ordinal
    OBVIOUS
  <2>5. LogInv'
    BY <1>3, <2>1, <2>2, <2>3, <2>4, ResumingSteps
  <2> QED
    BY <1>1, <2>5
<1>6. CASE ph \notin {"opening", "resuming"}
  <2>1. e.type \notin {"opened", "attempt"}
    BY <1>6 DEF IsFact, Event, After
  <2>2. LogInv'
    BY <1>3, <2>1, QuietSteps DEF QuietStream
  <2> QED
    BY <1>1, <2>2
<1> QED
  BY <1>4, <1>5, <1>6

LEMMA SendKeeps ==
    ASSUME RInv, NEW c \in Callers, Send(c)
    PROVE  RInv'
<1>1. PICK j, ph, h : j = job[c] /\ ph = phase[c] /\ h = HeadSeq
  OBVIOUS
<1>2. PICK request : request = CommandOf(c)
  OBVIOUS
<1>3. PICK cmd : cmd = Command(request.id, NoKey, j.cursor, request.intent)
  OBVIOUS
<1>4. LogInv /\ CallsInv /\ h \in Nat
  BY <1>1 DEF RInv, LogInv, StreamIsMeant
<1>5. /\ briefed' = briefed /\ j.sending
      /\ \/ /\ UNCHANGED log
            /\ \/ Leave(c)
               \/ \E row \in rows : /\ row.command_id = request.id /\ row.answer.ok
                                    /\ Proceed(c, row.answer.last_seq)
         \/ \E code : /\ \A r \in rows : r.command_id # request.id
                      /\ rows' = rows \cup {Row(cmd, Rejected(code))}
                      /\ stream' = stream /\ Leave(c)
         \/ /\ \A r \in rows : r.command_id # request.id
            /\ j.cursor = h /\ request.facts # << >>
            /\ rows' = rows \cup {Row(cmd, Accepted(h + Len(request.facts)))}
            /\ stream' = stream \o request.facts
            /\ Proceed(c, h + Len(request.facts))
  BY <1>1, <1>2, <1>3, SendOutcomes
<1>6. Knows(ph, j) /\ ph \in DOMAIN After
  BY <1>1, <1>4, <1>5 DEF CallsInv, Knows
<1>7. IsRequest(request, ph, j)
  BY <1>1, <1>2, <1>6, CommandIs
<1>8. IsFor(request.id, ph, j) /\ IsIdAt(request.id, ph, j)
  BY <1>7 DEF IsRequest, IsIdAt
<1>9. \A answer : /\ Row(cmd, answer).command_id = request.id
                  /\ Row(cmd, answer).answer = answer
                  /\ Row(cmd, answer).fingerprint.intent = request.intent
  BY <1>3 DEF Row, Fingerprint, Command
<1>10. ph = "opening" => request.intent = [session |-> j.successor, mode |-> j.mode]
  BY <1>7 DEF IsRequest
<1>11. CASE /\ UNCHANGED log
            /\ \/ Leave(c)
               \/ \E row \in rows : /\ row.command_id = request.id /\ row.answer.ok
                                    /\ Proceed(c, row.answer.last_seq)
  <2>1. LogInv' /\ Stands(h)
    BY <1>1, <1>4, <1>5, <1>11, MissionStays
  <2>2. CASE Leave(c)
    BY <1>1, <1>4, <2>1, <2>2, CallerLeaves DEF RInv
  <2>3. CASE \E row \in rows : /\ row.command_id = request.id /\ row.answer.ok
                               /\ Proceed(c, row.answer.last_seq)
    <3>1. PICK row \in rows : /\ row.command_id = request.id /\ row.answer.ok
                              /\ Proceed(c, row.answer.last_seq)
      BY <2>3
    <3>2. row \in rows'
      BY <1>11 DEF log
    <3> QED
      BY <1>1, <1>4, <1>6, <1>8, <2>1, <3>1, <3>2, ProceedKeeps DEF RInv
  <2> QED
    BY <1>11, <2>2, <2>3
<1>12. CASE \E code : /\ \A r \in rows : r.command_id # request.id
                      /\ rows' = rows \cup {Row(cmd, Rejected(code))}
                      /\ stream' = stream /\ Leave(c)
  <2>1. PICK code : /\ \A r \in rows : r.command_id # request.id
                    /\ rows' = rows \cup {Row(cmd, Rejected(code))}
                    /\ stream' = stream /\ Leave(c)
    BY <1>12
  <2>2. PICK row : row = Row(cmd, Rejected(code))
    OBVIOUS
  <2>3. /\ row.command_id = request.id /\ row.fingerprint.intent = request.intent
        /\ ~row.answer.ok
    BY <1>9, <2>2 DEF Rejected
  <2>4. ph = "opening" => row.fingerprint.intent.mode = j.mode
    BY <1>10, <2>3
  <2>5. RowIsMeant(row)'
    BY <1>6, <1>8, <2>3, <2>4, RefusalIsMeant
  <2>6. RowsMove /\ QuietStream /\ StreamMoves /\ rows \subseteq rows'
    BY <2>1, <2>2, <2>3, <2>5 DEF RowsMove, NewRow, QuietStream, StreamMoves
  <2>7. LogInv'
    BY <1>4, <1>5, <2>6, QuietSteps
  <2>8. Stands(h)
    BY <1>1, <1>4, <1>5, <2>6, MissionMoves DEF LogInv
  <2> QED
    BY <1>1, <1>4, <2>1, <2>7, <2>8, CallerLeaves DEF RInv
<1>13. CASE /\ \A r \in rows : r.command_id # request.id
            /\ j.cursor = h /\ request.facts # << >>
            /\ rows' = rows \cup {Row(cmd, Accepted(h + Len(request.facts)))}
            /\ stream' = stream \o request.facts
            /\ Proceed(c, h + Len(request.facts))
  <2>1. PICK e : request.facts = <<e>> /\ Legal(e) /\ IsFact(e, ph, j)
    BY <1>1, <1>2, <1>4, <1>5, <1>6, <1>13, FactsAreLegal
  <2>2. Len(request.facts) = 1
    BY <2>1
  <2>3. PICK row : row = Row(cmd, Accepted(h + 1))
    OBVIOUS
  <2>4. /\ row.command_id = request.id /\ row.fingerprint.intent = request.intent
        /\ row.answer.ok /\ row.answer.last_seq = h + 1
    BY <1>9, <2>3 DEF Accepted
  <2>5. Grows(e)
    BY <1>4, <1>13, <2>1, AppendedStream DEF Grows, LogInv, StreamIsMeant
  <2>6. LogInv' /\ Stands(h)
    <3>1. /\ rows' = rows \cup {row} /\ j.cursor = h
          /\ \A r \in rows : r.command_id # row.command_id
      BY <1>13, <2>2, <2>3, <2>4
    <3>2. /\ IsIdAt(row.command_id, ph, j)
          /\ ph = "opening" =>
                row.fingerprint.intent = [session |-> j.successor, mode |-> j.mode]
      BY <1>8, <1>10, <2>4
    <3>3. briefed' = briefed
      BY <1>5
    <3> QED
      BY <1>1, <1>4, <1>6, <2>1, <2>4, <2>5, <3>1, <3>2, <3>3, AcceptanceKeeps
  <2>7. row \in rows' /\ Proceed(c, row.answer.last_seq)
    BY <1>13, <2>2, <2>3, <2>4
  <2> QED
    BY <1>1, <1>4, <1>6, <1>8, <2>4, <2>6, <2>7, ProceedKeeps DEF RInv
<1> QED
  BY <1>5, <1>11, <1>12, <1>13

-----------------------------------------------------------------------------
(* The other steps of a call.                                              *)

(* A step that only goes on, or returns, with the Mission as it was.       *)
LEMMA CallerGoesOn ==
    ASSUME RInv, UNCHANGED log, briefed \subseteq briefed', NEW c \in Callers,
           NEW ph, NEW j, Goto(c, ph, j), Knows(ph, j)'
    PROVE  RInv'
<1>1. PICK h : h = HeadSeq
  OBVIOUS
<1>2. LogInv' /\ Stands(h) /\ h \in Nat
  BY <1>1, MissionStays DEF RInv, LogInv, StreamIsMeant
<1>3. CallsInv'
  BY <1>1, <1>2, CallsMove DEF RInv
<1> QED
  BY <1>2, <1>3 DEF RInv

LEMMA CallerReturns ==
    ASSUME RInv, UNCHANGED log, briefed \subseteq briefed', NEW c \in Callers, Leave(c)
    PROVE  RInv'
<1>1. PICK h : h = HeadSeq
  OBVIOUS
<1>2. LogInv' /\ Stands(h) /\ h \in Nat
  BY <1>1, MissionStays DEF RInv, LogInv, StreamIsMeant
<1>3. CallsInv'
  BY <1>1, <1>2, CallerLeaves DEF RInv
<1> QED
  BY <1>2, <1>3 DEF RInv

(* What was known before such a step is known after it.                    *)
LEMMA KnowledgeStays ==
    ASSUME RInv, UNCHANGED log, briefed \subseteq briefed', NEW ph, NEW j, Knows(ph, j)
    PROVE  Knows(ph, j)'
<1>1. PICK h : h = HeadSeq
  OBVIOUS
<1>2. Stands(h) /\ h \in Nat
  BY <1>1, MissionStays DEF RInv, LogInv, StreamIsMeant
<1> QED
  BY <1>1, <1>2, KnowledgeStands

LEMMA BeginKeeps ==
    ASSUME RInv, NEW c \in Callers, Begin(c)
    PROVE  RInv'
<1>1. UNCHANGED log /\ briefed \subseteq briefed'
  BY DEF Begin, world
<1>2. ASSUME NEW p, NEW ph \in {"provisioning", "rotation"},
             Goto(c, ph, [NoJob EXCEPT !.predecessor = p])
      PROVE  RInv'
  <2>1. PICK j : j = [NoJob EXCEPT !.predecessor = p]
    OBVIOUS
  <2>2. IsJob(j) /\ j.sending = FALSE
    BY <2>1 DEF NoJob, IsJob
  <2>3. Knows(ph, j)'
    BY <2>2 DEF Knows, IsJob, Phases, Chosen, Binding, Closing, After
  <2> QED
    BY <1>1, <1>2, <2>1, <2>3, CallerGoesOn
<1>3. \E p : \/ Goto(c, "provisioning", [NoJob EXCEPT !.predecessor = p])
             \/ Goto(c, "rotation", [NoJob EXCEPT !.predecessor = p])
  BY DEF Begin
<1> QED
  BY <1>2, <1>3

LEMMA LastBound ==
    ASSUME StreamIsMeant, NEW p, BoundTo(p, HeadSeq) # NoSession
    PROVE  BoundTo(p, HeadSeq) \in Bound(p)
<1>1. PICK S, n : S = Of("provision_bound", p, HeadSeq) /\ n = HeadSeq
  OBVIOUS
<1>2. S \subseteq 1..n /\ n \in Nat
  BY <1>1 DEF Of, StreamIsMeant
<1>3. S # {} /\ BoundTo(p, HeadSeq) = stream[Max(S)].session
  BY <1>1 DEF BoundTo
<1> QED
  BY <1>1, <1>2, <1>3, LastIsThere DEF Bound, BoundIn

IsBoundHere(j) ==
    BoundTo(j.predecessor, HeadSeq) # NoSession /\ BoundTo(j.predecessor, HeadSeq) = j.successor

LEMMA CheckEffectKeeps ==
    ASSUME RInv, NEW c \in Callers, CheckEffect(c)
    PROVE  RInv'
<1>1. UNCHANGED log /\ briefed \subseteq briefed'
  BY DEF CheckEffect, world
<1>2. PICK j, ph : j = job[c] /\ ph = phase[c]
  OBVIOUS
<1>3. Knows(ph, j)
  BY <1>2 DEF RInv, CallsInv
<1>4. \/ ph = "provisioning" /\ \E q \in {"recheck", "provision"} : Goto(c, q, j)
      \/ ph = "binding" /\ \/ Leave(c) \/ Goto(c, "bind", j)
                           \/ IsBoundHere(j) /\ Goto(c, "closing", j)
      \/ ph = "closing" /\ \/ Goto(c, "close", j)
                           \/ Status(j.predecessor) = "closed" /\ Goto(c, "delete", j)
  BY <1>2 DEF CheckEffect, Status, IsBoundHere
<1>5. ASSUME NEW q, Goto(c, q, j), Knows(q, j) PROVE RInv'
  BY <1>1, <1>5, KnowledgeStays, CallerGoesOn
<1>6. CASE ph = "provisioning"
  <2>1. \A q \in {"recheck", "provision"} : Knows(q, j)
    BY <1>3, <1>6 DEF Knows, Phases, Chosen, Binding, Closing, After
  <2> QED
    BY <1>4, <1>5, <1>6, <2>1
<1>7. CASE ph = "binding"
  <2>1. Knows("bind", j)
    BY <1>3, <1>7 DEF Knows, Phases, Chosen, Binding, Closing, After
  <2>2. ASSUME IsBoundHere(j) PROVE Knows("closing", j)
    <3>1. j.successor \in Bound(j.predecessor)
      BY <2>2, LastBound DEF IsBoundHere, RInv, LogInv
    <3> QED
      BY <1>3, <1>7, <3>1 DEF Knows, Phases, Chosen, Binding, Closing, After
  <2> QED
    BY <1>1, <1>4, <1>5, <1>7, <2>1, <2>2, CallerReturns
<1>8. CASE ph = "closing"
  <2>1. Knows("close", j) /\ (Status(j.predecessor) = "closed" => Knows("delete", j))
    BY <1>3, <1>8 DEF Knows, Phases, Chosen, Binding, Closing, After
  <2> QED
    BY <1>4, <1>5, <1>8, <2>1
<1> QED
  BY <1>4, <1>6, <1>7, <1>8

LEMMA ReadHeadKeeps ==
    ASSUME RInv, NEW c \in Callers, ReadHead(c)
    PROVE  RInv'
<1>1. UNCHANGED log /\ briefed \subseteq briefed'
  BY DEF ReadHead, world
<1>2. PICK j, ph, k : /\ j = job[c] /\ ph = phase[c]
                      /\ k = [j EXCEPT !.cursor = HeadSeq, !.sending = TRUE]
  OBVIOUS
<1>3. /\ Knows(ph, j) /\ ph \in {"rotation", "provision", "bind", "close", "complete"}
      /\ Goto(c, ph, k)
  BY <1>2 DEF ReadHead, RInv, CallsInv
<1>4. IsJob(k) /\ k.predecessor = j.predecessor /\ k.successor = j.successor
  BY <1>2, <1>3 DEF Knows, IsJob
<1>5. ph \notin Chosen /\ ph \in DOMAIN After /\ ph \in Phases
  BY <1>3 DEF Chosen, After, Phases
<1>6. Knows(ph, k)
  BY <1>3, <1>4, <1>5 DEF Knows, Chosen, Closing
<1> QED
  BY <1>1, <1>3, <1>6, KnowledgeStays, CallerGoesOn

LEMMA RecheckKeeps ==
    ASSUME RInv, NEW c \in Callers, Recheck(c)
    PROVE  RInv'
<1>1. UNCHANGED log /\ briefed \subseteq briefed'
  BY DEF Recheck, world
<1>2. PICK j : j = job[c]
  OBVIOUS
<1>3. phase[c] = "recheck" /\ Knows("recheck", j)
  BY <1>2 DEF Recheck, RInv, CallsInv
<1>4. IsJob(j) /\ ~j.sending
  BY <1>3 DEF Knows, After
<1>5. \/ Leave(c) \/ Goto(c, "listing", j)
      \/ \E s : Goto(c, "context", [j EXCEPT !.successor = s])
  BY <1>2 DEF Recheck
<1>6. CASE Goto(c, "listing", j)
  <2>1. Knows("listing", j)'
    BY <1>4 DEF Knows, IsJob, Phases, Chosen, Binding, Closing
  <2> QED
    BY <1>1, <1>6, <2>1, CallerGoesOn
<1>7. CASE \E s : Goto(c, "context", [j EXCEPT !.successor = s])
  <2>1. PICK s, k : Goto(c, "context", k) /\ k = [j EXCEPT !.successor = s]
    BY <1>7
  <2>2. IsJob(k) /\ k.sending = j.sending
    BY <1>4, <2>1 DEF IsJob
  <2>3. Knows("context", k)'
    BY <1>4, <2>2 DEF Knows, IsJob, Phases, Chosen, Binding, Closing
  <2> QED
    BY <1>1, <2>1, <2>3, CallerGoesOn
<1> QED
  BY <1>1, <1>5, <1>6, <1>7, CallerReturns

(* The source is read from the latest Attempt.                             *)
LEMMA ListKeeps ==
    ASSUME RInv, NEW c \in Callers, List(c)
    PROVE  RInv'
<1>1. UNCHANGED log /\ briefed \subseteq briefed'
  BY DEF List, world
<1>2. PICK j, w, m : j = job[c] /\ w = Worker.session /\ m = Worker.ordinal
  OBVIOUS
<1>3. phase[c] = "listing" /\ Knows("listing", j)
  BY <1>2 DEF List, RInv, CallsInv
<1>4. IsJob(j) /\ ~j.sending
  BY <1>3 DEF Knows, After
<1>5. m \in Nat /\ AttemptIn(m, w)
  BY <1>2 DEF RInv, LogInv, Chain
<1>6. PICK k : k = [j EXCEPT !.source = w, !.ordinal = m]
  OBVIOUS
<1>7. IsJob(k) /\ k.sending = j.sending /\ k.source = w /\ k.ordinal = m
  BY <1>4, <1>6 DEF IsJob
<1>8. \/ Leave(c) \/ Goto(c, "creating", k)
      \/ \E s : Goto(c, "deciding", [k EXCEPT !.successor = s])
  BY <1>2, <1>6 DEF List, Worker
<1>9. CASE Goto(c, "creating", k)
  <2>1. Knows("creating", k)
    BY <1>4, <1>5, <1>7 DEF Knows, IsJob, Phases, Chosen, Binding, Closing
  <2> QED
    BY <1>1, <1>9, <2>1, KnowledgeStays, CallerGoesOn
<1>10. CASE \E s : Goto(c, "deciding", [k EXCEPT !.successor = s])
  <2>1. PICK s, l : Goto(c, "deciding", l) /\ l = [k EXCEPT !.successor = s]
    BY <1>10
  <2>2. IsJob(l) /\ l.sending = k.sending /\ l.source = w /\ l.ordinal = m
    BY <1>7, <2>1 DEF IsJob
  <2>3. Knows("deciding", l)
    BY <1>4, <1>5, <1>7, <2>2 DEF Knows, IsJob, Phases, Chosen, Binding, Closing
  <2> QED
    BY <1>1, <2>1, <2>3, KnowledgeStays, CallerGoesOn
<1> QED
  BY <1>1, <1>8, <1>9, <1>10, CallerReturns

LEMMA CreateKeeps ==
    ASSUME RInv, NEW c \in Callers, Create(c)
    PROVE  RInv'
<1>1. UNCHANGED log /\ briefed \subseteq briefed'
  BY DEF Create
<1>2. PICK j, k : j = job[c] /\ k = [j EXCEPT !.successor = created + 1]
  OBVIOUS
<1>3. phase[c] = "creating" /\ Knows("creating", j) /\ Goto(c, "deciding", k)
  BY <1>2 DEF Create, RInv, CallsInv
<1>4. /\ IsJob(j) /\ ~j.sending
      /\ j.ordinal \in Nat /\ AttemptIn(j.ordinal, j.source)
  BY <1>3 DEF Knows, After, Chosen
<1>5. IsJob(k) /\ k.sending = j.sending /\ k.source = j.source /\ k.ordinal = j.ordinal
  BY <1>2, <1>4 DEF IsJob
<1>6. Knows("deciding", k)
  BY <1>4, <1>5 DEF Knows, IsJob, Phases, Chosen, Binding, Closing
<1> QED
  BY <1>1, <1>3, <1>6, KnowledgeStays, CallerGoesOn

(* The mode is one of the three, whatever it is taken from; without a move *)
(* to make, the predecessor is not OPEN.                                   *)
LEMMA DecideKeeps ==
    ASSUME RInv, NEW c \in Callers, Decide(c)
    PROVE  RInv'
<1>1. UNCHANGED log /\ briefed \subseteq briefed'
  BY DEF Decide, world
<1>2. PICK j, h : j = job[c] /\ h = HeadSeq
  OBVIOUS
<1>3. phase[c] = "deciding" /\ Knows("deciding", j)
  BY <1>2 DEF Decide, RInv, CallsInv
<1>4. /\ IsJob(j) /\ ~j.sending /\ h \in Nat /\ h \in 0..h
      /\ j.ordinal \in Nat /\ AttemptIn(j.ordinal, j.source)
  BY <1>2, <1>3 DEF Knows, After, Chosen, RInv, LogInv, StreamIsMeant
<1> DEFINE opened == Stored(OperationId(j, "OPEN"))
           moves == {m \in {"SUSPEND", "CLOSE"} : Stored(OperationId(j, m)) # {}}
           told == {row.fingerprint.intent.mode : row \in opened}
           durable == IF moves # {} THEN moves ELSE told
           status == CoreStatus(j.source, HeadSeq)
           mode == IF durable # {} THEN CHOOSE m \in durable : TRUE
                   ELSE CASE status = "opened"    -> "SUSPEND"
                          [] status = "suspended" -> "CLOSE"
                          [] OTHER                -> "ALREADY_TERMINAL"
<1>5. \/ Leave(c)
      \/ /\ durable # {"ALREADY_TERMINAL"}
         /\ Goto(c, IF mode = "ALREADY_TERMINAL" THEN "opening" ELSE "transition",
                 [j EXCEPT !.mode = mode, !.cursor = HeadSeq])
  BY <1>2 DEF Decide
<1>6. CASE Leave(c)
  BY <1>1, <1>6, CallerReturns
<1>7. CASE /\ durable # {"ALREADY_TERMINAL"}
           /\ Goto(c, IF mode = "ALREADY_TERMINAL" THEN "opening" ELSE "transition",
                   [j EXCEPT !.mode = mode, !.cursor = HeadSeq])
  <2>1. told \subseteq Modes /\ \A s, t \in told : s = t
    <3>1. \A row \in opened : row \in rows /\ row.command_id = OpenId(j.ordinal)
      BY DEF Stored, OperationId, OpenId
    <3>2. \A row \in opened : row.fingerprint.intent.mode \in Modes
      BY <1>4, <3>1 DEF RInv, LogInv, RowsAreMeant, RowIsMeant
    <3>3. \A r, q \in opened : r = q
      BY <3>1 DEF RInv, LogInv, RowsAreOne
    <3> QED
      BY <3>2, <3>3
  <2>2. durable \subseteq Modes /\ "ALREADY_TERMINAL" \notin durable
    <3>1. CASE moves # {}
      BY <3>1 DEF Modes, Moves
    <3>2. CASE moves = {}
      BY <1>7, <2>1, <3>2
    <3> QED
      BY <3>1, <3>2
  <2>3. mode \in Moves \/ (mode = "ALREADY_TERMINAL" /\ status # "opened")
    <3>1. CASE durable # {}
      <4>1. PICK D : D = durable
        OBVIOUS
      <4>2. PICK m : m = CHOOSE i \in D : TRUE
        OBVIOUS
      <4>3. mode = m
        BY <3>1, <4>1, <4>2
      <4>4. m \in D
        BY <3>1, <4>1, <4>2
      <4>5. m \in Modes /\ m # "ALREADY_TERMINAL"
        BY <2>2, <4>1, <4>4
      <4> HIDE DEF mode
      <4> QED
        BY <4>3, <4>5 DEF Modes
    <3>2. CASE durable = {}
      <4>1. mode = CASE status = "opened"    -> "SUSPEND"
                     [] status = "suspended" -> "CLOSE"
                     [] OTHER                -> "ALREADY_TERMINAL"
        BY <3>2
      <4> HIDE DEF mode, status
      <4> QED
        BY <4>1 DEF Moves
    <3> QED
      BY <3>1, <3>2
  <2>4. PICK l, k : l = mode /\ k = [j EXCEPT !.mode = l, !.cursor = h]
    OBVIOUS
  <2>5. /\ IsJob(k) /\ k.sending = j.sending /\ k.mode = l /\ k.cursor = h
        /\ k.source = j.source /\ k.ordinal = j.ordinal
    BY <1>4, <2>4 DEF IsJob
  <2>6. \/ l \in Moves /\ Goto(c, "transition", k)
        \/ l = "ALREADY_TERMINAL" /\ CoreStatus(j.source, h) # "opened" /\ Goto(c, "opening", k)
    BY <1>2, <1>7, <2>3, <2>4 DEF Moves
  <2>7. CASE l \in Moves /\ Goto(c, "transition", k)
    <3>1. Knows("transition", k)
      BY <1>4, <2>5, <2>7 DEF Knows, IsJob, Phases, Chosen, Binding, Closing, After
    <3> QED
      BY <1>1, <2>7, <3>1, KnowledgeStays, CallerGoesOn
  <2>8. CASE l = "ALREADY_TERMINAL" /\ CoreStatus(j.source, h) # "opened" /\ Goto(c, "opening", k)
    <3>1. Knows("opening", k)
      BY <1>2, <1>4, <2>5, <2>8 DEF Knows, IsJob, Phases, Chosen, Binding, Closing, After, Modes
    <3> QED
      BY <1>1, <2>8, <3>1, KnowledgeStays, CallerGoesOn
  <2> QED
    BY <2>6, <2>7, <2>8
<1> QED
  BY <1>5, <1>6, <1>7

(* A stored command is answered as it was, a new one is sent.              *)
LEMMA CheckStepKeeps ==
    ASSUME RInv, NEW c \in Callers, CheckStep(c)
    PROVE  RInv'
<1>1. UNCHANGED log /\ briefed \subseteq briefed'
  BY DEF CheckStep, world
<1>2. PICK j, ph, h : j = job[c] /\ ph = phase[c] /\ h = HeadSeq
  OBVIOUS
<1>3. PICK request : request = CommandOf(c)
  OBVIOUS
<1>4. /\ Knows(ph, j) /\ ph \in {"transition", "opening", "resuming"}
      /\ ph \in DOMAIN After /\ ph \in Phases /\ IsJob(j) /\ h \in Nat
  BY <1>2 DEF CheckStep, RInv, CallsInv, Knows, After, LogInv, StreamIsMeant
<1>5. IsFor(request.id, ph, j)
  BY <1>2, <1>3, <1>4, CommandIs DEF IsRequest
<1> DEFINE stored == Stored(CommandOf(c).id)
<1>6. \/ Leave(c)
      \/ Goto(c, ph, [j EXCEPT !.sending = TRUE])
      \/ \E row \in rows : /\ row.command_id = request.id /\ row.answer.ok
                           /\ Proceed(c, row.answer.last_seq)
  <2>1. CASE stored # {}
    <3>1. PICK row : row = CHOOSE r \in stored : TRUE
      OBVIOUS
    <3>2. row \in rows /\ row.command_id = request.id
      BY <1>3, <2>1, <3>1 DEF Stored
    <3>3. IF row.answer.ok THEN Proceed(c, row.answer.last_seq) ELSE Leave(c)
      BY <2>1, <3>1 DEF CheckStep
    <3> QED
      BY <3>2, <3>3
  <2>2. CASE stored = {}
    BY <1>2, <2>2 DEF CheckStep
  <2> QED
    BY <2>1, <2>2
<1>7. CASE Goto(c, ph, [j EXCEPT !.sending = TRUE])
  <2>1. PICK k : k = [j EXCEPT !.sending = TRUE]
    OBVIOUS
  <2>2. /\ IsJob(k) /\ k.sending = TRUE /\ k.cursor = j.cursor /\ k.mode = j.mode
        /\ k.source = j.source /\ k.ordinal = j.ordinal
    BY <1>4, <2>1 DEF IsJob
  <2>3. Knows(ph, k)
    BY <1>4, <2>2 DEF Knows, IsJob, Binding, Closing
  <2> QED
    BY <1>1, <1>7, <2>1, <2>3, KnowledgeStays, CallerGoesOn
<1>8. CASE \E row \in rows : /\ row.command_id = request.id /\ row.answer.ok
                             /\ Proceed(c, row.answer.last_seq)
  <2>1. PICK row \in rows : /\ row.command_id = request.id /\ row.answer.ok
                            /\ Proceed(c, row.answer.last_seq)
    BY <1>8
  <2>2. row \in rows'
    BY <1>1 DEF log
  <2>3. LogInv' /\ Stands(h) /\ CallsInv
    BY <1>1, <1>2, MissionStays DEF RInv
  <2> QED
    BY <1>2, <1>4, <1>5, <2>1, <2>2, <2>3, ProceedKeeps DEF RInv
<1> QED
  BY <1>1, <1>6, <1>7, <1>8, CallerReturns

LEMMA SendContextKeeps ==
    ASSUME RInv, NEW c \in Callers, SendContext(c)
    PROVE  RInv'
<1>1. PICK j : j = job[c]
  OBVIOUS
<1>2. /\ UNCHANGED log /\ briefed \subseteq briefed'
      /\ Leave(c) \/ (Goto(c, "binding", j) /\ j.successor \in briefed')
  BY <1>1 DEF SendContext
<1>3. IsJob(j) /\ ~j.sending
  BY <1>1 DEF SendContext, RInv, CallsInv, Knows, After
<1>4. CASE Goto(c, "binding", j) /\ j.successor \in briefed'
  <2>1. Knows("binding", j)'
    BY <1>3, <1>4 DEF Knows, IsJob, Phases, Chosen, Closing, After
  <2> QED
    BY <1>2, <1>4, <2>1, CallerGoesOn
<1> QED
  BY <1>2, <1>4, CallerReturns

LEMMA DeleteKeeps ==
    ASSUME RInv, NEW c \in Callers, Delete(c)
    PROVE  RInv'
<1>1. UNCHANGED log /\ briefed \subseteq briefed'
  BY DEF Delete
<1>2. PICK j : j = job[c]
  OBVIOUS
<1>3. Knows("delete", j) /\ Goto(c, "complete", j)
  BY <1>2 DEF Delete, RInv, CallsInv
<1>4. Knows("complete", j)
  BY <1>3 DEF Knows, IsJob, Phases, Chosen, Binding, Closing, After
<1> QED
  BY <1>1, <1>3, <1>4, KnowledgeStays, CallerGoesOn

(* Others close the Task's Session, or write what is no concern of it.     *)
LEMMA OthersWriteKeep ==
    ASSUME RInv, OthersWrite
    PROVE  RInv'
<1>1. PICK h : h = HeadSeq
  OBVIOUS
<1>2. rows' = rows /\ phase' = phase /\ job' = job /\ briefed' = briefed
  BY DEF OthersWrite, calls, world
<1>3. PICK type \in OtherEvents :
        /\ CASE type = "other" -> TRUE
             [] type = "task_left" -> TaskActive(HeadSeq)
             [] OTHER -> /\ ~TaskActive(HeadSeq)
                         /\ CoreStatus(Latest(HeadSeq).session, HeadSeq) \in {"opened", "suspended"}
        /\ stream' = Append(stream, IF type = "task_session_closed"
                                    THEN Event("closed", Latest(HeadSeq).session, 0)
                                    ELSE Event(type, NoSession, 0))
  BY DEF OthersWrite
<1>4. type \in {"other", "task_left", "task_session_closed"}
  BY SessionRotationAssumption DEF SessionRotationAssumption
<1>5. \E e : Grows(e) /\ Legal(e) /\ e.type \notin {"opened", "attempt"}
  <2>1. CASE type = "task_session_closed"
    <3>1. PICK s : s = Worker.session
      OBVIOUS
    <3>2. PICK e : e = Event("closed", s, 0)
      OBVIOUS
    <3>3. e.type = "closed" /\ e.session = s
      BY <3>2 DEF Event
    <3>4. Grows(e)
      BY <1>3, <2>1, <3>1, <3>2 DEF Grows, Worker
    <3>5. Status(s) \in {"opened", "suspended"}
      BY <1>3, <2>1, <3>1 DEF Status, Worker
    <3>6. Legal(e)
      BY <3>3, <3>5 DEF Legal
    <3> QED
      BY <3>3, <3>4, <3>6
  <2>2. CASE type \in {"other", "task_left"}
    <3>1. PICK e : e = Event(type, NoSession, 0)
      OBVIOUS
    <3>2. e.type = type
      BY <3>1 DEF Event
    <3>3. Grows(e)
      BY <1>3, <2>2, <3>1 DEF Grows
    <3>4. Legal(e)
      BY <2>2, <3>2 DEF Legal
    <3> QED
      BY <2>2, <3>2, <3>3, <3>4
  <2> QED
    BY <1>4, <2>1, <2>2
<1>6. QuietStream /\ StreamMoves /\ RowsMove /\ rows \subseteq rows' /\ briefed \subseteq briefed'
  BY <1>2, <1>5 DEF QuietStream, StreamMoves, RowsMove
<1>7. LogInv' /\ Stands(h) /\ h \in Nat
  BY <1>1, <1>6, QuietSteps, MissionMoves DEF RInv, LogInv, StreamIsMeant
<1>8. ASSUME NEW c \in Callers PROVE Knows(phase[c], job[c])'
  <2>1. PICK q, k : q = phase[c] /\ k = job[c]
    OBVIOUS
  <2>2. Knows(q, k)'
    BY <1>1, <1>7, <2>1, KnowledgeStands DEF RInv, CallsInv
  <2>3. phase'[c] = q /\ job'[c] = k
    BY <1>2, <2>1
  <2> QED
    BY <2>2, <2>3 DEF Knows
<1>9. CallsInv'
  BY <1>2, <1>8 DEF RInv, CallsInv
<1> QED
  BY <1>7, <1>9 DEF RInv

-----------------------------------------------------------------------------
(* The beginning: Session 1, its Attempt, what became of the Session and   *)
(* the dispatch of a successor's provision.                                *)
Harmless(e) == /\ e.type \notin {"opened", "attempt", "provision_bound",
                                  "rotation_requested", "rotation_completed"}
               /\ e.type \in CoreEvents => e.session = 1
IsBeginning(t) ==
    /\ IsStream(t) /\ Len(t) >= 2
    /\ t[1] = Event("opened", 1, 0) /\ t[2] = Event("attempt", 1, 1)
    /\ \A i \in 3..Len(t) : Harmless(t[i])

LEMMA BeginningGrows ==
    ASSUME NEW t, IsBeginning(t)
    PROVE  t \o << >> = t /\ \A e : Harmless(e) => IsBeginning(t \o <<e>>)
<1>1. IsStream(t) /\ Len(t) \in Nat /\ Len(t) >= 2
  BY StreamShape DEF IsBeginning
<1>2. t \o << >> = t
  <2>1. PICK S : t \in Seq(S)
    BY <1>1 DEF IsStream
  <2> QED
    BY <2>1
<1>3. ASSUME NEW e, Harmless(e) PROVE IsBeginning(t \o <<e>>)
  <2>1. PICK u, n : u = t \o <<e>> /\ n = Len(t)
    OBVIOUS
  <2>2. IsStream(u) /\ Len(u) = n + 1 /\ u[n + 1] = e /\ \A i \in 1..n : u[i] = t[i]
    <3>1. /\ t \o <<e>> = Append(t, e) /\ IsStream(Append(t, e))
          /\ Len(Append(t, e)) = Len(t) + 1 /\ Append(t, e)[Len(t) + 1] = e
          /\ \A i \in 1..Len(t) : Append(t, e)[i] = t[i]
      BY <1>1, AppendedStream
    <3>2. PICK v : v = Append(t, e)
      OBVIOUS
    <3>3. u = v /\ IsStream(v) /\ Len(v) = n + 1 /\ v[n + 1] = e
          /\ \A i \in 1..n : v[i] = t[i]
      BY <2>1, <3>1, <3>2
    <3> QED
      BY <3>3
  <2>3. 1 \in 1..n /\ 2 \in 1..n /\ n + 1 >= 2
    BY <1>1, <2>1
  <2>4. \A i \in 3..(n + 1) : i = n + 1 \/ (i \in 1..n /\ i \in 3..n)
    BY <1>1, <2>1
  <2>5. \A i \in 3..Len(u) : Harmless(u[i])
    BY <1>3, <2>1, <2>2, <2>4 DEF IsBeginning
  <2>6. u[1] = Event("opened", 1, 0) /\ u[2] = Event("attempt", 1, 1)
    BY <2>2, <2>3 DEF IsBeginning
  <2> QED
    BY <2>1, <2>2, <2>3, <2>5, <2>6 DEF IsBeginning
<1> QED
  BY <1>2, <1>3

LEMMA BeginningIsMeant ==
    ASSUME IsBeginning(stream), rows = {}
    PROVE  LogInv
<1>1. PICK n : n = HeadSeq
  OBVIOUS
<1>2. /\ IsStream(stream) /\ n \in Nat /\ n >= 2 /\ 1 \in 1..n /\ 2 \in 1..n
      /\ \A i \in 1..n : i = 1 \/ i = 2 \/ i \in 3..n
  BY <1>1, StreamShape DEF IsBeginning, HeadSeq
<1>3. /\ stream[1].type = "opened" /\ stream[1].session = 1
      /\ stream[2].type = "attempt" /\ stream[2].session = 1 /\ stream[2].about = 1
      /\ \A i \in 3..n : Harmless(stream[i])
  BY <1>1 DEF IsBeginning, Event, HeadSeq
<1>4. StreamIsMeant
  BY <1>1, <1>2 DEF StreamIsMeant, IsBeginning
<1>5. Attempts(HeadSeq) = {2}
  BY <1>1, <1>2, <1>3 DEF Attempts, Harmless
<1>6. Worker = [session |-> 1, ordinal |-> 1]
  <2>1. Max({2}) = 2
    <3>1. {2} \subseteq Nat /\ \A y \in {2} : 2 >= y
      OBVIOUS
    <3> QED
      BY <3>1, LastIs
  <2> QED
    BY <1>3, <1>5, <2>1 DEF Worker, Latest
<1>7. \A m, s : AttemptIn(m, s) <=> m = 1 /\ s = 1
  BY <1>3, <1>5 DEF AttemptIn
<1>8. Chain
  BY <1>3, <1>5, <1>6, <1>7 DEF Chain
<1>9. WorkersWereOpened
  <2>1. \A m \in Nat : m > 0 => m + 1 # 1
    OBVIOUS
  <2> QED
    BY <1>7, <2>1 DEF WorkersWereOpened
<1>10. \A s : Turns(s, HeadSeq) # {} => s = 1 /\ Status(s) \in CoreEvents
  <2> SUFFICES ASSUME NEW s, Turns(s, HeadSeq) # {}
               PROVE  s = 1 /\ Status(s) \in CoreEvents
    OBVIOUS
  <2>1. PICK i : i = Max(Turns(s, HeadSeq))
    OBVIOUS
  <2>2. i \in Turns(s, HeadSeq)
    BY <1>1, <1>2, <2>1, LastIsThere DEF Turns
  <2>3. Status(s) = stream[i].type
    BY <2>1 DEF Status, CoreStatus, Turns
  <2>4. i \in 1..n /\ stream[i].session = s /\ stream[i].type \in CoreEvents
    BY <1>1, <2>2 DEF Turns
  <2> QED
    BY <1>2, <1>3, <2>3, <2>4 DEF Harmless
<1>11. 1 \in Turns(1, HeadSeq)
  BY <1>1, <1>2, <1>3 DEF Turns, CoreEvents
<1>12. WorkersExist
  BY <1>7, <1>10, <1>11 DEF WorkersExist, CoreEvents
<1>13. OpenIsTheWorker
  <2>1. \A s : Turns(s, HeadSeq) = {} => Status(s) = "none"
    BY DEF Turns, Status, CoreStatus
  <2> QED
    BY <1>6, <1>10, <2>1 DEF OpenIsTheWorker
<1>14. RowsAreMeant /\ RowsAreOne
  BY DEF RowsAreMeant, RowsAreOne
<1>15. \A i \in 1..n : stream[i].type \notin {"provision_bound", "rotation_completed"}
  BY <1>2, <1>3 DEF Harmless
<1>16. CompletionsAreMeant
  BY <1>1, <1>15 DEF CompletionsAreMeant
<1> QED
  BY <1>4, <1>8, <1>9, <1>12, <1>13, <1>14, <1>16 DEF LogInv

LEMMA InitBegins ==
    ASSUME Init
    PROVE  IsBeginning(stream)
<1>1. PICK status \in FirstStatus, dispatched \in BOOLEAN :
        stream = << Event("opened", 1, 0), Event("attempt", 1, 1) >>
                 \o (IF status = "opened" THEN << >> ELSE << Event(status, 1, 0) >>)
                 \o (IF dispatched THEN << Event("provision_requested", NoSession, 1) >>
                     ELSE << >>)
  BY DEF Init
<1>2. PICK t : t = << Event("opened", 1, 0), Event("attempt", 1, 1) >>
  OBVIOUS
<1>3. PICK u : u = t \o (IF status = "opened" THEN << >> ELSE << Event(status, 1, 0) >>)
  OBVIOUS
<1>4. IsBeginning(t)
  <2>1. /\ t \in Seq({Event("opened", 1, 0), Event("attempt", 1, 1)})
        /\ Len(t) = 2 /\ t[1] = Event("opened", 1, 0) /\ t[2] = Event("attempt", 1, 1)
    BY <1>2
  <2>2. 3..2 = {}
    OBVIOUS
  <2> QED
    BY <2>1, <2>2 DEF IsBeginning, IsStream
<1>5. IsBeginning(u)
  <2>1. CASE status = "opened"
    <3>1. u = t \o << >>
      BY <1>3, <2>1
    <3> QED
      BY <1>4, <3>1, BeginningGrows
  <2>2. CASE status # "opened"
    <3>1. u = t \o << Event(status, 1, 0) >>
      BY <1>3, <2>2
    <3>2. status \in {"suspended", "closed", "failed"}
      BY <2>2, SessionRotationAssumption DEF SessionRotationAssumption, CoreEvents
    <3>3. Harmless(Event(status, 1, 0))
      BY <3>2 DEF Harmless, Event
    <3> QED
      BY <1>4, <3>1, <3>3, BeginningGrows
  <2> QED
    BY <2>1, <2>2
<1>6. IsBeginning(stream)
  <2>1. CASE dispatched
    <3>1. stream = u \o << Event("provision_requested", NoSession, 1) >>
      BY <1>1, <1>2, <1>3, <2>1
    <3>2. Harmless(Event("provision_requested", NoSession, 1))
      BY DEF Harmless, Event, CoreEvents
    <3> QED
      BY <1>5, <3>1, <3>2, BeginningGrows
  <2>2. CASE ~dispatched
    <3>1. stream = u \o << >>
      BY <1>1, <1>2, <1>3, <2>2
    <3> QED
      BY <1>5, <3>1, BeginningGrows
  <2> QED
    BY <2>1, <2>2
<1> QED
  BY <1>6

LEMMA RInit == Init => RInv
<1> SUFFICES ASSUME Init PROVE RInv
  OBVIOUS
<1>1. LogInv
  BY InitBegins, BeginningIsMeant DEF Init
<1>2. CallsInv
  <2>1. phase = [c \in Callers |-> "idle"] /\ job = [c \in Callers |-> NoJob]
    BY DEF Init
  <2>2. Knows("idle", NoJob)
    BY DEF Knows, IsJob, NoJob, Phases, Chosen, Binding, Closing
  <2>3. \A c \in Callers : phase[c] = "idle" /\ job[c] = NoJob
    BY <2>1
  <2>4. \A c \in Callers : Knows(phase[c], job[c])
    BY <2>2, <2>3
  <2> QED
    BY <2>1, <2>4 DEF CallsInv
<1> QED
  BY <1>1, <1>2 DEF RInv

-----------------------------------------------------------------------------
(* The results.                                                            *)

(* The invariant holds of every number of callers that race and die.       *)
THEOREM RotationInvariant == Spec => []RInv
<1>1. RInv /\ [Next]_vars => RInv'
  <2> SUFFICES ASSUME RInv, [Next]_vars PROVE RInv'
    OBVIOUS
  <2>1. ASSUME NEW c \in Callers, Step(c) PROVE RInv'
    BY <2>1, BeginKeeps, CheckEffectKeeps, ReadHeadKeeps, SendKeeps, RecheckKeeps, ListKeeps, CreateKeeps,
       DecideKeeps, CheckStepKeeps, SendContextKeeps, DeleteKeeps DEF Step
  <2>2. ASSUME NEW c \in Callers, Crash(c) PROVE RInv'
    <3>1. UNCHANGED log /\ briefed \subseteq briefed' /\ Leave(c)
      BY <2>2 DEF Crash, world
    <3> QED
      BY <3>1, CallerReturns
  <2>3. CASE OthersWrite
    BY <2>3, OthersWriteKeep
  <2>4. CASE UNCHANGED vars
    <3>1. UNCHANGED log /\ phase' = phase /\ job' = job /\ briefed' = briefed
      BY <2>4 DEF vars, calls, world
    <3>2. LogInv'
      BY <3>1, MissionStays DEF RInv
    <3>3. ASSUME NEW c \in Callers PROVE Knows(phase[c], job[c])'
      <4>1. PICK q, k : q = phase[c] /\ k = job[c]
        OBVIOUS
      <4>2. Knows(q, k)'
        BY <3>1, <4>1, KnowledgeStays DEF RInv, CallsInv
      <4>3. phase'[c] = q /\ job'[c] = k
        BY <3>1, <4>1
      <4> QED
        BY <4>2, <4>3 DEF Knows
    <3>4. CallsInv'
      BY <3>1, <3>3 DEF RInv, CallsInv
    <3> QED
      BY <3>2, <3>4 DEF RInv
  <2> QED
    BY <2>1, <2>2, <2>3, <2>4 DEF Next
<1> QED
  BY <1>1, RInit, PTL DEF Spec

(* r2_5 opens a successor only when the predecessor is no longer OPEN, and *)
(* each ordinal has one command that opens: whatever races or dies, never  *)
(* two of the Task's Sessions are OPEN.                                    *)
THEOREM OneOpen == Spec => []OneOpenSession
<1>1. RInv => OneOpenSession
  <2> SUFFICES ASSUME RInv PROVE OneOpenSession
    OBVIOUS
  <2>1. ASSUME NEW s, NEW t, Status(s) = "opened", Status(t) = "opened" PROVE s = t
    <3>1. PICK w, k : w = Worker.session /\ k = Worker.ordinal
      OBVIOUS
    <3>2. /\ s = w \/ OpenedAfter(k, s)
          /\ t = w \/ OpenedAfter(k, t)
      BY <2>1, <3>1 DEF RInv, LogInv, OpenIsTheWorker
    <3>3. k \in Nat /\ \A u : AttemptIn(k, u) => u = w
      BY <3>1 DEF RInv, LogInv, Chain, AttemptIn
    <3>4. ASSUME NEW u, OpenedAfter(k, u) PROVE Status(w) # "opened"
      <4>1. PICK row \in rows : row.command_id = OpenId(k) /\ row.answer.ok
        BY <3>4 DEF OpenedAfter
      <4>2. PICK v : AttemptIn(k, v) /\ Over(Status(v))
        BY <3>3, <4>1 DEF RInv, LogInv, RowsAreMeant, RowIsMeant
      <4> QED
        BY <3>3, <4>2 DEF Over
    <3>5. OpenedAfter(k, s) /\ OpenedAfter(k, t) => s = t
      BY DEF OpenedAfter, RInv, LogInv, RowsAreOne
    <3> QED
      BY <2>1, <3>2, <3>4, <3>5
  <2>2. PICK S : S = {s \in 1..created : CoreStatus(s, HeadSeq) = "opened"}
    OBVIOUS
  <2>3. \A s, t \in S : s = t
    BY <2>1, <2>2 DEF Status
  <2>4. Cardinality(S) = 0 \/ Cardinality(S) = 1
    <3>1. CASE S = {}
      BY <3>1, FS_EmptySet
    <3>2. CASE S # {}
      <4>1. PICK s : S = {s}
        BY <2>3, <3>2
      <4> QED
        BY <4>1, FS_Singleton
    <3> QED
      BY <3>1, <3>2
  <2> QED
    BY <2>2, <2>4 DEF OneOpenSession
<1> QED
  BY <1>1, RotationInvariant, PTL

(* g2_1 completes a rotation only with a successor that was sent the       *)
(* context and bound to the predecessor's rotation before, be it that      *)
(* another one was bound as well, and after the predecessor was closed.    *)
THEOREM CompletionInTwoPhases == Spec => []TwoPhaseCompletion
<1>1. RInv => TwoPhaseCompletion
  BY DEF RInv, LogInv, CompletionsAreMeant, CompletionIsMeant, BoundIn, TwoPhaseCompletion
<1> QED
  BY <1>1, RotationInvariant, PTL

-----------------------------------------------------------------------------
(* A single caller.                                                        *)
(*                                                                         *)
(* No one else makes an Attempt, so that what the caller read of the       *)
(* latest one still holds when it acts on it: the Attempt is resumed from  *)
(* the predecessor of a rotation that was asked for, in a Session created  *)
(* for it.  A caller that finds the Attempt moved on trusts the token in   *)
(* the Session's title, and the token says whom it was created to follow.  *)

Requested(p) == RotationRequested(p, HeadSeq)

(* The Attempt moved from p to s.                                          *)
WorkedFor(p, s, n) ==
    \E a \in Attempts(n) \ {2} : stream[a].session = s /\ Latest(a - 1).session = p
Worked(p, s) == WorkedFor(p, s, HeadSeq)

AttemptsWereAsked ==
    \A a \in Attempts(HeadSeq) \ {2} : RotationRequested(Latest(a - 1).session, a - 1)
CompletionsAreOfWorkers ==
    \A i \in 1..HeadSeq : stream[i].type = "rotation_completed" =>
        WorkedFor(stream[i].about, stream[i].session, i - 1)

SessionsAreKnown ==
    /\ created \in Nat
    /\ \A a \in Attempts(HeadSeq) : stream[a].session \in 1..created
    /\ \A p : Requested(p) => p \in 1..created
    /\ \A x \in opencode : x.session \in 1..created
    /\ \A x, y \in opencode : x.session = y.session => x = y

(* The token of an Attempt's Session names the Session before it.          *)
IsTokenOf(t, a) == IF a = 2 THEN t = NoSession ELSE t = Latest(a - 1).session
TokensAreMeant ==
    \A x \in opencode : \A a \in Attempts(HeadSeq) :
        stream[a].session = x.session => IsTokenOf(x.token, a)

SoleRow(row) ==
    row.answer.ok =>
        /\ \A p : row.command_id = <<"rotation", p, "REQUEST">> => Requested(p)
        /\ \A m \in Nat : row.command_id = <<"operation", m + 1, "RESUME">> =>
              \E s : AttemptIn(m + 1, s)
SoleRows == \A row \in rows : SoleRow(row)

SoleLog == /\ AttemptsWereAsked /\ CompletionsAreOfWorkers
           /\ SessionsAreKnown /\ TokensAreMeant /\ SoleRows

(* What the caller knows besides.                                          *)
Asked    == Chosen \cup {"provisioning", "provision", "recheck", "listing"}
Followed == {"context"} \cup Binding \cup Closing

Created(s, p) == /\ s \in 1..created
                 /\ \A x \in opencode : x.session = s => x.token = p

SoleKnows(ph, j) ==
    /\ ph = "rotation" => j.predecessor \in 1..created
    /\ ph \in Asked \cup Followed => Requested(j.predecessor)
    /\ ph \in Chosen \cup {"listing"} => Worker.session = j.predecessor
    /\ ph \in Chosen => j.source = j.predecessor /\ j.ordinal = Worker.ordinal
    /\ ph \in Chosen \ {"creating"} => Created(j.successor, j.predecessor)
    /\ ph \in Followed => Worked(j.predecessor, j.successor)

SoleCalls == \A c \in Callers : SoleKnows(phase[c], job[c])
SoleInv == SoleLog /\ SoleCalls

-----------------------------------------------------------------------------
(* What was so of the first h events stays so.                             *)
SolePast(h) ==
    /\ \A p : \A n \in 0..h : RotationRequested(p, n)' <=> RotationRequested(p, n)
    /\ \A p : Requested(p) => Requested(p)'
    /\ \A n \in 0..h : Attempts(n)' = Attempts(n) /\ Attempts(n) \subseteq 2..n
    /\ \A n \in 2..h : Latest(n)' = Latest(n)
    /\ \A p, s : \A n \in 0..h : WorkedFor(p, s, n) => WorkedFor(p, s, n)'
    /\ \A p, s : Worked(p, s) => Worked(p, s)'

LEMMA SolePasts ==
    ASSUME StreamIsMeant, stream' = stream \/ \E e : Grows(e), NEW h, h = HeadSeq
    PROVE  SolePast(h)
<1>1. /\ h \in Nat /\ h >= 2 /\ HeadSeq' \in Nat /\ h <= HeadSeq'
      /\ \A i \in 1..h : stream'[i] = stream[i]
  <2>1. CASE stream' = stream
    <3>1. HeadSeq' = HeadSeq
      BY <2>1 DEF HeadSeq
    <3> QED
      BY <2>1, <3>1 DEF StreamIsMeant
  <2>2. CASE \E e : Grows(e)
    BY <2>2, OneMore DEF StreamIsMeant, SamePast
  <2> QED
    BY <2>1, <2>2
<1>2. stream[1].type # "attempt"
  BY DEF StreamIsMeant, Event
<1>3. \A n \in 0..h : n \in Nat /\ \A i \in 1..n : i \in 1..h
  BY <1>1
<1>4. \A p : \A n \in 0..h : RotationRequested(p, n)' <=> RotationRequested(p, n)
  BY <1>1, <1>3 DEF RotationRequested, Of
<1>5. \A p : Requested(p) => Requested(p)'
  <2>1. \A i \in 1..h : i \in 1..HeadSeq'
    BY <1>1
  <2> QED
    BY <1>1, <2>1 DEF Requested, RotationRequested, Of
<1>6. \A n \in 0..h : Attempts(n)' = Attempts(n) /\ Attempts(n) \subseteq 2..n
  <2> SUFFICES ASSUME NEW n \in 0..h
               PROVE  Attempts(n)' = Attempts(n) /\ Attempts(n) \subseteq 2..n
    OBVIOUS
  <2>1. Attempts(n)' = Attempts(n)
    BY <1>1, <1>3 DEF Attempts
  <2>2. \A i \in 1..n : i = 1 \/ i \in 2..n
    BY <1>3
  <2> QED
    BY <1>2, <2>1, <2>2 DEF Attempts
<1>7. \A n \in 2..h : Latest(n)' = Latest(n)
  <2>1. CASE stream' = stream
    BY <2>1 DEF Latest, Attempts
  <2>2. CASE \E e : Grows(e)
    BY <2>2, AttemptsGrow
  <2> QED
    BY <2>1, <2>2
<1>8. \A n \in 0..h : \A a \in Attempts(n) \ {2} : a - 1 \in 2..h /\ a \in 1..h
  <2>1. \A n \in 0..h : \A a \in 2..n : a # 2 => a - 1 \in 2..h /\ a \in 1..h
    BY <1>1
  <2> QED
    BY <1>6, <2>1
<1>9. \A p, s : \A n \in 0..h : WorkedFor(p, s, n) => WorkedFor(p, s, n)'
  <2> SUFFICES ASSUME NEW p, NEW s, NEW n \in 0..h, WorkedFor(p, s, n)
               PROVE  WorkedFor(p, s, n)'
    OBVIOUS
  <2>1. PICK a \in Attempts(n) \ {2} : stream[a].session = s /\ Latest(a - 1).session = p
    BY DEF WorkedFor
  <2>2. a \in Attempts(n)' /\ stream'[a].session = s
    BY <1>1, <1>6, <1>8, <2>1
  <2>3. Latest(a - 1)' = Latest(a - 1)
    BY <1>7, <1>8, <2>1
  <2> QED
    BY <2>1, <2>2, <2>3 DEF WorkedFor
<1>10. \A p, s : Worked(p, s) => Worked(p, s)'
  <2> SUFFICES ASSUME NEW p, NEW s, WorkedFor(p, s, h) PROVE WorkedFor(p, s, HeadSeq)'
    BY DEF Worked
  <2>1. WorkedFor(p, s, h)'
    BY <1>1, <1>9
  <2>2. Attempts(h)' \subseteq Attempts(HeadSeq)'
    BY <1>1 DEF Attempts
  <2> QED
    BY <2>1, <2>2 DEF WorkedFor
<1> QED
  BY <1>4, <1>5, <1>6, <1>7, <1>9, <1>10 DEF SolePast

-----------------------------------------------------------------------------
(* What the caller may append.                                             *)
SoleLegal(e) ==
    /\ e.type = "rotation_requested" => e.about \in 1..created
    /\ e.type = "rotation_completed" => Worked(e.about, e.session)
    /\ e.type = "attempt" => /\ Requested(Worker.session)
                             /\ Created(e.session, Worker.session)

LEMMA SoleLogKept ==
    ASSUME StreamIsMeant, SoleLog, UNCHANGED <<opencode, created>>,
           stream' = stream \/ \E e : Grows(e) /\ SoleLegal(e),
           rows' = rows \/ \E row : rows' = rows \cup {row} /\ SoleRow(row)',
           \A m, s : AttemptIn(m, s) => AttemptIn(m, s)'
    PROVE  SoleLog'
<1>1. PICK h : h = HeadSeq
  OBVIOUS
<1>2. SolePast(h) /\ h \in Nat /\ h >= 2 /\ h \in 2..h /\ h \in 0..h
  BY <1>1, SolePasts DEF StreamIsMeant
<1>3. SoleRows'
  <2>1. ASSUME NEW row \in rows PROVE SoleRow(row)'
    BY <1>2 DEF SoleLog, SoleRows, SoleRow, SolePast
  <2>2. CASE rows' = rows
    BY <2>1, <2>2 DEF SoleRows
  <2>3. CASE \E row : rows' = rows \cup {row} /\ SoleRow(row)'
    <3>1. PICK row : rows' = rows \cup {row} /\ SoleRow(row)'
      BY <2>3
    <3>2. ASSUME NEW r \in rows' PROVE SoleRow(r)'
      <4>1. CASE r \in rows
        BY <2>1, <4>1
      <4>2. CASE r = row
        BY <3>1, <4>2
      <4> QED
        BY <3>1, <4>1, <4>2
    <3> QED
      BY <3>2 DEF SoleRows
  <2> QED
    BY <2>2, <2>3
<1>4. CASE stream' = stream
  <2>1. /\ HeadSeq' = HeadSeq /\ Attempts(HeadSeq)' = Attempts(HeadSeq)
        /\ \A n : Latest(n)' = Latest(n)
        /\ \A p, n : RotationRequested(p, n)' <=> RotationRequested(p, n)
        /\ \A p : Requested(p)' <=> Requested(p)
        /\ \A p, s, n : WorkedFor(p, s, n)' <=> WorkedFor(p, s, n)
    BY <1>4 DEF HeadSeq, Attempts, Latest, RotationRequested, Requested, Of, WorkedFor
  <2>2. AttemptsWereAsked'
    BY <2>1 DEF SoleLog, AttemptsWereAsked
  <2>3. CompletionsAreOfWorkers'
    BY <1>4, <2>1 DEF SoleLog, CompletionsAreOfWorkers
  <2>4. SessionsAreKnown'
    BY <1>4, <2>1 DEF SoleLog, SessionsAreKnown
  <2>5. TokensAreMeant'
    BY <1>4, <2>1 DEF SoleLog, TokensAreMeant, IsTokenOf
  <2> QED
    BY <1>3, <2>2, <2>3, <2>4, <2>5 DEF SoleLog
<1>5. CASE \E e : Grows(e) /\ SoleLegal(e)
  <2>1. PICK e : Grows(e) /\ SoleLegal(e)
    BY <1>5
  <2>2. /\ HeadSeq' = h + 1 /\ stream'[h + 1] = e
        /\ \A i \in 1..h : stream'[i] = stream[i]
    BY <1>1, <2>1, OneMore DEF StreamIsMeant, SamePast
  <2>3. /\ \A a \in Attempts(HeadSeq) \ {2} : a - 1 \in 2..h /\ a - 1 \in 0..h
        /\ \A a \in Attempts(HeadSeq) : a \in 1..h /\ a # h + 1
    <3>1. \A a \in 2..h : /\ a # 2 => a - 1 \in 2..h /\ a - 1 \in 0..h
                          /\ a \in 1..h /\ a # h + 1
      BY <1>2
    <3> QED
      BY <1>1, <1>2, <3>1 DEF SolePast
  <2>4. \A a \in Attempts(HeadSeq) \ {2} : Latest(a - 1)' = Latest(a - 1)
    BY <1>2, <2>3 DEF SolePast
  <2>5. /\ Attempts(HeadSeq)' = IF e.type = "attempt" THEN Attempts(HeadSeq) \cup {h + 1}
                                ELSE Attempts(HeadSeq)
        /\ Latest(h)' = Worker /\ h + 1 # 2 /\ (h + 1) - 1 = h
    <3>1. Latest(h)' = Latest(h) /\ Latest(h) = Worker
      BY <1>1, <1>2 DEF SolePast, Worker
    <3> QED
      BY <1>1, <1>2, <2>1, <3>1, AttemptsGrow
  <2>6. AttemptsWereAsked'
    <3>1. ASSUME NEW a \in Attempts(HeadSeq), a # 2
          PROVE  RotationRequested(Latest(a - 1).session, a - 1)'
      <4>1. PICK p : p = Latest(a - 1).session
        OBVIOUS
      <4>2. RotationRequested(p, a - 1)
        BY <3>1, <4>1 DEF SoleLog, AttemptsWereAsked
      <4>3. RotationRequested(p, a - 1)'
        BY <1>2, <2>3, <3>1, <4>2 DEF SolePast
      <4>4. Latest(a - 1).session' = p
        BY <2>4, <3>1, <4>1
      <4> QED
        BY <4>3, <4>4 DEF RotationRequested, Of
    <3>2. ASSUME e.type = "attempt"
          PROVE  RotationRequested(Latest((h + 1) - 1).session, (h + 1) - 1)'
      <4>1. PICK w : w = Worker.session
        OBVIOUS
      <4>2. RotationRequested(w, h)
        BY <1>1, <2>1, <3>2, <4>1 DEF SoleLegal, Requested
      <4>3. RotationRequested(w, h)'
        BY <1>2, <4>2 DEF SolePast
      <4>4. Latest((h + 1) - 1).session' = w
        BY <2>5, <4>1
      <4> QED
        BY <2>5, <4>3, <4>4 DEF RotationRequested, Of
    <3>3. ASSUME NEW a \in Attempts(HeadSeq)', a # 2
          PROVE  a \in Attempts(HeadSeq) \/ (a = h + 1 /\ e.type = "attempt")
      BY <2>5
    <3>4. ASSUME NEW a \in Attempts(HeadSeq)', a # 2
          PROVE  RotationRequested(Latest(a - 1).session, a - 1)'
      <4>1. CASE a \in Attempts(HeadSeq)
        BY <3>1, <3>4, <4>1
      <4>2. CASE a = h + 1 /\ e.type = "attempt"
        BY <3>2, <4>2
      <4> QED
        BY <3>3, <3>4, <4>1, <4>2
    <3> QED
      BY <3>4 DEF AttemptsWereAsked
  <2>7. CompletionsAreOfWorkers'
    <3>1. ASSUME NEW i \in 1..h, stream[i].type = "rotation_completed"
          PROVE  WorkedFor(stream[i].about, stream[i].session, i - 1)'
      <4>1. PICK p, s, n : p = stream[i].about /\ s = stream[i].session /\ n = i - 1
        OBVIOUS
      <4>2. WorkedFor(p, s, n) /\ n \in 0..h
        BY <1>1, <1>2, <3>1, <4>1 DEF SoleLog, CompletionsAreOfWorkers
      <4>3. WorkedFor(p, s, n)'
        BY <1>2, <4>2 DEF SolePast
      <4>4. stream'[i].about = p /\ stream'[i].session = s
        BY <2>2, <4>1
      <4> QED
        BY <4>1, <4>3, <4>4
    <3>2. ASSUME e.type = "rotation_completed" PROVE WorkedFor(e.about, e.session, h)'
      BY <1>1, <1>2, <2>1, <3>2 DEF SoleLegal, Worked, SolePast
    <3>3. ASSUME NEW i \in 1..(h + 1), stream'[i].type = "rotation_completed"
          PROVE  WorkedFor(stream[i].about, stream[i].session, i - 1)'
      <4>1. CASE i \in 1..h
        BY <2>2, <3>1, <3>3, <4>1
      <4>2. CASE i = h + 1
        <5>1. i - 1 = h /\ stream'[i] = e
          BY <1>2, <2>2, <4>2
        <5> QED
          BY <3>2, <3>3, <5>1 DEF WorkedFor
      <4> QED
        BY <1>2, <4>1, <4>2
    <3> QED
      BY <2>2, <3>3 DEF CompletionsAreOfWorkers
  <2>8. SessionsAreKnown'
    <3>1. \A a \in Attempts(HeadSeq)' : stream'[a].session \in 1..created
      BY <2>1, <2>2, <2>3, <2>5 DEF SoleLog, SessionsAreKnown, SoleLegal, Created
    <3>2. ASSUME NEW p, Requested(p)' PROVE p \in 1..created
      <4>1. PICK i \in 1..(h + 1) : stream'[i].type = "rotation_requested" /\ stream'[i].about = p
        BY <2>2, <3>2 DEF Requested, RotationRequested, Of
      <4>2. CASE i \in 1..h
        <5>1. Requested(p)
          BY <1>1, <2>2, <4>1, <4>2 DEF Requested, RotationRequested, Of
        <5> QED
          BY <5>1 DEF SoleLog, SessionsAreKnown
      <4>3. CASE i = h + 1
        BY <2>1, <2>2, <4>1, <4>3 DEF SoleLegal
      <4> QED
        BY <1>2, <4>2, <4>3
    <3> QED
      BY <3>1, <3>2 DEF SoleLog, SessionsAreKnown
  <2>9. TokensAreMeant'
    <3> SUFFICES ASSUME NEW x \in opencode, NEW a \in Attempts(HeadSeq)',
                        stream'[a].session = x.session
                 PROVE  IsTokenOf(x.token, a)'
      BY DEF TokensAreMeant
    <3>1. CASE a \in Attempts(HeadSeq)
      <4>1. stream[a].session = x.session
        BY <2>2, <2>3, <3>1
      <4>2. IsTokenOf(x.token, a)
        BY <3>1, <4>1 DEF SoleLog, TokensAreMeant
      <4> QED
        BY <2>4, <3>1, <4>2 DEF IsTokenOf
    <3>2. CASE a = h + 1 /\ e.type = "attempt"
      <4>1. x.token = Worker.session
        BY <2>1, <2>2, <3>2 DEF SoleLegal, Created
      <4>2. a # 2 /\ Latest(a - 1)' = Worker
        BY <2>5, <3>2
      <4> QED
        BY <4>1, <4>2 DEF IsTokenOf
    <3> QED
      BY <2>5, <3>1, <3>2
  <2> QED
    BY <1>3, <2>6, <2>7, <2>8, <2>9 DEF SoleLog
<1> QED
  BY <1>4, <1>5

-----------------------------------------------------------------------------
(* The caller's steps.                                                     *)

LEMMA SoleCallMoves ==
    ASSUME CallsInv, NEW c \in Callers, \A d \in Callers : d = c,
           NEW ph, NEW j, Goto(c, ph, j), SoleKnows(ph, j)'
    PROVE  SoleCalls'
<1>1. phase'[c] = ph /\ job'[c] = j
  BY DEF CallsInv, Goto
<1>2. SoleKnows(phase[c], job[c])'
  BY <1>1 DEF SoleKnows
<1>3. ASSUME NEW d \in Callers PROVE SoleKnows(phase[d], job[d])'
  <2>1. phase'[d] = ph /\ job'[d] = j
    BY <1>1
  <2> QED
    BY <2>1 DEF SoleKnows
<1> QED
  BY <1>3 DEF SoleCalls

(* With the Mission and OpenCode as they were.                             *)
LEMMA SoleStays ==
    ASSUME RInv, SoleInv, UNCHANGED <<log, opencode, created>>
    PROVE  SoleLog' /\ \A ph, j : SoleKnows(ph, j) => SoleKnows(ph, j)'
<1>1. stream' = stream /\ rows' = rows /\ opencode' = opencode /\ created' = created
  BY DEF log
<1>2. \A m, s : AttemptIn(m, s) => AttemptIn(m, s)'
  BY <1>1 DEF AttemptIn, Attempts, HeadSeq
<1>3. SoleLog'
  BY <1>1, <1>2, SoleLogKept DEF RInv, LogInv, SoleInv
<1>4. /\ Worker' = Worker /\ \A p : Requested(p)' <=> Requested(p)
      /\ \A p, s : Worked(p, s)' <=> Worked(p, s)
  BY <1>1 DEF Worker, Latest, Attempts, HeadSeq, Requested, RotationRequested, Of,
              Worked, WorkedFor
<1>5. \A s, p : Created(s, p)' <=> Created(s, p)
  BY <1>1 DEF Created
<1> QED
  BY <1>1, <1>3, <1>4, <1>5 DEF SoleKnows

LEMMA SoleGoesOn ==
    ASSUME RInv, SoleInv, UNCHANGED <<log, opencode, created>>,
           NEW c \in Callers, \A d \in Callers : d = c,
           NEW ph, NEW j, Goto(c, ph, j), SoleKnows(ph, j)
    PROVE  SoleInv'
<1>1. SoleLog' /\ SoleKnows(ph, j)'
  BY SoleStays
<1>2. SoleCalls'
  BY <1>1, SoleCallMoves DEF RInv
<1> QED
  BY <1>1, <1>2 DEF SoleInv

LEMMA SoleReturns ==
    ASSUME RInv, SoleInv, UNCHANGED <<log, opencode, created>>,
           NEW c \in Callers, \A d \in Callers : d = c, Leave(c)
    PROVE  SoleInv'
<1>1. SoleKnows("idle", NoJob)
  BY DEF SoleKnows, Asked, Followed, Chosen, Binding, Closing
<1> QED
  BY <1>1, SoleGoesOn DEF Leave

(* The worker's Session is one of those created, and so is a predecessor.  *)
LEMMA WorkerIsCreated ==
    ASSUME LogInv, SoleLog
    PROVE  Worker.session \in 1..created
<1>1. PICK a \in Attempts(HeadSeq) : stream[a].session = Worker.session
  BY DEF LogInv, Chain, AttemptIn
<1> QED
  BY <1>1 DEF SoleLog, SessionsAreKnown

LEMMA SoleBegin ==
    ASSUME RInv, SoleInv, NEW c \in Callers, \A d \in Callers : d = c, Begin(c)
    PROVE  SoleInv'
<1>1. UNCHANGED <<log, opencode, created>>
  BY DEF Begin, world
<1>2. CASE Pending(HeadSeq) # {}
  <2>1. PICK i : i = Max(Pending(HeadSeq))
    OBVIOUS
  <2>2. PICK j : j = [NoJob EXCEPT !.predecessor = stream[i].about]
    OBVIOUS
  <2>3. Goto(c, "provisioning", j)
    BY <1>2, <2>1, <2>2 DEF Begin
  <2>4. i \in Pending(HeadSeq)
    <3>1. HeadSeq \in Nat /\ Pending(HeadSeq) \subseteq 1..HeadSeq
      BY DEF Pending, RInv, LogInv, StreamIsMeant
    <3>2. PICK S, n : S = Pending(HeadSeq) /\ n = HeadSeq
      OBVIOUS
    <3> QED
      BY <1>2, <2>1, <3>1, <3>2, LastIsThere
  <2>5. Requested(stream[i].about)
    BY <2>4 DEF Pending, Requested, RotationRequested, Of
  <2>6. j.predecessor = stream[i].about
    BY <2>2 DEF NoJob
  <2>7. SoleKnows("provisioning", j)
    BY <2>5, <2>6 DEF SoleKnows, Asked, Followed, Chosen, Binding, Closing
  <2> QED
    BY <1>1, <2>3, <2>7, SoleGoesOn
<1>3. CASE Pending(HeadSeq) = {}
  <2>1. PICK j : j = [NoJob EXCEPT !.predecessor = Worker.session]
    OBVIOUS
  <2>2. Goto(c, "rotation", j)
    BY <1>3, <2>1 DEF Begin, Worker
  <2>3. j.predecessor = Worker.session
    BY <2>1 DEF NoJob
  <2>4. SoleKnows("rotation", j)
    BY <2>3, WorkerIsCreated DEF SoleKnows, Asked, Followed, Chosen, Binding, Closing, RInv, SoleInv
  <2> QED
    BY <1>1, <2>2, <2>4, SoleGoesOn
<1> QED
  BY <1>2, <1>3

(* The Attempt has moved on to a Session with the predecessor's token.     *)
LEMMA SoleRecheck ==
    ASSUME RInv, SoleInv, NEW c \in Callers, \A d \in Callers : d = c, Recheck(c)
    PROVE  SoleInv'
<1>1. UNCHANGED <<log, opencode, created>>
  BY DEF Recheck, world
<1>2. PICK j, w : j = job[c] /\ w = Worker.session
  OBVIOUS
<1>3. Requested(j.predecessor) /\ IsJob(j)
  BY <1>2 DEF Recheck, SoleInv, SoleCalls, SoleKnows, Asked, RInv, CallsInv, Knows
<1>4. \/ Leave(c)
      \/ w = j.predecessor /\ Goto(c, "listing", j)
      \/ /\ w # j.predecessor /\ [session |-> w, token |-> j.predecessor] \in opencode
         /\ Goto(c, "context", [j EXCEPT !.successor = w])
  BY <1>2 DEF Recheck, Worker
<1>5. CASE w = j.predecessor /\ Goto(c, "listing", j)
  <2>1. SoleKnows("listing", j)
    BY <1>2, <1>3, <1>5 DEF SoleKnows, Asked, Followed, Chosen, Binding, Closing
  <2> QED
    BY <1>1, <1>5, <2>1, SoleGoesOn
<1>6. CASE /\ w # j.predecessor /\ [session |-> w, token |-> j.predecessor] \in opencode
           /\ Goto(c, "context", [j EXCEPT !.successor = w])
  <2>1. PICK a \in Attempts(HeadSeq) : stream[a].session = w
    BY <1>2 DEF RInv, LogInv, Chain, AttemptIn
  <2>2. IsTokenOf(j.predecessor, a)
    <3>1. PICK x : x = [session |-> w, token |-> j.predecessor]
      OBVIOUS
    <3>2. x \in opencode /\ x.session = w /\ x.token = j.predecessor
      BY <1>6, <3>1
    <3>3. IsTokenOf(x.token, a)
      BY <2>1, <3>2 DEF SoleInv, SoleLog, TokensAreMeant
    <3> QED
      BY <3>2, <3>3
  <2>3. j.predecessor # NoSession
    <3>1. j.predecessor \in 1..created /\ created \in Nat
      BY <1>3 DEF SoleInv, SoleLog, SessionsAreKnown
    <3> QED
      BY <3>1 DEF NoSession
  <2>4. Worked(j.predecessor, w)
    BY <2>1, <2>2, <2>3 DEF IsTokenOf, Worked, WorkedFor
  <2>5. PICK k : k = [j EXCEPT !.successor = w]
    OBVIOUS
  <2>6. k.successor = w /\ k.predecessor = j.predecessor
    BY <1>3, <2>5 DEF IsJob
  <2>7. SoleKnows("context", k)
    BY <1>3, <2>4, <2>6 DEF SoleKnows, Asked, Followed, Chosen, Binding, Closing
  <2> QED
    BY <1>1, <1>6, <2>5, <2>7, SoleGoesOn
<1> QED
  BY <1>1, <1>4, <1>5, <1>6, SoleReturns

(* The Session is one that bears the token, or a new one that does.        *)
LEMMA SoleList ==
    ASSUME RInv, SoleInv, NEW c \in Callers, \A d \in Callers : d = c, List(c)
    PROVE  SoleInv'
<1>1. UNCHANGED <<log, opencode, created>>
  BY DEF List, world
<1>2. PICK j, w, m : j = job[c] /\ w = Worker.session /\ m = Worker.ordinal
  OBVIOUS
<1>3. Requested(j.predecessor) /\ w = j.predecessor /\ IsJob(j)
  BY <1>2 DEF List, SoleInv, SoleCalls, SoleKnows, Asked, RInv, CallsInv, Knows
<1>4. PICK k : k = [j EXCEPT !.source = w, !.ordinal = m]
  OBVIOUS
<1>5. IsJob(k) /\ k.predecessor = j.predecessor /\ k.source = w /\ k.ordinal = m
  BY <1>3, <1>4 DEF IsJob
<1>6. PICK matches : matches = {x.session : x \in {y \in opencode : y.token = j.predecessor}}
  OBVIOUS
<1>7. k.predecessor = j.predecessor /\ k = [job[c] EXCEPT !.source = Latest(HeadSeq).session,
                                                           !.ordinal = Latest(HeadSeq).ordinal]
  BY <1>2, <1>4, <1>5 DEF Worker
<1>8. \/ Leave(c) \/ Goto(c, "creating", k)
      \/ \E s \in matches : Goto(c, "deciding", [k EXCEPT !.successor = s])
  BY <1>2, <1>6, <1>7 DEF List
<1>9. CASE Goto(c, "creating", k)
  <2>1. SoleKnows("creating", k)
    BY <1>2, <1>3, <1>5 DEF SoleKnows, Asked, Followed, Chosen, Binding, Closing
  <2> QED
    BY <1>1, <1>9, <2>1, SoleGoesOn
<1>10. CASE \E s \in matches : Goto(c, "deciding", [k EXCEPT !.successor = s])
  <2>1. PICK s \in matches : Goto(c, "deciding", [k EXCEPT !.successor = s])
    BY <1>10
  <2>2. PICK l : l = [k EXCEPT !.successor = s]
    OBVIOUS
  <2>3. /\ l.predecessor = k.predecessor /\ l.source = k.source /\ l.ordinal = k.ordinal
        /\ l.successor = s
    BY <1>5, <2>2 DEF IsJob
  <2>4. Created(s, j.predecessor)
    <3>1. PICK x \in opencode : x.token = j.predecessor /\ x.session = s
      BY <1>6, <2>1
    <3> QED
      BY <3>1 DEF Created, SoleInv, SoleLog, SessionsAreKnown
  <2>5. SoleKnows("deciding", l)
    BY <1>2, <1>3, <1>5, <2>3, <2>4 DEF SoleKnows, Asked, Followed, Chosen, Binding, Closing
  <2> QED
    BY <1>1, <2>1, <2>2, <2>5, SoleGoesOn
<1> QED
  BY <1>1, <1>8, <1>9, <1>10, SoleReturns

LEMMA SoleCreate ==
    ASSUME RInv, SoleInv, NEW c \in Callers, \A d \in Callers : d = c, Create(c)
    PROVE  SoleInv'
<1>1. PICK j, k, n : j = job[c] /\ n = created + 1 /\ k = [j EXCEPT !.successor = n]
  OBVIOUS
<1>2. PICK new : new = [session |-> n, token |-> j.predecessor]
  OBVIOUS
<1>3. /\ stream' = stream /\ rows' = rows /\ created' = n
      /\ opencode' = opencode \cup {new} /\ Goto(c, "deciding", k)
  BY <1>1, <1>2 DEF Create, log
<1>4. /\ created \in Nat /\ n \in 1..n /\ n \notin 1..created
      /\ \A i \in 1..created : i \in 1..n
  BY <1>1 DEF SoleInv, SoleLog, SessionsAreKnown
<1>5. /\ HeadSeq' = HeadSeq /\ Attempts(HeadSeq)' = Attempts(HeadSeq) /\ Worker' = Worker
      /\ \A i : Latest(i)' = Latest(i)
      /\ \A p, i : RotationRequested(p, i)' <=> RotationRequested(p, i)
      /\ \A p : Requested(p)' <=> Requested(p)
      /\ \A p, s, i : WorkedFor(p, s, i)' <=> WorkedFor(p, s, i)
      /\ \A m, s : AttemptIn(m, s)' <=> AttemptIn(m, s)
  BY <1>3 DEF HeadSeq, Attempts, Worker, Latest, RotationRequested, Requested, Of,
              WorkedFor, AttemptIn
<1>6. new.session = n /\ new.token = j.predecessor
  BY <1>2
<1>7. AttemptsWereAsked'
  BY <1>5 DEF SoleInv, SoleLog, AttemptsWereAsked
<1>8. CompletionsAreOfWorkers'
  BY <1>3, <1>5 DEF SoleInv, SoleLog, CompletionsAreOfWorkers
<1>9. SoleRows'
  BY <1>3, <1>5 DEF SoleInv, SoleLog, SoleRows, SoleRow
<1>10. SessionsAreKnown'
  <2>1. \A x, y \in opencode' : x.session = y.session => x = y
    BY <1>3, <1>4, <1>6 DEF SoleInv, SoleLog, SessionsAreKnown
  <2>2. \A x \in opencode' : x.session \in 1..n
    BY <1>3, <1>4, <1>6 DEF SoleInv, SoleLog, SessionsAreKnown
  <2>3. \A a \in Attempts(HeadSeq)' : stream'[a].session \in 1..n
    BY <1>3, <1>4, <1>5 DEF SoleInv, SoleLog, SessionsAreKnown
  <2>4. \A p : Requested(p)' => p \in 1..n
    BY <1>4, <1>5 DEF SoleInv, SoleLog, SessionsAreKnown
  <2>5. n \in Nat
    BY <1>1, <1>4
  <2> QED
    BY <1>3, <2>1, <2>2, <2>3, <2>4, <2>5 DEF SessionsAreKnown
<1>11. TokensAreMeant'
  <2>1. \A a \in Attempts(HeadSeq) : stream[a].session # n
    BY <1>4 DEF SoleInv, SoleLog, SessionsAreKnown
  <2>2. \A t, a : IsTokenOf(t, a)' <=> IsTokenOf(t, a)
    BY <1>5 DEF IsTokenOf
  <2> QED
    BY <1>3, <1>5, <1>6, <2>1, <2>2 DEF SoleInv, SoleLog, TokensAreMeant
<1>12. SoleKnows("deciding", k)'
  <2>1. SoleKnows("creating", j) /\ IsJob(j)
    BY <1>1 DEF Create, SoleInv, SoleCalls, RInv, CallsInv, Knows
  <2>2. /\ k.predecessor = j.predecessor /\ k.source = j.source /\ k.ordinal = j.ordinal
        /\ k.successor = n
    BY <1>1, <2>1 DEF IsJob
  <2>3. Created(n, j.predecessor)'
    <3>1. \A x \in opencode : x.session # n
      BY <1>4 DEF SoleInv, SoleLog, SessionsAreKnown
    <3> QED
      BY <1>3, <1>4, <1>6, <3>1 DEF Created
  <2> QED
    BY <1>5, <2>1, <2>2, <2>3 DEF SoleKnows, Asked, Followed, Chosen, Binding, Closing
<1>13. SoleCalls'
  BY <1>3, <1>12, SoleCallMoves DEF RInv
<1> QED
  BY <1>7, <1>8, <1>9, <1>10, <1>11, <1>13 DEF SoleInv, SoleLog

LEMMA SoleDelete ==
    ASSUME RInv, SoleInv, NEW c \in Callers, \A d \in Callers : d = c, Delete(c)
    PROVE  SoleInv'
<1>1. PICK j : j = job[c]
  OBVIOUS
<1>2. /\ stream' = stream /\ rows' = rows /\ created' = created
      /\ opencode' \subseteq opencode /\ Goto(c, "complete", j)
  BY <1>1 DEF Delete, log
<1>3. /\ HeadSeq' = HeadSeq /\ Attempts(HeadSeq)' = Attempts(HeadSeq) /\ Worker' = Worker
      /\ \A i : Latest(i)' = Latest(i)
      /\ \A p, i : RotationRequested(p, i)' <=> RotationRequested(p, i)
      /\ \A p : Requested(p)' <=> Requested(p)
      /\ \A p, s, i : WorkedFor(p, s, i)' <=> WorkedFor(p, s, i)
      /\ \A p, s : Worked(p, s)' <=> Worked(p, s)
      /\ \A m, s : AttemptIn(m, s)' <=> AttemptIn(m, s)
  BY <1>2 DEF HeadSeq, Attempts, Worker, Latest, RotationRequested, Requested, Of,
              WorkedFor, Worked, AttemptIn
<1>4. AttemptsWereAsked'
  BY <1>3 DEF SoleInv, SoleLog, AttemptsWereAsked
<1>5. CompletionsAreOfWorkers'
  BY <1>2, <1>3 DEF SoleInv, SoleLog, CompletionsAreOfWorkers
<1>6. SoleRows'
  BY <1>2, <1>3 DEF SoleInv, SoleLog, SoleRows, SoleRow
<1>7. SessionsAreKnown'
  BY <1>2, <1>3 DEF SoleInv, SoleLog, SessionsAreKnown
<1>8. TokensAreMeant'
  <2>1. \A t, a : IsTokenOf(t, a)' <=> IsTokenOf(t, a)
    BY <1>3 DEF IsTokenOf
  <2> QED
    BY <1>2, <1>3, <2>1 DEF SoleInv, SoleLog, TokensAreMeant
<1>9. SoleKnows("complete", j)'
  <2>1. SoleKnows("delete", j)
    BY <1>1 DEF Delete, SoleInv, SoleCalls
  <2> QED
    BY <1>3, <2>1 DEF SoleKnows, Asked, Followed, Chosen, Binding, Closing
<1>10. SoleCalls'
  BY <1>2, <1>9, SoleCallMoves DEF RInv
<1> QED
  BY <1>4, <1>5, <1>6, <1>7, <1>8, <1>10 DEF SoleInv, SoleLog

LEMMA SoleDecide ==
    ASSUME RInv, SoleInv, NEW c \in Callers, \A d \in Callers : d = c, Decide(c)
    PROVE  SoleInv'
<1>1. UNCHANGED <<log, opencode, created>>
  BY DEF Decide, world
<1>2. PICK j : j = job[c]
  OBVIOUS
<1>3. SoleKnows("deciding", j) /\ IsJob(j)
  BY <1>2 DEF Decide, SoleInv, SoleCalls, RInv, CallsInv, Knows
<1>4. \/ Leave(c)
      \/ \E mode, ph : /\ ph \in {"opening", "transition"}
                       /\ Goto(c, ph, [j EXCEPT !.mode = mode, !.cursor = HeadSeq])
  BY <1>2 DEF Decide
<1>5. ASSUME NEW mode, NEW ph \in {"opening", "transition"},
             Goto(c, ph, [j EXCEPT !.mode = mode, !.cursor = HeadSeq])
      PROVE  SoleInv'
  <2>1. PICK k : k = [j EXCEPT !.mode = mode, !.cursor = HeadSeq]
    OBVIOUS
  <2>2. /\ k.predecessor = j.predecessor /\ k.source = j.source /\ k.ordinal = j.ordinal
        /\ k.successor = j.successor
    BY <1>3, <2>1 DEF IsJob
  <2>3. SoleKnows(ph, k)
    BY <1>3, <2>2 DEF SoleKnows, Asked, Followed, Chosen, Binding, Closing
  <2> QED
    BY <1>1, <1>5, <2>1, <2>3, SoleGoesOn
<1> QED
  BY <1>1, <1>4, <1>5, SoleReturns

(* Going on from a command: what the caller must know to do so.            *)
Carries(ph, j) ==
    /\ ph \notin {"rotation", "resuming"} => SoleKnows(ph, j)
    /\ ph = "rotation" => Requested(j.predecessor)
    /\ ph = "resuming" => Requested(j.predecessor) /\ Worked(j.predecessor, j.successor)

LEMMA SoleProceeds ==
    ASSUME CallsInv, SoleLog', NEW c \in Callers, \A d \in Callers : d = c,
           NEW ph, ph = phase[c], ph \in DOMAIN After, NEW j, j = job[c],
           NEW seq, Proceed(c, seq), Carries(ph, j)'
    PROVE  SoleInv'
<1>1. CASE ph = "complete"
  <2>1. Goto(c, "idle", NoJob)
    BY <1>1 DEF Proceed, Leave
  <2>2. SoleKnows("idle", NoJob)'
    BY DEF SoleKnows, Asked, Followed, Chosen, Binding, Closing
  <2> QED
    BY <2>1, <2>2, SoleCallMoves DEF SoleInv
<1>2. CASE ph # "complete"
  <2>1. PICK k, q : k = [j EXCEPT !.cursor = seq, !.sending = FALSE] /\ q = After[ph]
    OBVIOUS
  <2>2. Goto(c, q, k)
    BY <1>2, <2>1 DEF Proceed
  <2>3. IsJob(j)
    BY DEF CallsInv, Knows
  <2>4. /\ k.predecessor = j.predecessor /\ k.source = j.source /\ k.ordinal = j.ordinal
        /\ k.successor = j.successor
    BY <2>1, <2>3 DEF IsJob
  <2>5. \/ ph = "rotation" /\ q = "provisioning"
        \/ ph = "provision" /\ q = "recheck"
        \/ ph = "transition" /\ q = "opening"
        \/ ph = "opening" /\ q = "resuming"
        \/ ph = "resuming" /\ q = "context"
        \/ ph = "bind" /\ q = "closing"
        \/ ph = "close" /\ q = "delete"
    BY <1>2, <2>1 DEF After
  <2>6. SoleKnows(q, k)'
    BY <2>4, <2>5 DEF Carries, SoleKnows, Asked, Followed, Chosen, Binding, Closing
  <2> QED
    BY <2>2, <2>6, SoleCallMoves DEF SoleInv
<1> QED
  BY <1>1, <1>2

LEMMA SoleCheckEffect ==
    ASSUME RInv, SoleInv, NEW c \in Callers, \A d \in Callers : d = c, CheckEffect(c)
    PROVE  SoleInv'
<1>1. UNCHANGED <<log, opencode, created>>
  BY DEF CheckEffect, world
<1>2. PICK j, ph : j = job[c] /\ ph = phase[c]
  OBVIOUS
<1>3. SoleKnows(ph, j)
  BY <1>2 DEF SoleInv, SoleCalls
<1>4. \/ Leave(c)
      \/ \E q : /\ Goto(c, q, j)
               /\ \/ ph = "provisioning" /\ q \in {"recheck", "provision"}
                  \/ ph = "binding" /\ q \in {"bind", "closing"}
                  \/ ph = "closing" /\ q \in {"close", "delete"}
  BY <1>2 DEF CheckEffect
<1>5. ASSUME NEW q, Goto(c, q, j),
             \/ ph = "provisioning" /\ q \in {"recheck", "provision"}
             \/ ph = "binding" /\ q \in {"bind", "closing"}
             \/ ph = "closing" /\ q \in {"close", "delete"}
      PROVE  SoleInv'
  <2>1. SoleKnows(q, j)
    BY <1>3, <1>5 DEF SoleKnows, Asked, Followed, Chosen, Binding, Closing
  <2> QED
    BY <1>1, <1>5, <2>1, SoleGoesOn
<1> QED
  BY <1>1, <1>4, <1>5, SoleReturns

LEMMA SoleReadHead ==
    ASSUME RInv, SoleInv, NEW c \in Callers, \A d \in Callers : d = c, ReadHead(c)
    PROVE  SoleInv'
<1>1. UNCHANGED <<log, opencode, created>>
  BY DEF ReadHead, world
<1>2. PICK j, ph, k : /\ j = job[c] /\ ph = phase[c]
                      /\ k = [j EXCEPT !.cursor = HeadSeq, !.sending = TRUE]
  OBVIOUS
<1>3. SoleKnows(ph, j) /\ IsJob(j) /\ Goto(c, ph, k)
  BY <1>2 DEF ReadHead, SoleInv, SoleCalls, RInv, CallsInv, Knows
<1>4. /\ k.predecessor = j.predecessor /\ k.source = j.source /\ k.ordinal = j.ordinal
      /\ k.successor = j.successor
  BY <1>2, <1>3 DEF IsJob
<1>5. SoleKnows(ph, k)
  BY <1>3, <1>4 DEF SoleKnows
<1> QED
  BY <1>1, <1>3, <1>5, SoleGoesOn

(* A command of the operation that the log holds already: it was not the   *)
(* one that resumes, for the Attempt is still the predecessor's.           *)
LEMMA RecordCarries ==
    ASSUME LogInv, SoleLog, NEW ph \in DOMAIN After, NEW j, SoleKnows(ph, j), Knows(ph, j),
           NEW row \in rows, row.answer.ok, IsIdAt(row.command_id, ph, j)
    PROVE  Carries(ph, j)
<1>1. SoleRow(row)
  BY DEF SoleLog, SoleRows
<1>2. CASE ph = "rotation"
  BY <1>1, <1>2 DEF Carries, SoleRow, IsIdAt
<1>3. CASE ph = "resuming"
  <2>1. j.ordinal \in Nat /\ j.ordinal = Worker.ordinal
    BY <1>3 DEF Knows, SoleKnows, Chosen
  <2>2. PICK s : AttemptIn(j.ordinal + 1, s)
    BY <1>1, <1>3, <2>1 DEF SoleRow, IsIdAt
  <2>3. j.ordinal + 1 \in 1..j.ordinal
    BY <2>1, <2>2 DEF LogInv, Chain, AttemptIn
  <2> QED
    BY <2>1, <2>3
<1>4. CASE ph \notin {"rotation", "resuming"}
  BY <1>4 DEF Carries
<1> QED
  BY <1>2, <1>3, <1>4

LEMMA SoleCheckStep ==
    ASSUME RInv, SoleInv, NEW c \in Callers, \A d \in Callers : d = c, CheckStep(c)
    PROVE  SoleInv'
<1>1. UNCHANGED <<log, opencode, created>>
  BY DEF CheckStep, world
<1>2. PICK j, ph : j = job[c] /\ ph = phase[c]
  OBVIOUS
<1>3. PICK request : request = CommandOf(c)
  OBVIOUS
<1>4. /\ SoleKnows(ph, j) /\ Knows(ph, j) /\ IsJob(j)
      /\ ph \in {"transition", "opening", "resuming"} /\ ph \in DOMAIN After
  BY <1>2 DEF CheckStep, SoleInv, SoleCalls, RInv, CallsInv, Knows, After
<1>5. IsIdAt(request.id, ph, j)
  <2>1. IsRequest(request, ph, j)
    BY <1>2, <1>3, <1>4, CommandIs
  <2> QED
    BY <2>1 DEF IsRequest, IsIdAt
<1> DEFINE stored == Stored(CommandOf(c).id)
<1>6. \/ Leave(c)
      \/ Goto(c, ph, [j EXCEPT !.sending = TRUE])
      \/ \E row \in rows : /\ row.command_id = request.id /\ row.answer.ok
                           /\ Proceed(c, row.answer.last_seq)
  <2>1. CASE stored # {}
    <3>1. PICK row : row = CHOOSE r \in stored : TRUE
      OBVIOUS
    <3>2. row \in rows /\ row.command_id = request.id
      BY <1>3, <2>1, <3>1 DEF Stored
    <3>3. IF row.answer.ok THEN Proceed(c, row.answer.last_seq) ELSE Leave(c)
      BY <2>1, <3>1 DEF CheckStep
    <3> QED
      BY <3>2, <3>3
  <2>2. CASE stored = {}
    BY <1>2, <2>2 DEF CheckStep
  <2> QED
    BY <2>1, <2>2
<1>7. CASE Goto(c, ph, [j EXCEPT !.sending = TRUE])
  <2>1. PICK k : k = [j EXCEPT !.sending = TRUE]
    OBVIOUS
  <2>2. /\ k.predecessor = j.predecessor /\ k.source = j.source /\ k.ordinal = j.ordinal
        /\ k.successor = j.successor
    BY <1>4, <2>1 DEF IsJob
  <2>3. SoleKnows(ph, k)
    BY <1>4, <2>2 DEF SoleKnows
  <2> QED
    BY <1>1, <1>7, <2>1, <2>3, SoleGoesOn
<1>8. CASE \E row \in rows : /\ row.command_id = request.id /\ row.answer.ok
                             /\ Proceed(c, row.answer.last_seq)
  <2>1. PICK row \in rows : /\ row.command_id = request.id /\ row.answer.ok
                            /\ Proceed(c, row.answer.last_seq)
    BY <1>8
  <2>2. Carries(ph, j)
    BY <1>4, <1>5, <2>1, RecordCarries DEF RInv, SoleInv
  <2>3. SoleLog' /\ Carries(ph, j)'
    <3>1. SoleLog' /\ SoleKnows(ph, j)'
      BY <1>1, <1>4, SoleStays
    <3>2. /\ \A p : Requested(p)' <=> Requested(p)
          /\ \A p, s : Worked(p, s)' <=> Worked(p, s)
      BY <1>1 DEF log, Attempts, Latest, HeadSeq, Requested, RotationRequested, Of,
                  Worked, WorkedFor
    <3> QED
      BY <2>2, <3>1, <3>2 DEF Carries
  <2> QED
    BY <1>2, <1>4, <2>1, <2>3, SoleProceeds DEF RInv
<1> QED
  BY <1>1, <1>6, <1>7, <1>8, SoleReturns

LEMMA SoleSendContext ==
    ASSUME RInv, SoleInv, NEW c \in Callers, \A d \in Callers : d = c, SendContext(c)
    PROVE  SoleInv'
<1>1. UNCHANGED <<log, opencode, created>>
  BY DEF SendContext
<1>2. PICK j : j = job[c]
  OBVIOUS
<1>3. SoleKnows("context", j) /\ (Leave(c) \/ Goto(c, "binding", j))
  BY <1>2 DEF SendContext, SoleInv, SoleCalls
<1>4. SoleKnows("binding", j)
  BY <1>3 DEF SoleKnows, Asked, Followed, Chosen, Binding, Closing
<1> QED
  BY <1>1, <1>3, <1>4, SoleReturns, SoleGoesOn

(* What the caller knows is not touched by a step that makes no Attempt.   *)
LEMMA SoleKnowledgeStands ==
    ASSUME NEW h, SolePast(h), Worker' = Worker, UNCHANGED <<opencode, created>>,
           NEW ph, NEW j, SoleKnows(ph, j)
    PROVE  SoleKnows(ph, j)'
<1>1. \A s, p : Created(s, p)' <=> Created(s, p)
  BY DEF Created
<1> QED
  BY <1>1 DEF SoleKnows, SolePast

LEMMA SoleIds ==
    ASSUME NEW ph \in DOMAIN After, NEW j, NEW id, IsIdAt(id, ph, j),
           ph \in Chosen => j.ordinal \in Nat, ph = "transition" => j.mode \in Moves
    PROVE  /\ \A p : id = <<"rotation", p, "REQUEST">> => ph = "rotation" /\ p = j.predecessor
           /\ \A m \in Nat : id = <<"operation", m + 1, "RESUME">> =>
                 ph = "resuming" /\ m = j.ordinal
<1>1. ph \in {"rotation", "provision", "transition", "opening", "resuming", "bind",
              "close", "complete"}
  BY DEF After
<1>2. CASE ph = "rotation"
  BY <1>2 DEF IsIdAt
<1>3. CASE ph = "provision"
  BY <1>3 DEF IsIdAt
<1>4. CASE ph = "transition"
  BY <1>4 DEF IsIdAt, IsFor, Moves
<1>5. CASE ph = "opening"
  BY <1>5 DEF IsIdAt, IsFor, OpenId
<1>6. CASE ph = "resuming"
  BY <1>6 DEF IsIdAt, Chosen
<1>7. CASE ph = "bind"
  BY <1>7 DEF IsIdAt, IsFor
<1>8. CASE ph = "close"
  BY <1>8 DEF IsIdAt, IsFor
<1>9. CASE ph = "complete"
  BY <1>9 DEF IsIdAt
<1> QED
  BY <1>1, <1>2, <1>3, <1>4, <1>5, <1>6, <1>7, <1>8, <1>9

(* A command of the caller is accepted.                                    *)
LEMMA SoleAcceptance ==
    ASSUME LogInv, LogInv', SoleLog, UNCHANGED <<opencode, created>>,
           NEW ph \in DOMAIN After, NEW j, Knows(ph, j), SoleKnows(ph, j),
           NEW e, Grows(e), IsFact(e, ph, j),
           NEW row, rows' = rows \cup {row}, IsIdAt(row.command_id, ph, j),
           \A m, s : AttemptIn(m, s) => AttemptIn(m, s)'
    PROVE  SoleLog' /\ Carries(ph, j)'
<1>1. PICK h, k : h = HeadSeq /\ k = j.ordinal
  OBVIOUS
<1>2. SolePast(h) /\ h \in Nat /\ h >= 2
  BY <1>1, SolePasts DEF LogInv, StreamIsMeant
<1>3. /\ ph \in Chosen => j.ordinal \in Nat
      /\ ph = "transition" => j.mode \in Moves
  BY DEF Knows
<1>4. ph # "rotation" /\ ph # "resuming" /\ ph # "complete"
      => e.type \notin {"rotation_requested", "rotation_completed", "attempt"}
  BY DEF IsFact, Event, After
<1>5. ph = "rotation" => e.type = "rotation_requested" /\ e.about = j.predecessor
  BY DEF IsFact, Event
<1>6. ph = "complete" => /\ e.type = "rotation_completed" /\ e.about = j.predecessor
                         /\ e.session = j.successor
  BY DEF IsFact, Event
<1>7. ph = "resuming" => /\ e.type = "attempt" /\ e.session = j.successor
                         /\ e.about = j.ordinal + 1
  BY DEF IsFact, Event
<1>8. SoleLegal(e)
  <2>1. CASE ph = "rotation"
    BY <1>5, <2>1 DEF SoleLegal, SoleKnows
  <2>2. CASE ph = "complete"
    BY <1>6, <2>2 DEF SoleLegal, SoleKnows, Followed, Closing
  <2>3. CASE ph = "resuming"
    <3>1. /\ Requested(j.predecessor) /\ Worker.session = j.predecessor
          /\ Created(j.successor, j.predecessor)
      BY <2>3 DEF SoleKnows, Asked, Followed, Chosen, Binding, Closing
    <3> QED
      BY <1>7, <2>3, <3>1 DEF SoleLegal
  <2> QED
    BY <1>4, <2>1, <2>2, <2>3 DEF SoleLegal
<1>9. /\ e.type # "attempt" => Worker' = Worker
      /\ e.type = "attempt" => Attempts(HeadSeq)' = Attempts(HeadSeq) \cup {h + 1}
  BY <1>1, AttemptsGrow DEF LogInv
<1>10. HeadSeq' = h + 1 /\ stream'[h + 1] = e
  BY <1>1, OneMore DEF LogInv, StreamIsMeant
<1>11. ph = "rotation" => Requested(j.predecessor)'
  <2>1. h + 1 \in 1..(h + 1)
    BY <1>2
  <2> QED
    BY <1>5, <1>10, <2>1 DEF Requested, RotationRequested, Of
<1>12. ph = "resuming" => /\ AttemptIn(k + 1, j.successor)'
                          /\ Requested(j.predecessor)' /\ Worked(j.predecessor, j.successor)'
  <2> SUFFICES ASSUME ph = "resuming"
               PROVE  /\ AttemptIn(k + 1, j.successor)'
                      /\ Requested(j.predecessor)' /\ Worked(j.predecessor, j.successor)'
    OBVIOUS
  <2>1. Requested(j.predecessor) /\ Worker.session = j.predecessor
    BY DEF SoleKnows, Asked, Followed, Chosen, Binding, Closing
  <2>2. h + 1 \in Attempts(HeadSeq)' /\ h + 1 # 2 /\ (h + 1) - 1 = h /\ h \in 2..h
    BY <1>2, <1>7, <1>9
  <2>3. Latest(h)' = Latest(h) /\ Latest(h) = Worker
    BY <1>1, <1>2, <2>2 DEF SolePast, Worker
  <2>4. AttemptIn(k + 1, j.successor)'
    BY <1>1, <1>7, <1>10, <2>2 DEF AttemptIn
  <2>5. WorkedFor(j.predecessor, j.successor, HeadSeq)'
    BY <1>7, <1>10, <2>1, <2>2, <2>3 DEF WorkedFor
  <2>6. Requested(j.predecessor)'
    BY <1>2, <2>1 DEF SolePast
  <2> QED
    BY <2>4, <2>5, <2>6 DEF Worked
<1>13. Carries(ph, j)'
  <2>1. ph \notin {"rotation", "resuming"} => SoleKnows(ph, j)'
    BY <1>2, <1>4, <1>6, <1>9, SoleKnowledgeStands
  <2> QED
    BY <1>11, <1>12, <2>1 DEF Carries
<1>14. SoleRow(row)'
  <2>1. \A p : row.command_id = <<"rotation", p, "REQUEST">> => Requested(p)'
    BY <1>3, <1>11, SoleIds
  <2>2. ASSUME NEW m \in Nat, row.command_id = <<"operation", m + 1, "RESUME">>
        PROVE  \E s : AttemptIn(m + 1, s)'
    <3>1. ph = "resuming" /\ m = k
      BY <1>1, <1>3, <2>2, SoleIds
    <3> QED
      BY <1>12, <3>1
  <2> QED
    BY <2>1, <2>2 DEF SoleRow
<1>15. SoleLog'
  <2>1. StreamIsMeant
    BY DEF LogInv
  <2> QED
    BY <1>8, <1>14, <2>1, SoleLogKept
<1> QED
  BY <1>13, <1>15

LEMMA SoleSend ==
    ASSUME RInv, RInv', SoleInv, NEW c \in Callers, \A d \in Callers : d = c, Send(c)
    PROVE  SoleInv'
<1>1. PICK j, ph, h : j = job[c] /\ ph = phase[c] /\ h = HeadSeq
  OBVIOUS
<1>2. PICK request : request = CommandOf(c)
  OBVIOUS
<1>3. PICK cmd : cmd = Command(request.id, NoKey, j.cursor, request.intent)
  OBVIOUS
<1>4. LogInv /\ LogInv' /\ CallsInv /\ SoleLog /\ StreamIsMeant /\ h \in Nat
  BY <1>1 DEF RInv, LogInv, StreamIsMeant, SoleInv
<1>5. /\ briefed' = briefed /\ j.sending
      /\ \/ /\ UNCHANGED log
            /\ \/ Leave(c)
               \/ \E row \in rows : /\ row.command_id = request.id /\ row.answer.ok
                                    /\ Proceed(c, row.answer.last_seq)
         \/ \E code : /\ \A r \in rows : r.command_id # request.id
                      /\ rows' = rows \cup {Row(cmd, Rejected(code))}
                      /\ stream' = stream /\ Leave(c)
         \/ /\ \A r \in rows : r.command_id # request.id
            /\ j.cursor = h /\ request.facts # << >>
            /\ rows' = rows \cup {Row(cmd, Accepted(h + Len(request.facts)))}
            /\ stream' = stream \o request.facts
            /\ Proceed(c, h + Len(request.facts))
  BY <1>1, <1>2, <1>3, SendOutcomes
<1>6. Knows(ph, j) /\ SoleKnows(ph, j) /\ ph \in DOMAIN After
  BY <1>1, <1>4, <1>5 DEF CallsInv, Knows, SoleInv, SoleCalls
<1>7. IsIdAt(request.id, ph, j)
  <2>1. IsRequest(request, ph, j)
    BY <1>1, <1>2, <1>6, CommandIs
  <2> QED
    BY <2>1 DEF IsRequest, IsIdAt
<1>8. \A answer : /\ Row(cmd, answer).command_id = request.id
                  /\ Row(cmd, answer).answer = answer
  BY <1>3 DEF Row, Command
<1>9. UNCHANGED <<opencode, created>>
  BY DEF Send, world
<1>10. CASE /\ UNCHANGED log
            /\ \/ Leave(c)
               \/ \E row \in rows : /\ row.command_id = request.id /\ row.answer.ok
                                    /\ Proceed(c, row.answer.last_seq)
  <2>1. UNCHANGED <<log, opencode, created>>
    BY <1>9, <1>10
  <2>2. CASE \E row \in rows : /\ row.command_id = request.id /\ row.answer.ok
                               /\ Proceed(c, row.answer.last_seq)
    <3>1. PICK row \in rows : /\ row.command_id = request.id /\ row.answer.ok
                              /\ Proceed(c, row.answer.last_seq)
      BY <2>2
    <3>2. Carries(ph, j)
      BY <1>4, <1>6, <1>7, <3>1, RecordCarries
    <3>3. SoleLog' /\ (SoleKnows(ph, j) => SoleKnows(ph, j)')
      BY <2>1, SoleStays
    <3>4. Carries(ph, j)'
      <4>1. /\ \A p : Requested(p)' <=> Requested(p)
            /\ \A p, s : Worked(p, s)' <=> Worked(p, s)
        BY <2>1 DEF log, Attempts, Latest, HeadSeq, Requested, RotationRequested, Of,
                    Worked, WorkedFor
      <4> QED
        BY <1>6, <3>2, <3>3, <4>1 DEF Carries
    <3> QED
      BY <1>1, <1>4, <1>6, <3>1, <3>3, <3>4, SoleProceeds
  <2> QED
    BY <1>10, <2>1, <2>2, SoleReturns
<1>11. CASE \E code : /\ \A r \in rows : r.command_id # request.id
                      /\ rows' = rows \cup {Row(cmd, Rejected(code))}
                      /\ stream' = stream /\ Leave(c)
  <2>1. PICK code : rows' = rows \cup {Row(cmd, Rejected(code))} /\ stream' = stream /\ Leave(c)
    BY <1>11
  <2>2. PICK row : row = Row(cmd, Rejected(code))
    OBVIOUS
  <2>3. ~row.answer.ok
    BY <1>8, <2>2 DEF Rejected
  <2>4. rows' = rows \cup {row} /\ SoleRow(row)'
    BY <2>1, <2>2, <2>3 DEF SoleRow
  <2>5. \A m, s : AttemptIn(m, s) => AttemptIn(m, s)'
    BY <2>1 DEF AttemptIn, Attempts, HeadSeq
  <2>6. SoleLog'
    BY <1>4, <1>9, <2>1, <2>4, <2>5, SoleLogKept
  <2>7. SoleKnows("idle", NoJob)'
    BY DEF SoleKnows, Asked, Followed, Chosen, Binding, Closing
  <2>8. SoleCalls'
    BY <1>4, <2>1, <2>7, SoleCallMoves DEF Leave
  <2> QED
    BY <2>6, <2>8 DEF SoleInv
<1>12. CASE /\ \A r \in rows : r.command_id # request.id
            /\ j.cursor = h /\ request.facts # << >>
            /\ rows' = rows \cup {Row(cmd, Accepted(h + Len(request.facts)))}
            /\ stream' = stream \o request.facts
            /\ Proceed(c, h + Len(request.facts))
  <2>1. PICK e : request.facts = <<e>> /\ Legal(e) /\ IsFact(e, ph, j)
    BY <1>1, <1>2, <1>4, <1>5, <1>6, <1>12, FactsAreLegal
  <2>2. Grows(e)
    BY <1>4, <1>12, <2>1, AppendedStream DEF Grows, StreamIsMeant
  <2>3. PICK row, seq : row = Row(cmd, Accepted(h + Len(request.facts)))
                        /\ seq = h + Len(request.facts)
    OBVIOUS
  <2>4. rows' = rows \cup {row} /\ IsIdAt(row.command_id, ph, j) /\ Proceed(c, seq)
    BY <1>7, <1>8, <1>12, <2>3
  <2>5. \A m, s : AttemptIn(m, s) => AttemptIn(m, s)'
    <3>1. StreamMoves /\ rows \subseteq rows' /\ briefed \subseteq briefed'
      BY <1>5, <2>1, <2>2, <2>4 DEF StreamMoves
    <3>2. Stands(h)
      BY <1>1, <1>4, <3>1, MissionMoves
    <3> QED
      BY <3>2 DEF Stands
  <2>6. SoleLog' /\ Carries(ph, j)'
    BY <1>4, <1>6, <1>9, <2>1, <2>2, <2>4, <2>5, SoleAcceptance
  <2> QED
    BY <1>1, <1>4, <1>6, <2>4, <2>6, SoleProceeds
<1> QED
  BY <1>5, <1>10, <1>11, <1>12

LEMMA SoleOthersWrite ==
    ASSUME RInv, SoleInv, OthersWrite
    PROVE  SoleInv'
<1>1. PICK h : h = HeadSeq
  OBVIOUS
<1>2. /\ rows' = rows /\ phase' = phase /\ job' = job /\ UNCHANGED <<opencode, created>>
      /\ StreamIsMeant /\ SoleLog
  BY DEF OthersWrite, calls, world, RInv, LogInv, SoleInv
<1>3. PICK e : Grows(e) /\ e.type \in {"closed", "other", "task_left"}
  <2>1. PICK type \in OtherEvents :
          stream' = Append(stream, IF type = "task_session_closed"
                                   THEN Event("closed", Latest(HeadSeq).session, 0)
                                   ELSE Event(type, NoSession, 0))
    BY DEF OthersWrite
  <2>2. type \in {"other", "task_left", "task_session_closed"}
    BY SessionRotationAssumption DEF SessionRotationAssumption
  <2>3. PICK e : e = IF type = "task_session_closed"
                     THEN Event("closed", Latest(HeadSeq).session, 0)
                     ELSE Event(type, NoSession, 0)
    OBVIOUS
  <2>4. e.type \in {"closed", "other", "task_left"}
    BY <2>2, <2>3 DEF Event
  <2> QED
    BY <2>1, <2>3, <2>4 DEF Grows
<1>4. SoleLegal(e)
  BY <1>3 DEF SoleLegal
<1>5. /\ Worker' = Worker /\ Attempts(HeadSeq)' = Attempts(HeadSeq)
      /\ \A i \in 1..h : stream'[i] = stream[i]
  BY <1>1, <1>2, <1>3, AttemptsGrow, OneMore DEF StreamIsMeant, SamePast
<1>6. \A m, s : AttemptIn(m, s) => AttemptIn(m, s)'
  BY <1>1, <1>5 DEF AttemptIn, Attempts
<1>7. SoleLog'
  BY <1>2, <1>3, <1>4, <1>6, SoleLogKept
<1>8. SolePast(h)
  BY <1>1, <1>2, <1>3, SolePasts
<1>9. ASSUME NEW c \in Callers PROVE SoleKnows(phase[c], job[c])'
  <2>1. PICK q, k : q = phase[c] /\ k = job[c]
    OBVIOUS
  <2>2. SoleKnows(q, k)'
    BY <1>2, <1>5, <1>8, <2>1, SoleKnowledgeStands DEF SoleInv, SoleCalls
  <2>3. phase'[c] = q /\ job'[c] = k
    BY <1>2, <2>1
  <2> QED
    BY <2>2, <2>3 DEF SoleKnows
<1> QED
  BY <1>7, <1>9 DEF SoleInv, SoleCalls

LEMMA SoleInit == Init => SoleInv
<1> SUFFICES ASSUME Init PROVE SoleInv
  OBVIOUS
<1>1. IsBeginning(stream)
  BY InitBegins
<1>2. PICK n : n = HeadSeq
  OBVIOUS
<1>3. /\ n \in Nat /\ n >= 2 /\ 1 \in 1..n /\ 2 \in 1..n
      /\ \A i \in 1..n : i = 1 \/ i = 2 \/ i \in 3..n
  BY <1>1, <1>2, StreamShape DEF IsBeginning, HeadSeq
<1>4. /\ stream[1].type = "opened" /\ stream[2].type = "attempt" /\ stream[2].session = 1
      /\ \A i \in 3..n : Harmless(stream[i])
  BY <1>1, <1>2 DEF IsBeginning, Event, HeadSeq
<1>5. Attempts(HeadSeq) = {2}
  BY <1>2, <1>3, <1>4 DEF Attempts, Harmless
<1>6. \A i \in 1..n : stream[i].type \notin {"rotation_requested", "rotation_completed"}
  BY <1>3, <1>4 DEF Harmless
<1>7. \A p : ~Requested(p)
  BY <1>2, <1>6 DEF Requested, RotationRequested, Of
<1>8. created = 1 /\ opencode = {[session |-> 1, token |-> NoSession]} /\ rows = {}
  BY DEF Init
<1>9. AttemptsWereAsked /\ CompletionsAreOfWorkers /\ SoleRows
  BY <1>2, <1>5, <1>6, <1>8 DEF AttemptsWereAsked, CompletionsAreOfWorkers, SoleRows
<1>10. SessionsAreKnown
  BY <1>4, <1>5, <1>7, <1>8 DEF SessionsAreKnown
<1>11. TokensAreMeant
  BY <1>5, <1>8 DEF TokensAreMeant, IsTokenOf
<1>12. SoleCalls
  <2>1. \A c \in Callers : phase[c] = "idle"
    BY DEF Init
  <2> QED
    BY <2>1 DEF SoleCalls, SoleKnows, Asked, Followed, Chosen, Binding, Closing
<1> QED
  BY <1>9, <1>10, <1>11, <1>12 DEF SoleInv, SoleLog

(* The invariant of a single caller, whatever it dies of and whatever      *)
(* others write meanwhile.                                                 *)
THEOREM SoleInvariant ==
    ASSUME \A c, d \in Callers : c = d
    PROVE  Spec => [](RInv /\ SoleInv)
<1>1. RInv /\ SoleInv /\ RInv' /\ [Next]_vars => SoleInv'
  <2> SUFFICES ASSUME RInv, SoleInv, RInv', [Next]_vars PROVE SoleInv'
    OBVIOUS
  <2>1. ASSUME NEW c \in Callers, Step(c) PROVE SoleInv'
    <3>1. \A d \in Callers : d = c
      OBVIOUS
    <3> QED
      BY <2>1, <3>1, SoleBegin, SoleCheckEffect, SoleReadHead, SoleSend, SoleRecheck, SoleList, SoleCreate,
         SoleDecide, SoleCheckStep, SoleSendContext, SoleDelete DEF Step
  <2>2. ASSUME NEW c \in Callers, Crash(c) PROVE SoleInv'
    <3>1. UNCHANGED <<log, opencode, created>> /\ Leave(c)
      BY <2>2 DEF Crash, world
    <3>2. \A d \in Callers : d = c
      OBVIOUS
    <3> QED
      BY <3>1, <3>2, SoleReturns
  <2>3. CASE OthersWrite
    BY <2>3, SoleOthersWrite
  <2>4. CASE UNCHANGED vars
    <3>1. UNCHANGED <<log, opencode, created>> /\ phase' = phase /\ job' = job
      BY <2>4 DEF vars, calls, world
    <3>2. SoleLog' /\ \A ph, j : SoleKnows(ph, j) => SoleKnows(ph, j)'
      BY <3>1, SoleStays
    <3>3. ASSUME NEW c \in Callers PROVE SoleKnows(phase[c], job[c])'
      <4>1. PICK q, k : q = phase[c] /\ k = job[c]
        OBVIOUS
      <4>2. SoleKnows(q, k)'
        BY <3>2, <4>1 DEF SoleInv, SoleCalls
      <4>3. phase'[c] = q /\ job'[c] = k
        BY <3>1, <4>1
      <4> QED
        BY <4>2, <4>3 DEF SoleKnows
    <3> QED
      BY <3>2, <3>3 DEF SoleInv, SoleCalls
  <2> QED
    BY <2>1, <2>2, <2>3, <2>4 DEF Next
<1> QED
  BY <1>1, RotationInvariant, SoleInit, PTL DEF Spec

(* The number of Attempts is the ordinal of the latest.                    *)
LEMMA AttemptsAreCounted ==
    ASSUME LogInv
    PROVE  {stream[i].about : i \in Attempts(HeadSeq)} = 1..Cardinality(Attempts(HeadSeq))
<1>1. PICK S, k : S = Attempts(HeadSeq) /\ k = Worker.ordinal
  OBVIOUS
<1>2. /\ k \in Nat /\ \A a \in S : stream[a].about \in 1..k
      /\ \A a, b \in S : stream[a].about = stream[b].about => a = b
      /\ \A m \in 1..k : \E a \in S : stream[a].about = m
  BY <1>1 DEF LogInv, Chain, AttemptIn
<1>3. ExistsBijection(S, 1..k)
  <2>1. PICK f : f = [a \in S |-> stream[a].about]
    OBVIOUS
  <2>2. f \in [S -> 1..k] /\ \A a \in S : f[a] = stream[a].about
    BY <1>2, <2>1
  <2>3. f \in Bijection(S, 1..k)
    <3>1. \A a, b \in S : f[a] = f[b] => a = b
      BY <1>2, <2>2
    <3>2. \A t \in 1..k : \E s \in S : f[s] = t
      BY <1>2, <2>2
    <3> QED
      BY <2>2, <3>1, <3>2, Fun_IsBij
  <2> QED
    BY <2>3, Fun_ExistsBij
<1>4. ExistsBijection(1..k, S)
  BY <1>3, Fun_ExistsBijSymmetric
<1>5. Cardinality(S) = k
  BY <1>2, <1>4, FS_CountingElements
<1> QED
  BY <1>1, <1>2, <1>5

(* A single caller, with its deaths and retries, never rotates a successor *)
(* again: an Attempt but the first stands for a rotation that was asked    *)
(* for, and their ordinals leave no gap.                                   *)
THEOREM AttemptsAreRotations ==
    ASSUME \A c, d \in Callers : c = d
    PROVE  Spec => []OneAttemptPerRotation
<1>1. RInv /\ SoleInv => OneAttemptPerRotation
  <2> SUFFICES ASSUME RInv, SoleInv PROVE OneAttemptPerRotation
    OBVIOUS
  <2>1. {stream[i].about : i \in Attempts(HeadSeq)} = 1..Cardinality(Attempts(HeadSeq))
    BY AttemptsAreCounted DEF RInv
  <2>2. stream[2].about = 1
    BY DEF RInv, LogInv, StreamIsMeant, Event
  <2>3. \A i \in Attempts(HeadSeq) :
          stream[i].about > 1 => RotationRequested(Latest(i - 1).session, i - 1)
    BY <2>2 DEF SoleInv, SoleLog, AttemptsWereAsked
  <2> QED
    BY <2>1, <2>3 DEF OneAttemptPerRotation
<1> QED
  BY <1>1, SoleInvariant, PTL

(* The successor a single caller completes a rotation with is the Session  *)
(* the Attempt moved to from the predecessor.                              *)
THEOREM SuccessorsAreWorkers ==
    ASSUME \A c, d \in Callers : c = d
    PROVE  Spec => []SuccessorIsTheWorker
<1>1. SoleInv => SuccessorIsTheWorker
  BY DEF SoleInv, SoleLog, CompletionsAreOfWorkers, WorkedFor, SuccessorIsTheWorker
<1> QED
  BY <1>1, SoleInvariant, PTL
=============================================================================
