---------------------------- MODULE HumanGateProofs ----------------------------
(***************************************************************************)
(* HumanGate for any gates, lineages, people and policies, and any bound,  *)
(* and behind it DispatchLoop for any Tasks, loops and budgets.            *)
(*                                                                         *)
(* A payload is built from a gate that is read before the head is, and the *)
(* handler looks again at the gates the events lead to.  So it is enough   *)
(* to show that the reducer accepts what the handlers accept on the same   *)
(* gates, and what one event does to them; GatesAt is then followed along  *)
(* the stream, which no step shortens.                                     *)
(*                                                                         *)
(* The second part, from "DispatchLoop" on, says what a turn may rely on   *)
(* although the Mission moves on under it.                                 *)
(***************************************************************************)
EXTENDS DispatchLoop, MissionLogProofs

NoGates == [g \in Gates |-> NoGate]

-----------------------------------------------------------------------------
(* GatesAt as a function of the stream.                                    *)

Unfolds(f, N, s) ==
    f = [n \in N |-> IF n = 0 THEN NoGates ELSE ReduceGate(f[n - 1], s[n])]

(* There is such a function on every initial segment of Nat, ...           *)
LEMMA SegmentExists ==
    ASSUME NEW s, NEW n \in Nat
    PROVE  \E f : Unfolds(f, 0..n, s)
<1> DEFINE S == {m \in Nat : \E f : Unfolds(f, 0..m, s)}
<1>1. 0 \in S
  <2>1. Unfolds([k \in 0..0 |-> NoGates], 0..0, s)
    BY DEF Unfolds
  <2> QED
    BY <2>1
<1>2. ASSUME NEW m \in Nat, NEW f, Unfolds(f, 0..m, s) PROVE \E g : Unfolds(g, 0..(m + 1), s)
  <2> DEFINE g == [k \in 0..(m + 1) |-> IF k <= m THEN f[k] ELSE ReduceGate(f[m], s[m + 1])]
  <2>1. ASSUME NEW k \in 0..(m + 1)
        PROVE  g[k] = IF k = 0 THEN NoGates ELSE ReduceGate(g[k - 1], s[k])
    <3>1. CASE k = 0
      BY <1>2, <3>1 DEF Unfolds
    <3>2. CASE k \in 1..m
      <4>1. g[k] = f[k] /\ g[k - 1] = f[k - 1] /\ k \in 0..m
        BY <3>2
      <4> QED
        BY <1>2, <3>2, <4>1 DEF Unfolds
    <3>3. CASE k = m + 1
      <4>1. g[k] = ReduceGate(f[m], s[m + 1]) /\ g[k - 1] = f[m]
        BY <3>3
      <4> QED
        BY <3>3, <4>1
    <3> QED
      BY <3>1, <3>2, <3>3
  <2>2. Unfolds(g, 0..(m + 1), s)
    BY <2>1 DEF Unfolds
  <2> HIDE DEF g
  <2> QED
    BY <2>2
<1>3. \A m \in Nat : m \in S => m + 1 \in S
  BY <1>2
<1>4. Nat \subseteq S
  <2> HIDE DEF S
  <2> QED
    BY <1>1, <1>3, NatSetInduction
<1> QED
  BY <1>4

(* ... and streams that agree lead to the same gates.                      *)
LEMMA SegmentsAgree ==
    ASSUME NEW s, NEW t, NEW N, NEW M, NEW f, NEW g, NEW h \in Nat,
           Unfolds(f, N, s), Unfolds(g, M, t), 0..h \subseteq N, 0..h \subseteq M,
           \A n \in 1..h : s[n] = t[n]
    PROVE  \A n \in 0..h : f[n] = g[n]
<1> DEFINE S == {n \in Nat : n <= h => f[n] = g[n]}
<1>1. \A n \in 0..h : /\ f[n] = IF n = 0 THEN NoGates ELSE ReduceGate(f[n - 1], s[n])
                      /\ g[n] = IF n = 0 THEN NoGates ELSE ReduceGate(g[n - 1], t[n])
  BY DEF Unfolds
<1>2. 0 \in S
  BY <1>1
<1>3. ASSUME NEW n \in Nat, n \in S PROVE n + 1 \in S
  <2> SUFFICES ASSUME n + 1 <= h PROVE f[n + 1] = g[n + 1]
    OBVIOUS
  <2>1. PICK m : m = n + 1
    OBVIOUS
  <2>2. m \in 0..h /\ m \in 1..h /\ m # 0 /\ m - 1 = n /\ f[n] = g[n]
    BY <1>3, <2>1
  <2>3. f[m] = ReduceGate(f[n], s[m]) /\ g[m] = ReduceGate(g[n], t[m])
    BY <1>1, <2>2
  <2> QED
    BY <2>1, <2>2, <2>3
<1>4. \A n \in Nat : n \in S => n + 1 \in S
  BY <1>3
<1>5. Nat \subseteq S
  <2> HIDE DEF S
  <2> QED
    BY <1>2, <1>4, NatSetInduction
<1> QED
  BY <1>5

GatesFrom(s) == CHOOSE f : Unfolds(f, Nat, s)

(* ... so on all of Nat.                                                   *)
LEMMA GatesFromUnfolds == ASSUME NEW s PROVE Unfolds(GatesFrom(s), Nat, s)
<1> DEFINE h(n) == CHOOSE f : Unfolds(f, 0..n, s)
           F == [n \in Nat |-> h(n)[n]]
<1>1. \A n \in Nat : Unfolds(h(n), 0..n, s)
  BY SegmentExists
<1> HIDE DEF h
<1>2. ASSUME NEW n \in Nat
      PROVE  F[n] = IF n = 0 THEN NoGates ELSE ReduceGate(F[n - 1], s[n])
  <2>1. Unfolds(h(n), 0..n, s) /\ F[n] = h(n)[n]
    BY <1>1
  <2>2. CASE n = 0
    BY <2>1, <2>2 DEF Unfolds
  <2>3. CASE n # 0
    <3>1. PICK m \in Nat : n = m + 1
      <4>1. n - 1 \in Nat /\ n = (n - 1) + 1
        BY <2>3
      <4> QED
        BY <4>1
    <3>2. F[n - 1] = h(m)[m] /\ Unfolds(h(m), 0..m, s) /\ m \in 0..m /\ 0..m \subseteq 0..n
      BY <1>1, <3>1
    <3>3. h(n)[m] = h(m)[m]
      <4>1. PICK a, b : a = h(n) /\ b = h(m)
        OBVIOUS
      <4>2. Unfolds(a, 0..n, s) /\ Unfolds(b, 0..m, s) /\ 0..m \subseteq 0..n
            /\ 0..m \subseteq 0..m
        BY <2>1, <3>2, <4>1
      <4>3. \A k \in 1..m : s[k] = s[k]
        OBVIOUS
      <4>4. \A k \in 0..m : a[k] = b[k]
        BY <4>2, <4>3, SegmentsAgree
      <4> QED
        BY <3>2, <4>1, <4>4
    <3>4. h(n)[n] = ReduceGate(h(n)[n - 1], s[n]) /\ n - 1 = m
      BY <2>1, <2>3, <3>1 DEF Unfolds
    <3> QED
      BY <2>1, <2>3, <3>2, <3>3, <3>4
  <2> QED
    BY <2>2, <2>3
<1>3. Unfolds(F, Nat, s)
  BY <1>2 DEF Unfolds
<1> QED
  <2> HIDE DEF F
  <2> QED
    BY <1>3 DEF GatesFrom

(* Streams that agree so far lead to the same gates so far.                *)
LEMMA SameGates ==
    ASSUME NEW s, NEW t, NEW h \in Nat, \A n \in 1..h : s[n] = t[n]
    PROVE  \A n \in 0..h : GatesFrom(s)[n] = GatesFrom(t)[n]
<1>1. PICK f, g : f = GatesFrom(s) /\ g = GatesFrom(t)
  OBVIOUS
<1>2. Unfolds(f, Nat, s) /\ Unfolds(g, Nat, t)
  BY <1>1, GatesFromUnfolds
<1>3. 0..h \subseteq Nat
  OBVIOUS
<1>4. \A n \in 0..h : f[n] = g[n]
  BY <1>2, <1>3, SegmentsAgree
<1> QED
  BY <1>1, <1>4

(* The gates of the specification are those of its stream, ...             *)
LEMMA GatesAtIs == GatesAt = GatesFrom(stream)
BY DEF GatesAt, GatesFrom, Unfolds, NoGates

(* ... and follow from event to event.                                     *)
LEMMA GatesFollow ==
    ASSUME NEW s, NEW n \in Nat
    PROVE  /\ GatesFrom(s)[0] = NoGates
           /\ GatesFrom(s)[n + 1] = ReduceGate(GatesFrom(s)[n], s[n + 1])
<1>1. PICK f : f = GatesFrom(s)
  OBVIOUS
<1>2. \A k \in Nat : f[k] = IF k = 0 THEN NoGates ELSE ReduceGate(f[k - 1], s[k])
  BY <1>1, GatesFromUnfolds DEF Unfolds
<1>3. PICK m : m = n + 1
  OBVIOUS
<1>4. m \in Nat /\ m # 0 /\ m - 1 = n
  BY <1>3
<1>5. f[m] = ReduceGate(f[m - 1], s[m])
  BY <1>2, <1>4
<1> QED
  BY <1>1, <1>2, <1>3, <1>4, <1>5

-----------------------------------------------------------------------------
(* One event on the gates.                                                 *)

GateOK(gs) ==
    /\ gs \in [Gates -> GateType \cup {NoGate}]
    /\ \A g \in Gates : gs[g] # NoGate /\ gs[g].status = "PENDING"
                          => gs[g].outcome = "NONE" /\ gs[g].route = "NONE"
    /\ \A l \in Lineages : \A g, h \in Cycle(gs, l) : g = h

(* The gates of gs that ended in a No did so in hs.                        *)
Kept(gs, hs) ==
    \A g \in Gates : gs[g] # NoGate /\ EndedInBlock(gs[g]) =>
        /\ hs[g] # NoGate /\ EndedInBlock(hs[g])
        /\ hs[g].lineage = gs[g].lineage /\ hs[g].outcome = gs[g].outcome

PayloadOK(p) ==
    /\ p.gate \in Gates
    /\ p.kind = "open" => p.lineage \in Lineages /\ p.policy \in Policies

(* A change to a gate that holds its lineage up, and does so still or not. *)
LEMMA GateChanges ==
    ASSUME NEW gs, GateOK(gs), NEW g \in Gates, gs[g] # NoGate, IsUnfinished(gs[g]),
           NEW x \in GateType, x.lineage = gs[g].lineage,
           x.status = "PENDING" => x.outcome = "NONE" /\ x.route = "NONE",
           EndedInBlock(gs[g]) => EndedInBlock(x) /\ x.outcome = gs[g].outcome
    PROVE  GateOK([gs EXCEPT ![g] = x]) /\ Kept(gs, [gs EXCEPT ![g] = x])
<1>1. PICK hs : hs = [gs EXCEPT ![g] = x]
  OBVIOUS
<1>2. /\ hs \in [Gates -> GateType \cup {NoGate}] /\ hs[g] = x
      /\ \A h \in Gates : h # g => hs[h] = gs[h]
      /\ x # NoGate
  BY <1>1, HumanGateAssumption DEF GateOK
<1>3. ASSUME NEW l \in Lineages PROVE Cycle(hs, l) \subseteq Cycle(gs, l)
  <2> SUFFICES ASSUME NEW h \in Cycle(hs, l) PROVE h \in Cycle(gs, l)
    OBVIOUS
  <2>1. CASE h = g
    BY <1>2, <2>1 DEF Cycle, IsBlocking
  <2>2. CASE h # g
    BY <1>2, <2>2 DEF Cycle
  <2> QED
    BY <2>1, <2>2
<1>4. GateOK(hs)
  BY <1>2, <1>3 DEF GateOK
<1>5. Kept(gs, hs)
  BY <1>2 DEF Kept
<1> QED
  BY <1>1, <1>4, <1>5

(* A gate is opened.                                                       *)
LEMMA GateIsOpened ==
    ASSUME NEW gs, GateOK(gs), NEW p, PayloadOK(p), p.kind = "open", OpenMay(gs, p)
    PROVE  LET hs == ReduceGate(gs, GateEvent("gate.opened", p))
           IN  GateOK(hs) /\ Kept(gs, hs)
<1>1. PICK g, x, hs : g = p.gate /\ x = Opened(p) /\ hs = [gs EXCEPT ![g] = x]
  OBVIOUS
<1>2. g \in Gates /\ gs[g] = NoGate /\ Cycle(gs, p.lineage) = {} /\ p.lineage \in Lineages
      /\ p.policy \in Policies
  BY <1>1 DEF OpenMay, PayloadOK
<1>3. gs # Broken
  BY HumanGateAssumption DEF GateOK
<1>4. ReduceGate(gs, GateEvent("gate.opened", p)) = hs
  BY <1>1, <1>2, <1>3 DEF ReduceGate, GateEvent, IsGateEvent, GateEventTypes
<1>5. x \in GateType /\ x.status = "PENDING" /\ x.outcome = "NONE" /\ x.route = "NONE"
      /\ x.lineage = p.lineage
  BY <1>1, <1>2 DEF Opened, GateType, Statuses, Routes
<1>6. /\ hs \in [Gates -> GateType \cup {NoGate}] /\ hs[g] = x
      /\ \A h \in Gates : h # g => hs[h] = gs[h]
  BY <1>1, <1>2, <1>5 DEF GateOK
<1>7. \A l \in Lineages : Cycle(hs, l) \subseteq Cycle(gs, l) \cup (IF l = p.lineage THEN {g} ELSE {})
  BY <1>5, <1>6 DEF Cycle
<1>8. GateOK(hs)
  BY <1>2, <1>5, <1>6, <1>7 DEF GateOK
<1>9. Kept(gs, hs)
  BY <1>2, <1>6 DEF Kept
<1> QED
  BY <1>4, <1>8, <1>9

(* What the reducer makes of an event it takes about a gate it knows.      *)
MovedTo(r, ev) ==
    CASE ev.type = "gate.decided"   -> Decided(r, ev.payload)
      [] ev.type = "gate.escalated" -> [r EXCEPT !.revision = @ + 1]
      [] ev.type = "gate.cancelled" -> [r EXCEPT !.revision = @ + 1, !.status = "CANCELLED"]
      [] ev.type = "gate.expired"   -> [r EXCEPT !.revision = @ + 1, !.status = "EXPIRED"]
      [] OTHER                      -> Continued(r)

(* An event that fits a gate moves that gate.                              *)
LEMMA GateMoves ==
    ASSUME NEW gs, gs # Broken, NEW ev, IsGateEvent(ev), ev.type # "gate.opened",
           gs[ev.of] # NoGate, GateEventFits(gs[ev.of], ev)
    PROVE  ReduceGate(gs, ev) = [gs EXCEPT ![ev.of] = MovedTo(gs[ev.of], ev)]
BY DEF ReduceGate, MovedTo

(* The records it makes, one field at a time.                              *)
LEMMA StatusSet ==
    ASSUME NEW r \in GateType, NEW v \in Statuses
    PROVE  [r EXCEPT !.status = v] \in GateType
BY DEF GateType

(* One field after the other keeps its type.                               *)
LEMMA RevisionSet ==
    ASSUME NEW r \in GateType, NEW v \in Nat
    PROVE  [r EXCEPT !.revision = v] \in GateType
BY DEF GateType

(* The same of outcome and route.                                          *)
LEMMA AnswerSet ==
    ASSUME NEW r \in GateType, NEW o \in Outcomes, NEW v \in Routes
    PROVE  [[r EXCEPT !.outcome = o] EXCEPT !.route = v] \in GateType
<1>1. PICK x : x = [r EXCEPT !.outcome = o]
  OBVIOUS
<1>2. x \in GateType
  BY <1>1 DEF GateType
<1>3. [x EXCEPT !.route = v] \in GateType
  BY <1>2 DEF GateType
<1> QED
  BY <1>1, <1>3

(* The same of the continuation.                                           *)
LEMMA ContinuationSet ==
    ASSUME NEW r \in GateType, NEW c \in {"NOT_REQUIRED", "PENDING", "APPLIED"}, NEW v \in Nat
    PROVE  [[r EXCEPT !.continuation = c] EXCEPT !.continuation_revision = v] \in GateType
<1>1. PICK x : x = [r EXCEPT !.continuation = c]
  OBVIOUS
<1>2. x \in GateType
  BY <1>1 DEF GateType
<1>3. [x EXCEPT !.continuation_revision = v] \in GateType
  BY <1>2 DEF GateType
<1> QED
  BY <1>1, <1>3

(* What a gate is after a decision, ...                                    *)
LEMMA DecidedRecord ==
    ASSUME NEW r \in GateType, NEW p, p.outcome \in Outcomes, p.route \in Routes
    PROVE  /\ Decided(r, p) \in GateType /\ Decided(r, p).lineage = r.lineage
           /\ Decided(r, p).status = "RESOLVED"
<1>1. PICK n, o, d, c, v :
        /\ n = r.revision + 1 /\ o = p.outcome /\ d = p.route
        /\ c = (IF p.route \in Continuing THEN "PENDING" ELSE r.continuation)
        /\ v = (IF p.route \in Continuing THEN r.continuation_revision + 1
                ELSE r.continuation_revision)
  OBVIOUS
<1>2. /\ n \in Nat /\ o \in Outcomes /\ d \in Routes /\ v \in Nat
      /\ c \in {"NOT_REQUIRED", "PENDING", "APPLIED"}
  BY <1>1 DEF GateType
<1>3. Decided(r, p) = [r EXCEPT !.status = "RESOLVED", !.revision = n, !.outcome = o,
                                !.route = d, !.continuation = c, !.continuation_revision = v]
  BY <1>1 DEF Decided
<1>4. PICK a, b, x : /\ a = [[r EXCEPT !.status = "RESOLVED"] EXCEPT !.revision = n]
                     /\ b = [[a EXCEPT !.outcome = o] EXCEPT !.route = d]
                     /\ x = [[b EXCEPT !.continuation = c] EXCEPT !.continuation_revision = v]
  OBVIOUS
<1>5. Decided(r, p) = x
  BY <1>3, <1>4
<1>6. a \in GateType
  BY <1>2, <1>4, StatusSet, RevisionSet DEF Statuses
<1>7. b \in GateType
  BY <1>2, <1>4, <1>6, AnswerSet
<1>8. x \in GateType
  BY <1>2, <1>4, <1>7, ContinuationSet
<1>9. Decided(r, p).lineage = r.lineage /\ Decided(r, p).status = "RESOLVED"
  BY <1>3 DEF GateType
<1> QED
  BY <1>5, <1>8, <1>9

(* ... an escalation, ...                                                  *)
LEMMA EscalatedRecord ==
    ASSUME NEW r \in GateType
    PROVE  LET x == [r EXCEPT !.revision = @ + 1]
           IN  /\ x \in GateType /\ x.lineage = r.lineage
               /\ x.outcome = r.outcome /\ x.route = r.route
BY DEF GateType

(* ... an end without decision, ...                                        *)
LEMMA EndedRecord ==
    ASSUME NEW r \in GateType, NEW status \in {"CANCELLED", "EXPIRED"}
    PROVE  LET x == [r EXCEPT !.revision = @ + 1, !.status = status]
           IN  x \in GateType /\ x.lineage = r.lineage /\ x.status = status
<1>1. PICK n : n = r.revision + 1
  OBVIOUS
<1>2. n \in Nat
  BY <1>1 DEF GateType
<1>3. PICK x : x = [r EXCEPT !.revision = n, !.status = status]
  OBVIOUS
<1>4. x = [[r EXCEPT !.revision = n] EXCEPT !.status = status]
  BY <1>3
<1>5. x \in GateType
  BY <1>2, <1>4, StatusSet, RevisionSet DEF Statuses
<1>6. x.lineage = r.lineage /\ x.status = status
  BY <1>3 DEF GateType
<1> QED
  BY <1>1, <1>3, <1>5, <1>6

(* ... and a continuation.                                                 *)
LEMMA ContinuedRecord ==
    ASSUME NEW r \in GateType
    PROVE  /\ Continued(r) \in GateType /\ Continued(r).lineage = r.lineage
           /\ Continued(r).status = r.status
           /\ Continued(r).outcome = r.outcome /\ Continued(r).route = r.route
<1>1. PICK n, v : n = r.revision + 1 /\ v = r.continuation_revision + 1
  OBVIOUS
<1>2. n \in Nat /\ v \in Nat
  BY <1>1 DEF GateType
<1>3. PICK x : x = [r EXCEPT !.revision = n, !.continuation = "APPLIED",
                             !.continuation_revision = v]
  OBVIOUS
<1>4. PICK a : a = [r EXCEPT !.revision = n]
  OBVIOUS
<1>5. a \in GateType
  BY <1>2, <1>4, RevisionSet
<1>6. x = [[a EXCEPT !.continuation = "APPLIED"] EXCEPT !.continuation_revision = v]
  BY <1>3, <1>4
<1>7. x \in GateType
  BY <1>2, <1>5, <1>6, ContinuationSet
<1>8. x.lineage = r.lineage /\ x.status = r.status /\ x.outcome = r.outcome
      /\ x.route = r.route
  BY <1>3 DEF GateType
<1> QED
  BY <1>1, <1>3, <1>7, <1>8 DEF Continued

(* A gate that is read from good gates.                                    *)
LEMMA GateTyped ==
    ASSUME NEW gs, GateOK(gs), NEW p, GateMay(gs, p), PayloadOK(p),
           NEW r, r = gs[p.gate]
    PROVE  /\ gs # Broken /\ p.gate \in Gates /\ r # NoGate /\ r \in GateType
           /\ p.expected_revision = r.revision
           /\ r.status = (IF p.kind = "continue" THEN "RESOLVED" ELSE "PENDING")
           /\ r.status = "PENDING" => /\ r.outcome = "NONE" /\ r.route = "NONE"
                                      /\ IsUnfinished(r) /\ ~EndedInBlock(r)
<1>1. gs # Broken
  BY HumanGateAssumption DEF GateOK
<1>2. p.gate \in Gates /\ r # NoGate /\ p.expected_revision = r.revision
      /\ r.status = (IF p.kind = "continue" THEN "RESOLVED" ELSE "PENDING")
  BY DEF GateMay, PayloadOK
<1>3. r \in GateType
  BY <1>2 DEF GateOK
<1>4. r.status = "PENDING" => r.outcome = "NONE" /\ r.route = "NONE"
  BY <1>2 DEF GateOK
<1> QED
  BY <1>1, <1>2, <1>3, <1>4 DEF IsUnfinished, EndedInBlock

(* What the reducer makes of the event a handler accepts on good gates.    *)
Fine(gs, ev) == GateOK(ReduceGate(gs, ev)) /\ Kept(gs, ReduceGate(gs, ev))

(* What decide() may do is accepted by the reducer, ...                    *)
LEMMA GateIsDecided ==
    ASSUME NEW gs, GateOK(gs), NEW p, PayloadOK(p), p.kind = "decide", DecisionMay(gs, p)
    PROVE  Fine(gs, GateEvent("gate.decided", p))
<1>1. PICK ev, r, x : /\ ev = GateEvent("gate.decided", p)
                      /\ r = gs[p.gate] /\ x = Decided(r, p)
  OBVIOUS
<1>2. ev.type = "gate.decided" /\ ev.of = p.gate /\ ev.payload = p
  BY <1>1 DEF GateEvent
<1>3. /\ gs # Broken /\ p.gate \in Gates /\ r # NoGate /\ r \in GateType
      /\ p.expected_revision = r.revision /\ r.status = "PENDING"
      /\ IsUnfinished(r) /\ ~EndedInBlock(r)
  BY <1>1, GateTyped DEF DecisionMay
<1>4. <<p.outcome, p.route>> \in Allowed[r.policy] /\ p.expected_continuation = r.continuation_revision
  BY <1>1 DEF DecisionMay
<1>5. p.outcome \in Outcomes /\ p.route \in Routes
  <2>1. r.policy \in Policies
    BY <1>3 DEF GateType
  <2> QED
    BY <1>4, <2>1, HumanGateAssumption
<1>6. GateEventFits(r, ev)
  BY <1>2, <1>3, <1>4 DEF GateEventFits
<1>7. ReduceGate(gs, ev) = [gs EXCEPT ![p.gate] = x]
  <2>1. MovedTo(r, ev) = x
    BY <1>1, <1>2 DEF MovedTo
  <2>2. IsGateEvent(ev) /\ ev.type # "gate.opened"
    BY <1>2 DEF IsGateEvent, GateEventTypes
  <2> QED
    BY <1>1, <1>2, <1>3, <1>6, <2>1, <2>2, GateMoves
<1>8. x \in GateType /\ x.lineage = r.lineage /\ x.status = "RESOLVED"
  BY <1>1, <1>3, <1>5, DecidedRecord
<1>9. GateOK([gs EXCEPT ![p.gate] = x]) /\ Kept(gs, [gs EXCEPT ![p.gate] = x])
  BY <1>1, <1>3, <1>8, GateChanges
<1> QED
  BY <1>1, <1>7, <1>9 DEF Fine

(* ... what escalate() may, ...                                            *)
LEMMA GateIsEscalated ==
    ASSUME NEW gs, GateOK(gs), NEW p, PayloadOK(p), p.kind = "escalate", GateMay(gs, p)
    PROVE  Fine(gs, GateEvent("gate.escalated", p))
<1>1. PICK ev, r, x : /\ ev = GateEvent("gate.escalated", p)
                      /\ r = gs[p.gate] /\ x = [r EXCEPT !.revision = @ + 1]
  OBVIOUS
<1>2. ev.type = "gate.escalated" /\ ev.of = p.gate /\ ev.payload = p
  BY <1>1 DEF GateEvent
<1>3. /\ gs # Broken /\ p.gate \in Gates /\ r # NoGate /\ r \in GateType
      /\ p.expected_revision = r.revision /\ r.status = "PENDING"
      /\ r.outcome = "NONE" /\ r.route = "NONE"
      /\ IsUnfinished(r) /\ ~EndedInBlock(r)
  BY <1>1, GateTyped
<1>4. ReduceGate(gs, ev) = [gs EXCEPT ![p.gate] = x]
  <2>1. GateEventFits(r, ev)
    BY <1>2, <1>3 DEF GateEventFits
  <2>2. MovedTo(r, ev) = x
    BY <1>1, <1>2 DEF MovedTo
  <2>3. IsGateEvent(ev) /\ ev.type # "gate.opened"
    BY <1>1, <1>2 DEF IsGateEvent, GateEventTypes
  <2> QED
    BY <1>1, <1>2, <1>3, <2>1, <2>2, <2>3, GateMoves
<1>5. /\ x \in GateType /\ x.lineage = r.lineage
      /\ x.outcome = r.outcome /\ x.route = r.route
  BY <1>1, <1>3, EscalatedRecord
<1>6. GateOK([gs EXCEPT ![p.gate] = x]) /\ Kept(gs, [gs EXCEPT ![p.gate] = x])
  BY <1>1, <1>3, <1>5, GateChanges
<1> QED
  BY <1>1, <1>4, <1>6 DEF Fine

(* A gate that is cancelled, or that expires.                              *)
LEMMA GateEnds ==
    ASSUME NEW gs, GateOK(gs), NEW p, PayloadOK(p), GateMay(gs, p),
           NEW type, NEW status,
           \/ type = "gate.cancelled" /\ p.kind = "cancel" /\ status = "CANCELLED"
           \/ type = "gate.expired" /\ p.kind = "expire" /\ ExpiryMay(gs, p) /\ status = "EXPIRED"
    PROVE  Fine(gs, GateEvent(type, p))
<1>1. PICK ev, r, x : /\ ev = GateEvent(type, p)
                      /\ r = gs[p.gate] /\ x = [r EXCEPT !.revision = @ + 1, !.status = status]
  OBVIOUS
<1>2. ev.type = type /\ ev.of = p.gate /\ ev.payload = p
  BY <1>1 DEF GateEvent
<1>3. /\ gs # Broken /\ p.gate \in Gates /\ r # NoGate /\ r \in GateType
      /\ p.expected_revision = r.revision /\ r.status = "PENDING"
      /\ IsUnfinished(r) /\ ~EndedInBlock(r)
  BY <1>1, GateTyped
<1>4. ReduceGate(gs, ev) = [gs EXCEPT ![p.gate] = x]
  <2>1. GateEventFits(r, ev)
    BY <1>1, <1>2, <1>3 DEF GateEventFits, ExpiryMay
  <2>2. MovedTo(r, ev) = x
    BY <1>1, <1>2 DEF MovedTo
  <2>3. IsGateEvent(ev) /\ ev.type # "gate.opened"
    BY <1>1, <1>2 DEF IsGateEvent, GateEventTypes
  <2> QED
    BY <1>1, <1>2, <1>3, <2>1, <2>2, <2>3, GateMoves
<1>5. x \in GateType /\ x.lineage = r.lineage /\ x.status # "PENDING"
  <2>1. status \in {"CANCELLED", "EXPIRED"}
    OBVIOUS
  <2>2. x \in GateType /\ x.lineage = r.lineage /\ x.status = status
    BY <1>1, <1>3, <2>1, EndedRecord
  <2> QED
    BY <2>1, <2>2
<1>6. GateOK([gs EXCEPT ![p.gate] = x]) /\ Kept(gs, [gs EXCEPT ![p.gate] = x])
  BY <1>1, <1>3, <1>5, GateChanges
<1> QED
  BY <1>1, <1>4, <1>6 DEF Fine

(* ... and what continue_gate() may.                                       *)
LEMMA GateIsContinued ==
    ASSUME NEW gs, GateOK(gs), NEW p, PayloadOK(p), p.kind = "continue", ContinuationMay(gs, p)
    PROVE  Fine(gs, GateEvent("gate.continued", p))
<1>1. PICK ev, r, x : /\ ev = GateEvent("gate.continued", p)
                      /\ r = gs[p.gate] /\ x = Continued(r)
  OBVIOUS
<1>2. ev.type = "gate.continued" /\ ev.of = p.gate /\ ev.payload = p
  BY <1>1 DEF GateEvent
<1>3. /\ gs # Broken /\ p.gate \in Gates /\ r # NoGate /\ r \in GateType
      /\ p.expected_revision = r.revision /\ r.status = "RESOLVED"
  BY <1>1, GateTyped DEF ContinuationMay
<1>4. /\ p.expected_continuation = r.continuation_revision
      /\ r.continuation = "PENDING" /\ p.route = r.route /\ p.route \in Continuing
  BY <1>1 DEF ContinuationMay, Sources
<1>5. ReduceGate(gs, ev) = [gs EXCEPT ![p.gate] = x]
  <2>1. GateEventFits(r, ev)
    BY <1>2, <1>3, <1>4 DEF GateEventFits
  <2>2. MovedTo(r, ev) = x
    BY <1>1, <1>2 DEF MovedTo
  <2>3. IsGateEvent(ev) /\ ev.type # "gate.opened"
    BY <1>1, <1>2 DEF IsGateEvent, GateEventTypes
  <2> QED
    BY <1>1, <1>2, <1>3, <2>1, <2>2, <2>3, GateMoves
<1>6. /\ x \in GateType /\ x.lineage = r.lineage /\ x.status = "RESOLVED"
      /\ x.outcome = r.outcome /\ x.route = r.route
  BY <1>1, <1>3, ContinuedRecord
<1>7. IsUnfinished(r) /\ (EndedInBlock(r) => EndedInBlock(x))
  BY <1>3, <1>4, <1>6 DEF IsUnfinished, EndedInBlock
<1>8. GateOK([gs EXCEPT ![p.gate] = x]) /\ Kept(gs, [gs EXCEPT ![p.gate] = x])
  BY <1>1, <1>3, <1>6, <1>7, GateChanges
<1> QED
  BY <1>1, <1>5, <1>8 DEF Fine

(* Whatever a handler accepts, the reducer accepts on the same gates.      *)
LEMMA HandlerFitsReducer ==
    ASSUME NEW gs, GateOK(gs), NEW p, PayloadOK(p)
    PROVE  \/ GateFacts(gs, p) = << >>
           \/ \E ev : GateFacts(gs, p) = <<ev>> /\ Fine(gs, ev)
<1>1. CASE p.kind = "open"
  <2>1. GateFacts(gs, p) = IF OpenMay(gs, p) THEN << GateEvent("gate.opened", p) >> ELSE << >>
    BY <1>1 DEF GateFacts
  <2> QED
    BY <1>1, <2>1, GateIsOpened DEF Fine
<1>2. CASE p.kind = "decide"
  <2>1. GateFacts(gs, p) = IF DecisionMay(gs, p) THEN << GateEvent("gate.decided", p) >> ELSE << >>
    BY <1>2 DEF GateFacts
  <2> QED
    BY <1>2, <2>1, GateIsDecided
<1>3. CASE p.kind = "escalate"
  <2>1. GateFacts(gs, p) = IF GateMay(gs, p) THEN << GateEvent("gate.escalated", p) >> ELSE << >>
    BY <1>3 DEF GateFacts
  <2> QED
    BY <1>3, <2>1, GateIsEscalated
<1>4. CASE p.kind = "cancel"
  <2>1. GateFacts(gs, p) = IF GateMay(gs, p) THEN << GateEvent("gate.cancelled", p) >> ELSE << >>
    BY <1>4 DEF GateFacts
  <2> QED
    BY <1>4, <2>1, GateEnds
<1>5. CASE p.kind = "expire"
  <2>1. GateFacts(gs, p) = IF ExpiryMay(gs, p) THEN << GateEvent("gate.expired", p) >> ELSE << >>
    BY <1>5 DEF GateFacts
  <2>2. ExpiryMay(gs, p) => GateMay(gs, p)
    BY DEF ExpiryMay
  <2> QED
    BY <1>5, <2>1, <2>2, GateEnds
<1>6. CASE p.kind = "continue"
  <2>1. GateFacts(gs, p) = IF ContinuationMay(gs, p) THEN << GateEvent("gate.continued", p) >> ELSE << >>
    BY <1>6 DEF GateFacts
  <2> QED
    BY <1>6, <2>1, GateIsContinued
<1>7. CASE p.kind \notin {"open", "decide", "escalate", "cancel", "expire", "continue"}
  BY <1>7 DEF GateFacts
<1> QED
  BY <1>1, <1>2, <1>3, <1>4, <1>5, <1>6, <1>7

-----------------------------------------------------------------------------
(* The gates along the stream.                                             *)

(* A stream on which no reducer raises and no No was taken back.           *)
StreamFits(s) ==
    /\ IsStream(s)
    /\ GateOK(GatesFrom(s)[Len(s)])
    /\ \A n \in 0..Len(s) : Kept(GatesFrom(s)[n], GatesFrom(s)[Len(s)])

(* What two steps keep, both keep.                                         *)
LEMMA KeptLonger ==
    ASSUME NEW a, NEW b, NEW c, Kept(a, b), Kept(b, c)
    PROVE  Kept(a, c)
BY DEF Kept

(* What does not change is kept.                                           *)
LEMMA KeptAsItIs == ASSUME NEW a PROVE Kept(a, a)
BY DEF Kept

(* An empty stream can be replayed.                                        *)
LEMMA EmptyFits == StreamFits(<< >>)
<1>1. PICK s : s = << >>
  OBVIOUS
<1>2. IsStream(s) /\ Len(s) = 0
  BY <1>1, <<  >> \in Seq({}) DEF IsStream
<1>3. PICK gs : gs = NoGates
  OBVIOUS
<1>4. GatesFrom(s)[0] = gs
  BY <1>3, GatesFollow
<1>5. gs \in [Gates -> GateType \cup {NoGate}] /\ \A g \in Gates : gs[g] = NoGate
  BY <1>3 DEF NoGates
<1>6. GateOK(gs)
  BY <1>5 DEF GateOK, Cycle
<1>7. Kept(gs, gs)
  BY KeptAsItIs
<1>8. \A n \in 0..Len(s) : n = 0
  BY <1>2
<1>9. StreamFits(s)
  BY <1>2, <1>4, <1>6, <1>7, <1>8 DEF StreamFits
<1> QED
  BY <1>1, <1>9

(* So can a stream with one fine event more.                               *)
LEMMA LongerFits ==
    ASSUME NEW s, StreamFits(s), NEW e, Fine(GatesFrom(s)[Len(s)], e)
    PROVE  StreamFits(Append(s, e))
<1>1. PICK t, k, a, b : /\ t = Append(s, e) /\ k = Len(s)
                        /\ a = GatesFrom(s) /\ b = GatesFrom(t)
  OBVIOUS
<1>2. /\ IsStream(s) /\ IsStream(t) /\ k \in Nat /\ Len(t) = k + 1 /\ t[k + 1] = e
      /\ \A i \in 1..k : s[i] = t[i]
  BY <1>1, StreamShape, AppendedStream DEF StreamFits
<1>4. \A n \in 0..k : a[n] = b[n]
  <2>1. k \in Nat /\ \A n \in 1..k : s[n] = t[n]
    BY <1>2
  <2>2. \A n \in 0..k : GatesFrom(s)[n] = GatesFrom(t)[n]
    BY <2>1, SameGates
  <2> QED
    BY <1>1, <2>2
<1>5. a[k] = b[k]
  BY <1>2, <1>4
<1>6. b[k + 1] = ReduceGate(a[k], e)
  BY <1>1, <1>2, <1>5, GatesFollow
<1>7. PICK now : now = b[k + 1]
  OBVIOUS
<1>8. GateOK(now) /\ Kept(a[k], now)
  BY <1>1, <1>6, <1>7 DEF Fine
<1>9. ASSUME NEW n \in 0..(k + 1) PROVE Kept(b[n], now)
  <2>1. CASE n \in 0..k
    <3>1. Kept(a[n], a[k]) /\ b[n] = a[n]
      BY <1>1, <1>4, <2>1 DEF StreamFits
    <3> QED
      BY <1>8, <3>1, KeptLonger
  <2>2. CASE n = k + 1
    BY <1>7, <2>2, KeptAsItIs
  <2> QED
    BY <1>2, <2>1, <2>2
<1>10. StreamFits(t)
  BY <1>1, <1>2, <1>7, <1>8, <1>9 DEF StreamFits
<1> QED
  BY <1>1, <1>10

-----------------------------------------------------------------------------
(* The specification.                                                      *)

AskOK(ask) == ask.pc \in {"read", "send"} => PayloadOK(ask.payload)

GInv ==
    /\ StreamFits(stream)
    /\ DOMAIN asks = People /\ asks = [p \in People |-> asks[p]]
    /\ \A p \in People : AskOK(asks[p])

(* What a caller may ask for names a gate, and a lineage if it opens one.  *)
LEMMA PayloadsAreOK ==
    ASSUME NEW g \in Gates, NEW r, NEW p \in Payloads(g, r)
    PROVE  PayloadOK(p)
<1>1. CASE r = NoGate
  BY <1>1 DEF Payloads, PayloadOK
<1>2. CASE r # NoGate
  <2>1. ASSUME NEW o \in Operations, NEW d \in Allowed[r.policy], p = Decision(g, o, d, r)
        PROVE  p.gate = g /\ p.kind = "decide"
    BY <2>1 DEF Decision, Payload
  <2>2. ASSUME NEW k \in {"escalate", "cancel"}, NEW o \in Operations,
               p = Payload(k, g, o, r)
        PROVE  p.gate = g /\ p.kind # "open"
    BY <2>2 DEF Payload
  <2>3. ASSUME NEW b \in BOOLEAN, p = [Payload("expire", g, g, r) EXCEPT !.reached = b]
        PROVE  p.gate = g /\ p.kind = "expire"
    BY <2>3 DEF Payload
  <2>4. ASSUME NEW s, p = [Payload("continue", g, g, r) EXCEPT !.source = s]
        PROVE  p.gate = g /\ p.kind = "continue"
    BY <2>4 DEF Payload
  <2> DEFINE decisions == {Decision(g, o, d, r) : o \in Operations, d \in Allowed[r.policy]}
             others == {Payload(k, g, o, r) : k \in {"escalate", "cancel"}, o \in Operations}
             expiries == {[Payload("expire", g, g, r) EXCEPT !.reached = b] : b \in BOOLEAN}
             continues == {[Payload("continue", g, g, r) EXCEPT !.source = s] :
                             s \in Sources(r.lineage, r.route)}
  <2>5. p \in decisions \/ p \in others \/ p \in expiries \/ p \in continues
    <3>1. Payloads(g, r) = decisions \cup others \cup expiries \cup continues
      BY <1>2 DEF Payloads
    <3> HIDE DEF decisions, others, expiries, continues
    <3> QED
      BY <3>1
  <2>6. p.gate = g /\ p.kind # "open"
    <3>1. CASE p \in decisions
      BY <2>1, <3>1
    <3>2. CASE p \in others
      BY <2>2, <3>2
    <3>3. CASE p \in expiries
      BY <2>3, <3>3
    <3>4. CASE p \in continues
      BY <2>4, <3>4
    <3> HIDE DEF decisions, others, expiries, continues
    <3> QED
      BY <2>5, <3>1, <3>2, <3>3, <3>4
  <2> QED
    BY <2>6 DEF PayloadOK
<1> QED
  BY <1>1, <1>2

(* The invariant at the start, ...                                         *)
LEMMA GateInitInv == GateInit => GInv
BY EmptyFits DEF GateInit, GInv, AskOK, NoAsk

(* ... when a gate is read, ...                                            *)
LEMMA ReadGateInv ==
    ASSUME GInv, NEW p \in People, ReadGate(p)
    PROVE  GInv'
<1>1. PICK g \in Gates : \E pay \in Payloads(g, GatesNow[g]) :
         asks' = [asks EXCEPT ![p] = [pc |-> "read", payload |-> pay]]
  BY DEF ReadGate
<1>2. PICK r : r = GatesNow[g]
  OBVIOUS
<1>3. PICK pay \in Payloads(g, r) :
         asks' = [asks EXCEPT ![p] = [pc |-> "read", payload |-> pay]]
  BY <1>1, <1>2
<1>4. PayloadOK(pay)
  BY <1>3, PayloadsAreOK
<1>5. PICK x : x = [pc |-> "read", payload |-> pay]
  OBVIOUS
<1>6. AskOK(x)
  BY <1>4, <1>5 DEF AskOK
<1>7. stream' = stream
  BY DEF ReadGate, log
<1> QED
  BY <1>3, <1>5, <1>6, <1>7 DEF GInv

(* ... when the head is, ...                                               *)
LEMMA ReadCursorInv ==
    ASSUME GInv, NEW p \in People, ReadCursor(p)
    PROVE  GInv'
<1>1. PICK x, h : h = HeadSeq /\ x = [pc |-> "send", payload |-> asks[p].payload, cursor |-> h]
  OBVIOUS
<1>2. asks' = [asks EXCEPT ![p] = x] /\ stream' = stream
  BY <1>1 DEF ReadCursor, log
<1>3. AskOK(x)
  BY <1>1 DEF ReadCursor, GInv, AskOK
<1> QED
  BY <1>2, <1>3 DEF GInv

(* ... when the command is executed, ...                                   *)
LEMMA RunGateStepInv ==
    ASSUME GInv, NEW p \in People, RunGateStep(p)
    PROVE  GInv'
<1>1. PICK ask, gs, cmd, facts :
        /\ ask = asks[p] /\ gs = GatesNow /\ cmd = GateCommand(ask)
        /\ facts = GateFacts(gs, ask.payload)
  OBVIOUS
<1>2. /\ ask.pc = "send" /\ asks' = [asks EXCEPT ![p] = NoAsk]
      /\ UNCHANGED log \/ Execute(cmd, facts, "R2_6_REFUSED")
  BY <1>1 DEF RunGateStep
<1>3. PayloadOK(ask.payload)
  BY <1>1, <1>2 DEF GInv, AskOK
<1>4. PICK s : s = stream
  OBVIOUS
<1>5. StreamFits(s) /\ IsStream(s) /\ gs = GatesFrom(s)[Len(s)] /\ GateOK(gs)
  BY <1>1, <1>4, GatesAtIs DEF GInv, StreamFits, GatesNow, HeadSeq
<1>6. facts = << >> \/ \E ev : facts = <<ev>> /\ Fine(gs, ev)
  BY <1>1, <1>3, <1>5, HandlerFitsReducer
<1>7. stream' = s \/ \E ev : stream' = Append(s, ev) /\ Fine(gs, ev)
  <2>1. CASE UNCHANGED log
    BY <1>4, <2>1 DEF log
  <2>2. CASE Execute(cmd, facts, "R2_6_REFUSED")
    <3>1. stream' = s \/ (facts # << >> /\ stream' = s \o facts)
      BY <1>4, <2>2, ExecuteOutcomes DEF log
    <3> QED
      BY <1>5, <1>6, <3>1, AppendedStream
  <2> QED
    BY <1>2, <2>1, <2>2
<1>8. StreamFits(stream)'
  BY <1>5, <1>7, LongerFits
<1>9. AskOK(NoAsk)
  BY DEF AskOK, NoAsk
<1> QED
  BY <1>2, <1>8, <1>9 DEF GInv

(* ... and when others write.                                              *)
LEMMA OthersWriteInv ==
    ASSUME GInv, OthersWrite
    PROVE  GInv'
<1>1. PICK ev \in OtherEvents : stream' = Append(stream, OtherEvent(ev[1], ev[2]))
  BY DEF OthersWrite
<1>2. PICK s, e, gs : s = stream /\ e = OtherEvent(ev[1], ev[2]) /\ gs = GatesFrom(s)[Len(s)]
  OBVIOUS
<1>3. StreamFits(s) /\ GateOK(gs)
  BY <1>2 DEF GInv, StreamFits
<1>4. ~IsGateEvent(e)
  BY <1>2, HumanGateAssumption DEF IsGateEvent, OtherEvent
<1>5. ReduceGate(gs, e) = gs
  BY <1>4 DEF ReduceGate, IsGateEvent, GateEventTypes
<1>6. Fine(gs, e)
  BY <1>3, <1>5, KeptAsItIs DEF Fine
<1>7. StreamFits(Append(s, e))
  BY <1>2, <1>3, <1>6, LongerFits
<1>8. stream' = Append(s, e) /\ asks' = asks
  BY <1>1, <1>2 DEF OthersWrite
<1> QED
  BY <1>7, <1>8 DEF GInv

(* The inductive invariant: the stream leads to good gates, on which every *)
(* No that was ever given still stands, and what people are about to ask   *)
(* for names gates and lineages.                                           *)
THEOREM GateInvariant == GateSpec => []GInv
<1>1. GInv /\ [GateNext]_<<log, asks>> => GInv'
  <2> SUFFICES ASSUME GInv, [GateNext]_<<log, asks>> PROVE GInv'
    OBVIOUS
  <2>1. ASSUME NEW p \in People, ReadGate(p) PROVE GInv'
    BY <2>1, ReadGateInv
  <2>2. ASSUME NEW p \in People, ReadCursor(p) PROVE GInv'
    BY <2>2, ReadCursorInv
  <2>3. ASSUME NEW p \in People, RunGateStep(p) PROVE GInv'
    BY <2>3, RunGateStepInv
  <2>4. CASE OthersWrite
    BY <2>4, OthersWriteInv
  <2>5. CASE UNCHANGED <<log, asks>>
    BY <2>5 DEF GInv, log
  <2> QED
    BY <2>1, <2>2, <2>3, <2>4, <2>5 DEF GateNext
<1> QED
  BY GateInitInv, <1>1, PTL DEF GateSpec

(* What a handler lets through the reducer accepts, also when the gate was *)
(* read, and the command built, before others wrote: the Mission can be    *)
(* replayed, and no lineage has two gates that block it.                   *)
THEOREM GatesCanBeReplayed == GateSpec => []GatesReplay
<1>1. GInv => GatesReplay
  <2> SUFFICES ASSUME GInv PROVE GatesReplay
    OBVIOUS
  <2>1. PICK gs : gs = GatesNow
    OBVIOUS
  <2>2. GateOK(gs)
    BY <2>1, GatesAtIs DEF GInv, StreamFits, GatesNow, HeadSeq
  <2>3. gs # Broken
    BY <2>2, HumanGateAssumption DEF GateOK
  <2>4. /\ \A g \in Gates : gs[g] # NoGate => gs[g] \in GateType
        /\ \A l \in Lineages : \A g, h \in Cycle(gs, l) : g = h
    BY <2>2 DEF GateOK
  <2> QED
    BY <2>1, <2>3, <2>4 DEF GatesReplay
<1> QED
  BY <1>1, GateInvariant, PTL

(* A No, once given, is given for good: it is the only gate of its lineage *)
(* that blocks, and the boundary reads BLOCK from it, at every later head. *)
THEOREM ARefusalStands == GateSpec => []NoIsFinal
<1>1. GInv => NoIsFinal
  <2> SUFFICES ASSUME GInv PROVE NoIsFinal
    OBVIOUS
  <2>1. PICK now, h : now = GatesNow /\ h = HeadSeq
    OBVIOUS
  <2>2. /\ GateOK(now) /\ h \in Nat
        /\ \A n \in 0..h : Kept(GatesAt[n], now)
    BY <2>1, GatesAtIs, StreamShape DEF GInv, StreamFits, GatesNow, HeadSeq
  <2>3. ASSUME NEW n \in 1..h, NEW then, then = GatesAt[n], NEW g \in Gates,
               then[g] # NoGate, EndedInBlock(then[g])
        PROVE  /\ BoundaryDecision(now, then[g].lineage) = "BLOCK"
               /\ now[g].outcome = then[g].outcome
    <3>1. n \in 0..h
      BY <2>2
    <3>2. Kept(then, now)
      BY <2>2, <2>3, <3>1
    <3>3. PICK r, l : r = now[g] /\ l = then[g].lineage
      OBVIOUS
    <3>4. r # NoGate /\ EndedInBlock(r) /\ r.lineage = l /\ r.outcome = then[g].outcome
      BY <2>3, <3>2, <3>3 DEF Kept
    <3>5. r \in GateType /\ l \in Lineages
      BY <2>2, <3>3, <3>4 DEF GateOK, GateType
    <3>6. r.status # "PENDING"
      BY <2>2, <3>3, <3>4 DEF GateOK, EndedInBlock
    <3>7. g \in Cycle(now, l)
      BY <3>3, <3>4 DEF Cycle, IsBlocking
    <3>8. Cycle(now, l) = {g}
      BY <2>2, <3>5, <3>7 DEF GateOK
    <3>9. (CHOOSE c \in Cycle(now, l) : TRUE) = g
      BY <3>8
    <3>10. BoundaryDecision(now, l) = "BLOCK"
      BY <3>3, <3>4, <3>6, <3>8, <3>9 DEF BoundaryDecision
    <3> QED
      BY <3>3, <3>4, <3>10
  <2> QED
    BY <2>1, <2>3 DEF NoIsFinal
<1> QED
  BY <1>1, GateInvariant, PTL

-----------------------------------------------------------------------------
(***************************************************************************)
(* DispatchLoop, for any Tasks and dependencies, any loops, delegations    *)
(* and people, any budget and any bound.                                   *)
(*                                                                         *)
(* What has happened stays so, and SUCCEEDED is not taken back: what a     *)
(* turn found of a Task's predecessors at the seq its caller observed is   *)
(* still true when the Task is activated, and that the Task is PENDING and *)
(* its Revision current is asked again by the handler.  The gate is        *)
(* evaluated at a head that may have moved already; but Enter goes on only *)
(* if the head is the observed seq, so that it had not.                    *)
(***************************************************************************)

(* The Tasks that have a status, in their order, as far as the k-th one.   *)
Picked(f, k, s, n, gate) ==
    f = [i \in 0..k |->
            IF i = 0 THEN << >>
            ELSE IF Readiness(Order[i], n, gate) = s THEN Append(f[i - 1], Order[i]) ELSE f[i - 1]]

TasksWith(s, n, gate) == {t \in Tasks : Readiness(t, n, gate) = s}

(* The Tasks in the order they are gone through.                           *)
LEMMA OrderOfTasks ==
    /\ Len(Order) \in Nat
    /\ \A i \in 1..Len(Order) : Order[i] \in Tasks
BY DispatchLoopAssumption

(* Selecting them is done in the order of the list: there is such a list   *)
(* of those among the first k, ...                                         *)
LEMMA PickedSoFar ==
    ASSUME NEW s, NEW n, NEW gate, NEW k \in Nat
    PROVE  \E f : Picked(f, k, s, n, gate)
<1> DEFINE Step(f, i) == IF i = 0 THEN << >>
                         ELSE IF Readiness(Order[i], n, gate) = s
                              THEN Append(f[i - 1], Order[i]) ELSE f[i - 1]
           S == {m \in Nat : \E f : f = [i \in 0..m |-> Step(f, i)]}
<1>1. 0 \in S
  <2>1. [i \in 0..0 |-> << >>] = [i \in 0..0 |-> Step([j \in 0..0 |-> << >>], i)]
    OBVIOUS
  <2> QED
    BY <2>1
<1>2. ASSUME NEW m \in Nat, m \in S PROVE m + 1 \in S
  <2>1. PICK f : f = [i \in 0..m |-> Step(f, i)]
    BY <1>2
  <2>2. PICK x : x = IF Readiness(Order[m + 1], n, gate) = s THEN Append(f[m], Order[m + 1]) ELSE f[m]
    OBVIOUS
  <2>3. PICK g : g = [i \in 0..(m + 1) |-> IF i <= m THEN f[i] ELSE x]
    OBVIOUS
  <2>4. DOMAIN g = 0..(m + 1) /\ \A i \in 0..m : g[i] = f[i]
    BY <2>3
  <2>5. ASSUME NEW i \in 0..(m + 1) PROVE g[i] = Step(g, i)
    <3>1. CASE i = 0
      BY <2>1, <2>4, <3>1
    <3>2. CASE i \in 1..m
      <4>1. i - 1 \in 0..m /\ i \in 0..m /\ i # 0
        BY <3>2
      <4>2. f[i] = Step(f, i)
        BY <2>1, <4>1
      <4> QED
        BY <2>4, <4>1, <4>2
    <3>3. CASE i = m + 1
      <4>1. i - 1 = m /\ i # 0 /\ ~(i <= m) /\ m \in 0..m
        BY <3>3
      <4>2. g[i] = x /\ g[i - 1] = f[m]
        BY <2>3, <2>4, <4>1
      <4> QED
        BY <2>2, <3>3, <4>1, <4>2
    <3> QED
      BY <3>1, <3>2, <3>3
  <2>6. g = [i \in 0..(m + 1) |-> Step(g, i)]
    <3> HIDE DEF Step
    <3> QED
      BY <2>3, <2>5
  <2> QED
    BY <2>6
<1>3. \A m \in Nat : m \in S => m + 1 \in S
  BY <1>2
<1>4. Nat \subseteq S
  <2> HIDE DEF S
  <2> QED
    BY <1>1, <1>3, NatSetInduction
<1>5. PICK f : f = [i \in 0..k |-> Step(f, i)]
  BY <1>4
<1> QED
  BY <1>5 DEF Picked

(* ... and all in it have the status.                                      *)
LEMMA WithStatusHas ==
    ASSUME NEW s, NEW n, NEW gate
    PROVE  WithStatus(s, n, gate) \in Seq(TasksWith(s, n, gate))
<1>0. PICK top \in Nat : top = Len(Order)
  BY OrderOfTasks
<1>1. \E f : Picked(f, top, s, n, gate)
  BY PickedSoFar
<1> DEFINE F == CHOOSE g : g = [i \in 0..Len(Order) |->
                        IF i = 0 THEN << >>
                        ELSE IF Readiness(Order[i], n, gate) = s
                             THEN Append(g[i - 1], Order[i]) ELSE g[i - 1]]
<1>2. WithStatus(s, n, gate) = F[Len(Order)]
  BY DEF WithStatus
<1>3. Picked(F, top, s, n, gate)
  BY <1>0, <1>1 DEF Picked
<1>4. PICK h : h = F /\ Picked(h, top, s, n, gate)
  BY <1>3
<1>a. \A i \in 0..top : h[i] = IF i = 0 THEN << >>
                               ELSE IF Readiness(Order[i], n, gate) = s
                                    THEN Append(h[i - 1], Order[i]) ELSE h[i - 1]
  BY <1>4 DEF Picked
<1> DEFINE T == TasksWith(s, n, gate)
           S == {m \in Nat : m <= top => h[m] \in Seq(T)}
<1>5. 0 \in S
  <2>1. h[0] = << >>
    BY <1>a
  <2>2. << >> \in Seq(T)
    OBVIOUS
  <2> QED
    BY <2>1, <2>2
<1>6. ASSUME NEW m \in Nat, m \in S PROVE m + 1 \in S
  <2> SUFFICES ASSUME m + 1 <= top PROVE h[m + 1] \in Seq(T)
    OBVIOUS
  <2>1. PICK k : k = m + 1
    OBVIOUS
  <2>2. k \in 0..top /\ k # 0 /\ k - 1 = m /\ k \in 1..Len(Order) /\ h[m] \in Seq(T)
    BY <1>0, <1>6, <2>1
  <2>3. h[k] = IF Readiness(Order[k], n, gate) = s THEN Append(h[m], Order[k]) ELSE h[m]
    BY <1>a, <2>2
  <2>4. Readiness(Order[k], n, gate) = s => Order[k] \in T
    BY <2>2, OrderOfTasks DEF TasksWith
  <2> HIDE DEF T
  <2> QED
    BY <2>1, <2>2, <2>3, <2>4
<1>7. \A m \in Nat : m \in S => m + 1 \in S
  BY <1>6
<1>8. Nat \subseteq S
  <2> HIDE DEF S
  <2> QED
    BY <1>5, <1>7, NatSetInduction
<1>9. h[top] \in Seq(T)
  BY <1>0, <1>8
<1> QED
  BY <1>0, <1>2, <1>4, <1>9

(* What has happened, as far as n, and what does not change with it.       *)
PredecessorsDone(t, n) == \A p \in Predecessors(t) : Happened("SUCCEEDED", p, n)

(* SUCCEEDED goes before every other state, and is not taken back.         *)
LEMMA SucceededIs ==
    \A t, n : TaskState(t, n) = "SUCCEEDED" <=> Happened("SUCCEEDED", t, n)
BY DEF TaskState

(* A Task that is ACTIVE was activated.                                    *)
LEMMA ActiveIs ==
    \A t, n : TaskState(t, n) = "ACTIVE" => Happened("ACTIVE", t, n)
BY DEF TaskState

(* What has happened has happened later, too.                              *)
LEMMA HappenedLater ==
    ASSUME NEW m \in Nat, NEW n \in Nat, m <= n
    PROVE  /\ \A type, t : Happened(type, t, m) => Happened(type, t, n)
           /\ \A t : PredecessorsDone(t, m) => PredecessorsDone(t, n)
<1>1. \A type, t : Happened(type, t, m) => Happened(type, t, n)
  BY DEF Happened
<1> QED
  BY <1>1 DEF PredecessorsDone

(* What is said of a part of the stream that stands, stands.               *)
LEMMA HappenedStands ==
    ASSUME NEW n \in Nat, SamePast(n)
    PROVE  /\ \A type, t : Happened(type, t, n)' = Happened(type, t, n)
           /\ \A t : TaskState(t, n)' = TaskState(t, n)
           /\ Superseded(n)' = Superseded(n)
           /\ \A t : PredecessorsDone(t, n)' = PredecessorsDone(t, n)
           /\ GatesAt[n]' = GatesAt[n]
<1>1. \A i \in 1..n : stream'[i] = stream[i]
  BY DEF SamePast
<1>2. \A type, t : Happened(type, t, n)' = Happened(type, t, n)
  BY <1>1 DEF Happened
<1>3. \A t : TaskState(t, n)' = TaskState(t, n)
  BY <1>2 DEF TaskState
<1>4. Superseded(n)' = Superseded(n)
  BY <1>1 DEF Superseded
<1>5. \A t : PredecessorsDone(t, n)' = PredecessorsDone(t, n)
  BY <1>2 DEF PredecessorsDone
<1>6. GatesAt[n]' = GatesAt[n]
  <2>1. PICK s, r : s = stream /\ r = stream'
    OBVIOUS
  <2>2. PICK f, g : f = GatesFrom(s) /\ g = GatesFrom(r)
    OBVIOUS
  <2>3. GatesAt = f
    BY <2>1, <2>2, GatesAtIs
  <2>4. GatesAt' = g
    BY <2>1, <2>2 DEF GatesAt, GatesFrom, Unfolds, NoGates
  <2>6. \A i \in 1..n : s[i] = r[i]
    BY <1>1, <2>1
  <2>8. \A i \in 0..n : f[i] = g[i]
    BY <2>2, <2>6, SameGates
  <2> QED
    BY <2>3, <2>4, <2>8
<1> QED
  BY <1>2, <1>3, <1>4, <1>5, <1>6

(* No step takes anything back.                                            *)
Onward ==
    /\ HeadSeq \in Nat /\ HeadSeq' \in Nat /\ HeadSeq <= HeadSeq'
    /\ \A n \in 0..HeadSeq : SamePast(n)

(* What has happened so far, has happened after the next step.             *)
LEMMA StillHappened ==
    ASSUME Onward
    PROVE  /\ \A type, t : Happened(type, t, HeadSeq) => Happened(type, t, HeadSeq)'
           /\ \A t : PredecessorsDone(t, HeadSeq) => PredecessorsDone(t, HeadSeq)'
<1>1. PICK h, k : h = HeadSeq /\ k = HeadSeq'
  OBVIOUS
<1>2. h \in Nat /\ k \in Nat /\ h <= k /\ SamePast(h)
  BY <1>1 DEF Onward
<1>3. \A i \in 1..h : stream'[i] = stream[i] /\ i \in 1..k
  BY <1>2 DEF SamePast
<1>4. ASSUME NEW type, NEW t, Happened(type, t, HeadSeq)
      PROVE  Happened(type, t, HeadSeq)'
  <2>1. PICK i \in 1..h : stream[i].type = type /\ stream[i].of = t
    BY <1>1, <1>4 DEF Happened
  <2> QED
    BY <1>1, <1>3, <2>1 DEF Happened
<1>5. ASSUME NEW t, PredecessorsDone(t, HeadSeq)
      PROVE  PredecessorsDone(t, HeadSeq)'
  BY <1>4, <1>5 DEF PredecessorsDone
<1> QED
  BY <1>4, <1>5

(* A step that writes nothing, ...                                         *)
LEMMA StandsStill ==
    ASSUME IsStream(stream), stream' = stream
    PROVE  IsStream(stream)' /\ Onward /\ HeadSeq' = HeadSeq
BY StreamShape DEF Onward, HeadSeq, SamePast

(* ... and one that appends an event, take nothing back.                   *)
LEMMA GoesOn ==
    ASSUME IsStream(stream), NEW e, Grows(e)
    PROVE  IsStream(stream)' /\ Onward /\ HeadSeq' = HeadSeq + 1
BY OneMore DEF Onward

-----------------------------------------------------------------------------
(* The invariant of the loops.                                             *)

IsTurn(w) ==
    w = [cycle |-> w.cycle, used |-> w.used, pc |-> w.pc, seen |-> w.seen, on |-> w.on,
         cursor |-> w.cursor, todo |-> w.todo, attempts |-> w.attempts]

Within == {"reconcile", "activate", "dispatch", "decided"}

(* What a turn relies on at its place: its numbers; the gate it passed;    *)
(* the Tasks it still has to do, for which there is room in the budget.    *)
Counts(w) ==
    /\ w.cycle \in Nat /\ w.used \in Nat /\ w.attempts \in Nat
    /\ w.cycle <= MaxCycles /\ w.used + w.attempts <= MaxDispatches
    /\ w.pc \in Within => w.cycle < MaxCycles
    /\ w.pc \notin Within => w.attempts = 0
Passes(w) ==
    /\ w.seen \in Nat /\ w.seen <= HeadSeq
    /\ w.pc \in Within \/ (w.pc = "enter" /\ HeadSeq = w.seen) =>
          BoundaryDecision(GatesAt[w.seen], w.on) = "ALLOW"
HasToDo(w) ==
    /\ w.todo \in Seq(Tasks)
    /\ w.pc \in {"reconcile", "activate", "dispatch"} =>
          w.todo # << >> /\ w.used + w.attempts + Len(w.todo) <= MaxDispatches
    /\ w.pc = "activate" => \A i \in 1..Len(w.todo) : PredecessorsDone(w.todo[i], HeadSeq)
    /\ w.pc \in {"reconcile", "dispatch"} =>
          /\ Happened("ACTIVE", w.todo[1], HeadSeq)
          /\ \A i \in 2..Len(w.todo) : PredecessorsDone(w.todo[i], HeadSeq)
TurnIsMeant(w) == IsTurn(w) /\ Counts(w) /\ Passes(w) /\ HasToDo(w)

ChildIsMeant(w) ==
    \/ w.pc \in {"idle", "done"}
    \/ /\ w = [pc |-> "activate", task |-> w.task] /\ w.task \in Tasks
       /\ PredecessorsDone(w.task, HeadSeq)
    \/ /\ w = [pc |-> "dispatch", task |-> w.task]
       /\ Happened("ACTIVE", w.task, HeadSeq)

(* A stored activation is on the stream.                                   *)
ActivationsAreThere ==
    \A row \in rows : \A t :
        row.answer.ok /\ row.command_id = <<"activate", t>> => Happened("ACTIVE", t, HeadSeq)

LoopsAreMeant ==
    /\ DOMAIN loop = Loops /\ loop = [l \in Loops |-> loop[l]]
    /\ \A l \in Loops : TurnIsMeant(loop[l])
CallsAreCounted ==
    /\ DOMAIN calls = Loops /\ calls = [l \in Loops |-> calls[l]]
    /\ DOMAIN lost = Loops /\ lost = [l \in Loops |-> lost[l]]
    /\ \A l \in Loops : lost[l] \in Nat /\ calls[l] = loop[l].used + loop[l].attempts + lost[l]
ChildrenAreMeant ==
    /\ DOMAIN child = Children /\ child = [c \in Children |-> child[c]]
    /\ \A c \in Children : ChildIsMeant(child[c])

DInv ==
    /\ IsStream(stream)
    /\ LoopsAreMeant /\ CallsAreCounted /\ ChildrenAreMeant
    /\ ActivationsAreThere
    /\ ActivationsWereReady /\ ActiveBeforeDispatched

(* The invariant says what the runs check.                                 *)
LEMMA DInvImplies == DInv => TurnsPassTheGate /\ DispatchesAreCounted
BY DEF DInv, LoopsAreMeant, CallsAreCounted, TurnIsMeant, Counts, Passes, Within,
       TurnsPassTheGate, DispatchesAreCounted

(* As the Mission goes on, what the others rely on stands.                 *)
LEMMA TurnStands ==
    ASSUME Onward, NEW w, TurnIsMeant(w)
    PROVE  TurnIsMeant(w)'
<1>1. IsTurn(w) /\ Counts(w)
  BY DEF TurnIsMeant
<1>2. Passes(w)'
  <2>1. w.seen \in Nat /\ w.seen <= HeadSeq /\ HeadSeq \in Nat /\ HeadSeq' \in Nat /\ HeadSeq <= HeadSeq'
    BY DEF Onward, TurnIsMeant, Passes
  <2>2. SamePast(w.seen)
    BY <2>1 DEF Onward
  <2>3. PICK n \in Nat : n = w.seen
    BY <2>1
  <2>4. GatesAt[n]' = GatesAt[n]
    BY <2>2, <2>3, HappenedStands
  <2>5. PICK gs : gs = GatesAt[n] /\ gs = GatesAt'[n]
    BY <2>4
  <2>6. HeadSeq' = w.seen => HeadSeq = w.seen
    BY <2>1
  <2>7. w.pc \in Within \/ (w.pc = "enter" /\ HeadSeq = w.seen) =>
            BoundaryDecision(gs, w.on) = "ALLOW"
    BY <2>3, <2>5 DEF TurnIsMeant, Passes
  <2>8. w.pc \in Within \/ (w.pc = "enter" /\ HeadSeq' = w.seen) =>
            BoundaryDecision(GatesAt'[w.seen], w.on) = "ALLOW"
    BY <2>3, <2>5, <2>6, <2>7
  <2> QED
    BY <2>1, <2>8 DEF Passes
<1>3. HasToDo(w)'
  BY StillHappened DEF TurnIsMeant, HasToDo
<1> QED
  BY <1>1, <1>2, <1>3 DEF TurnIsMeant

(* The same for a delegated child.                                         *)
LEMMA ChildStands ==
    ASSUME Onward, NEW w, ChildIsMeant(w)
    PROVE  ChildIsMeant(w)'
BY StillHappened DEF ChildIsMeant

-----------------------------------------------------------------------------
(* The steps of the Mission.                                               *)

(* A Task that may be activated after the first n events.                  *)
ReadyAfter(t, n) ==
    TaskState(t, n) = "PENDING" /\ ~Superseded(n) /\ PredecessorsDone(t, n)

(* The property in the terms of what stands.                               *)
LEMMA ReadyMeans ==
    ActivationsWereReady <=>
        \A i \in 1..HeadSeq : stream[i].type = "ACTIVE" => ReadyAfter(stream[i].of, i - 1)
BY SucceededIs DEF ActivationsWereReady, ReadyAfter, PredecessorsDone

(* An event that activates nothing that was not ready leaves the history   *)
(* in order.                                                               *)
LEMMA ReadyOnceMore ==
    ASSUME IsStream(stream), ActivationsWereReady, NEW e, Grows(e),
           e.type = "ACTIVE" => ReadyAfter(e.of, HeadSeq)
    PROVE  ActivationsWereReady'
<1>1. PICK h \in Nat : h = HeadSeq
  BY OneMore
<1>2. /\ HeadSeq' = h + 1 /\ stream'[h + 1] = e
      /\ SamePast(h) /\ \A n \in 0..h : SamePast(n)
  BY <1>1, OneMore
<1>3. \A i \in 1..h : stream'[i] = stream[i]
  BY <1>2 DEF SamePast
<1>4. \A i \in 1..h : stream[i].type = "ACTIVE" => ReadyAfter(stream[i].of, i - 1)
  BY <1>1, ReadyMeans
<1>5. \A n \in 0..h : \A t : ReadyAfter(t, n)' = ReadyAfter(t, n)
  <2> SUFFICES ASSUME NEW n \in 0..h, NEW t PROVE ReadyAfter(t, n)' = ReadyAfter(t, n)
    OBVIOUS
  <2>1. n \in Nat /\ SamePast(n)
    BY <1>2
  <2> QED
    BY <2>1, HappenedStands DEF ReadyAfter
<1>6. ASSUME NEW i \in 1..(h + 1), stream'[i].type = "ACTIVE", NEW t, t = stream'[i].of,
             NEW n, n = i - 1
      PROVE  ReadyAfter(t, n)'
  <2>1. CASE i \in 1..h
    <3>1. stream'[i] = stream[i] /\ n \in 0..h
      BY <1>3, <1>6, <2>1
    <3>2. ReadyAfter(t, n)
      BY <1>4, <1>6, <2>1, <3>1
    <3> QED
      BY <1>5, <3>1, <3>2
  <2>2. CASE i = h + 1
    <3>1. n = h /\ n \in 0..h /\ t = e.of
      BY <1>2, <1>6, <2>2
    <3>2. ReadyAfter(t, n)
      BY <1>1, <1>2, <1>6, <2>2, <3>1
    <3> QED
      BY <1>5, <3>1, <3>2
  <2> QED
    BY <1>6, <2>1, <2>2
<1>7. (\A i \in 1..HeadSeq : stream[i].type = "ACTIVE" => ReadyAfter(stream[i].of, i - 1))'
  <2> SUFFICES ASSUME NEW i \in 1..(h + 1), stream'[i].type = "ACTIVE"
               PROVE  ReadyAfter(stream[i].of, i - 1)'
    BY <1>2
  <2>1. PICK t, n : t = stream'[i].of /\ n = i - 1
    OBVIOUS
  <2>2. ReadyAfter(t, n)'
    BY <1>6, <2>1
  <2> QED
    BY <2>1, <2>2 DEF ReadyAfter
<1> QED
  BY <1>7, SucceededIs DEF ActivationsWereReady, ReadyAfter, PredecessorsDone, TaskState

(* What the Mission keeps.                                                 *)
MissionIsMeant == IsStream(stream) /\ ActivationsAreThere /\ ActivationsWereReady

(* Stored answers stay true, and those that are added have to be.          *)
LEMMA AnswersStayTrue ==
    ASSUME Onward, ActivationsAreThere, NEW row,
           rows' = rows \/ rows' = rows \cup {row},
           \A t : row.answer.ok /\ row.command_id = <<"activate", t>>
                      => Happened("ACTIVE", t, HeadSeq)'
    PROVE  ActivationsAreThere'
<1>1. \A t : Happened("ACTIVE", t, HeadSeq) => Happened("ACTIVE", t, HeadSeq)'
  BY StillHappened
<1> QED
  BY <1>1 DEF ActivationsAreThere

(* A step that writes no event leaves the history in order.                *)
LEMMA SameHistory ==
    ASSUME ActivationsWereReady, stream' = stream
    PROVE  ActivationsWereReady'
<1>1. \A type, t, n : Happened(type, t, n)' = Happened(type, t, n)
  BY DEF Happened
<1>2. \A t, n : TaskState(t, n)' = TaskState(t, n)
  BY <1>1 DEF TaskState
<1>3. \A n : Superseded(n)' = Superseded(n)
  BY DEF Superseded
<1> QED
  BY <1>2, <1>3 DEF ActivationsWereReady, HeadSeq

(* A step that writes nothing keeps the Mission.                           *)
LEMMA NothingWritten ==
    ASSUME MissionIsMeant, UNCHANGED log
    PROVE  MissionIsMeant' /\ Onward /\ HeadSeq' = HeadSeq
<1>1. rows' = rows /\ stream' = stream
  BY DEF log
<1>2. IsStream(stream)' /\ Onward /\ HeadSeq' = HeadSeq
  BY <1>1, StandsStill DEF MissionIsMeant
<1>3. ActivationsAreThere' /\ ActivationsWereReady'
  BY <1>1, SameHistory DEF MissionIsMeant, ActivationsAreThere, Happened, HeadSeq
<1> QED
  BY <1>2, <1>3 DEF MissionIsMeant

(* A refusal is stored and changes nothing else.                           *)
LEMMA RefusalWritten ==
    ASSUME MissionIsMeant, NEW cmd, NEW code, stream' = stream,
           rows' = rows \cup {Row(cmd, Rejected(code))}
    PROVE  MissionIsMeant' /\ Onward
<1>1. IsStream(stream)' /\ Onward
  BY StandsStill DEF MissionIsMeant
<1>2. ~Row(cmd, Rejected(code)).answer.ok
  BY DEF Row, Rejected
<1>3. ActivationsAreThere'
  BY <1>1, <1>2, AnswersStayTrue DEF MissionIsMeant
<1>4. ActivationsWereReady'
  BY SameHistory DEF MissionIsMeant
<1> QED
  BY <1>1, <1>3, <1>4 DEF MissionIsMeant

(* An activation whose predecessors are done, whoever asks for it and      *)
(* whatever the seq it names.                                              *)
LEMMA ActivationIsMeant ==
    ASSUME MissionIsMeant, NEW t, NEW seq, PredecessorsDone(t, HeadSeq),
           Execute(Activation(t, seq), ActivationFacts(t), "TRANSITION_REFUSED")
    PROVE  /\ MissionIsMeant' /\ Onward
           /\ ActivationAnswer(t, seq).ok => Happened("ACTIVE", t, HeadSeq)'
<1>1. PICK cmd, facts, e :
         cmd = Activation(t, seq) /\ facts = ActivationFacts(t) /\ e = OtherEvent("ACTIVE", t)
  OBVIOUS
<1>2. /\ cmd.command_id = <<"activate", t>> /\ cmd.idempotency_key = NoKey
      /\ KeyOwners(cmd) = {}
  BY <1>1 DEF Activation, Command, KeyOwners
<1>3. Execute(cmd, facts, "TRANSITION_REFUSED")
  BY <1>1
<1>4. ActivationAnswer(t, seq) = Answer(cmd, facts, "TRANSITION_REFUSED")
  BY <1>1 DEF ActivationAnswer
<1>5. CASE Known(cmd) \cup KeyOwners(cmd) # {} /\ UNCHANGED log
  <2>1. MissionIsMeant' /\ Onward
    BY <1>5, NothingWritten
  <2>2. PICK owners : owners = Known(cmd) /\ owners # {}
    BY <1>2, <1>5
  <2>3. ActivationAnswer(t, seq) = StoredAnswer(cmd, owners, "COMMAND_ID_CONFLICT")
    BY <1>4, <2>2 DEF Answer
  <2>4. PICK r : r = (CHOOSE q \in owners : TRUE)
    OBVIOUS
  <2>5. r \in rows /\ r.command_id = <<"activate", t>>
    BY <1>2, <2>2, <2>4 DEF Known
  <2>6. ActivationAnswer(t, seq) = r.answer \/ ~ActivationAnswer(t, seq).ok
    BY <2>3, <2>4 DEF StoredAnswer, Rejected
  <2>7. r.answer.ok => Happened("ACTIVE", t, HeadSeq)
    BY <2>5 DEF MissionIsMeant, ActivationsAreThere
  <2>8. Happened("ACTIVE", t, HeadSeq) => Happened("ACTIVE", t, HeadSeq)'
    BY <2>1, StillHappened
  <2> QED
    BY <2>1, <2>6, <2>7, <2>8
<1>6. CASE \E code : /\ Answer(cmd, facts, "TRANSITION_REFUSED") = Rejected(code)
                     /\ rows' = rows \cup {Row(cmd, Rejected(code))}
                     /\ stream' = stream
  <2>1. PICK code : /\ Answer(cmd, facts, "TRANSITION_REFUSED") = Rejected(code)
                    /\ rows' = rows \cup {Row(cmd, Rejected(code))}
                    /\ stream' = stream
    BY <1>6
  <2>2. MissionIsMeant' /\ Onward
    BY <2>1, RefusalWritten
  <2> QED
    BY <1>4, <2>1, <2>2 DEF Rejected
<1>7. CASE /\ Known(cmd) = {} /\ KeyOwners(cmd) = {}
           /\ cmd.expected_seq = HeadSeq /\ facts # << >>
           /\ rows' = rows \cup {Row(cmd, Accepted(HeadSeq + Len(facts)))}
           /\ stream' = stream \o facts
  <2>1. facts = <<e>> /\ TaskState(t, HeadSeq) = "PENDING" /\ ~Superseded(HeadSeq)
    BY <1>1, <1>7 DEF ActivationFacts
  <2>2. IsStream(stream)
    BY DEF MissionIsMeant
  <2>3. Grows(e)
    BY <1>7, <2>1, <2>2, AppendedStream DEF Grows
  <2>4. IsStream(stream)' /\ Onward /\ HeadSeq' = HeadSeq + 1
    BY <2>2, <2>3, GoesOn
  <2>5. e.type = "ACTIVE" /\ e.of = t
    BY <1>1 DEF OtherEvent
  <2>6. ActivationsWereReady'
    <3>1. ReadyAfter(e.of, HeadSeq)
      BY <2>1, <2>5 DEF ReadyAfter
    <3> QED
      BY <2>2, <2>3, <3>1, ReadyOnceMore DEF MissionIsMeant
  <2>7. Happened("ACTIVE", t, HeadSeq)'
    <3>1. PICK k : k = HeadSeq' /\ k \in 1..k /\ stream'[k] = e
      BY <2>2, <2>3, OneMore
    <3> QED
      BY <2>5, <3>1 DEF Happened
  <2>8. ActivationsAreThere'
    <3>1. PICK row : row = Row(cmd, Accepted(HeadSeq + Len(facts)))
      OBVIOUS
    <3>2. row.command_id = <<"activate", t>>
      BY <1>2, <3>1 DEF Row
    <3>3. \A u : row.command_id = <<"activate", u>> => u = t
      BY <3>2
    <3> QED
      BY <1>7, <2>4, <2>7, <3>1, <3>3, AnswersStayTrue DEF MissionIsMeant
  <2> QED
    BY <2>4, <2>6, <2>7, <2>8 DEF MissionIsMeant
<1> QED
  BY <1>3, <1>5, <1>6, <1>7, ExecuteOutcomes

(* What people decide and what others write activates nothing.             *)
LEMMA GateFactsAre ==
    ASSUME NEW gs, NEW p, GateFacts(gs, p) # << >>
    PROVE  \E type \in GateEventTypes : GateFacts(gs, p) = << GateEvent(type, p) >>
BY DEF GateFacts, GateEventTypes

(* A step of the Human Gate, whose ids are of another shape, ...           *)
LEMMA GateStepIsMeant ==
    ASSUME MissionIsMeant, GateStepAtOnce
    PROVE  MissionIsMeant' /\ Onward
<1>1. PICK g \in Gates : \E pay \in Payloads(g, GatesNow[g]) :
         /\ GateFacts(GatesNow, pay) # << >>
         /\ Execute(GateCommand([payload |-> pay, cursor |-> HeadSeq]),
                    GateFacts(GatesNow, pay), "R2_6_REFUSED")
  BY DEF GateStepAtOnce
<1>2. PICK pay \in Payloads(g, GatesNow[g]) :
         /\ GateFacts(GatesNow, pay) # << >>
         /\ Execute(GateCommand([payload |-> pay, cursor |-> HeadSeq]),
                    GateFacts(GatesNow, pay), "R2_6_REFUSED")
  BY <1>1
<1>3. PICK cmd, facts : /\ cmd = GateCommand([payload |-> pay, cursor |-> HeadSeq])
                        /\ facts = GateFacts(GatesNow, pay)
  OBVIOUS
<1>4. Execute(cmd, facts, "R2_6_REFUSED")
  BY <1>2, <1>3
<1>5. \A t : cmd.command_id # <<"activate", t>>
  <2>1. cmd.command_id = <<pay.gate, pay.kind, pay.id>>
    BY <1>3 DEF GateCommand, Command
  <2>2. \A a, b, c, t : <<a, b, c>> # <<"activate", t>>
    OBVIOUS
  <2> QED
    BY <2>1, <2>2
<1>6. CASE Known(cmd) \cup KeyOwners(cmd) # {} /\ UNCHANGED log
  BY <1>6, NothingWritten
<1>7. CASE \E code : /\ Answer(cmd, facts, "R2_6_REFUSED") = Rejected(code)
                     /\ rows' = rows \cup {Row(cmd, Rejected(code))}
                     /\ stream' = stream
  BY <1>7, RefusalWritten
<1>8. CASE /\ rows' = rows \cup {Row(cmd, Accepted(HeadSeq + Len(facts)))}
           /\ stream' = stream \o facts
  <2>1. PICK type \in GateEventTypes : facts = << GateEvent(type, pay) >>
    BY <1>2, <1>3, GateFactsAre
  <2>2. PICK e : e = GateEvent(type, pay)
    OBVIOUS
  <2>3. e.type # "ACTIVE"
    BY <2>2 DEF GateEvent, GateEventTypes
  <2>4. IsStream(stream)
    BY DEF MissionIsMeant
  <2>5. Grows(e)
    BY <1>8, <2>1, <2>2, <2>4, AppendedStream DEF Grows
  <2>6. IsStream(stream)' /\ Onward /\ ActivationsWereReady'
    BY <2>3, <2>4, <2>5, GoesOn, ReadyOnceMore DEF MissionIsMeant
  <2>7. PICK row : row = Row(cmd, Accepted(HeadSeq + Len(facts)))
    OBVIOUS
  <2>8. \A t : row.command_id # <<"activate", t>>
    BY <1>5, <2>7 DEF Row
  <2>9. ActivationsAreThere'
    BY <1>8, <2>6, <2>7, <2>8, AnswersStayTrue DEF MissionIsMeant
  <2> QED
    BY <2>6, <2>9 DEF MissionIsMeant
<1> QED
  BY <1>4, <1>6, <1>7, <1>8, ExecuteOutcomes

(* ... and an event of another writer keep the Mission.                    *)
LEMMA OthersAreMeant ==
    ASSUME MissionIsMeant, OthersWrite
    PROVE  MissionIsMeant' /\ Onward
<1>1. PICK ev \in OtherEvents : stream' = Append(stream, OtherEvent(ev[1], ev[2])) /\ rows' = rows
  BY DEF OthersWrite
<1>2. PICK e : e = OtherEvent(ev[1], ev[2])
  OBVIOUS
<1>3. e.type # "ACTIVE"
  BY <1>2, DispatchLoopAssumption DEF OtherEvent
<1>4. Grows(e)
  BY <1>1, <1>2 DEF Grows
<1>5. IsStream(stream)' /\ Onward /\ ActivationsWereReady'
  BY <1>3, <1>4, GoesOn, ReadyOnceMore DEF MissionIsMeant
<1>6. ActivationsAreThere'
  BY <1>1, <1>5, StillHappened DEF MissionIsMeant, ActivationsAreThere
<1> QED
  BY <1>5, <1>6 DEF MissionIsMeant

-----------------------------------------------------------------------------
(* The steps of a turn.                                                    *)

(* The Mission goes on while one turn moves: the others stand.             *)
LEMMA LoopsKeep ==
    ASSUME Onward, LoopsAreMeant, NEW l \in Loops, NEW w,
           loop' = [loop EXCEPT ![l] = w], TurnIsMeant(w)'
    PROVE  /\ LoopsAreMeant'
           /\ loop'[l] = w /\ \A k \in Loops \ {l} : loop'[k] = loop[k]
<1>1. /\ DOMAIN loop' = Loops /\ loop' = [k \in Loops |-> loop'[k]]
      /\ loop'[l] = w /\ \A k \in Loops \ {l} : loop'[k] = loop[k]
  BY DEF LoopsAreMeant
<1>2. ASSUME NEW k \in Loops \ {l} PROVE TurnIsMeant(loop[k])'
  <2>1. PICK v : v = loop[k]
    OBVIOUS
  <2>2. TurnIsMeant(v)'
    BY <2>1, TurnStands DEF LoopsAreMeant
  <2>3. loop'[k] = v
    BY <1>1, <2>1
  <2> QED
    BY <2>2, <2>3 DEF TurnIsMeant, IsTurn, Counts, Passes, HasToDo
<1>3. TurnIsMeant(loop[l])'
  BY <1>1 DEF TurnIsMeant, IsTurn, Counts, Passes, HasToDo
<1>4. \A k \in Loops : TurnIsMeant(loop[k])'
  BY <1>2, <1>3
<1> QED
  BY <1>1, <1>4 DEF LoopsAreMeant

(* The Mission goes on while no turn moves, ...                            *)
LEMMA LoopsStand ==
    ASSUME Onward, LoopsAreMeant, loop' = loop
    PROVE  LoopsAreMeant'
<1>1. ASSUME NEW k \in Loops PROVE TurnIsMeant(loop[k])'
  <2>1. PICK v : v = loop[k]
    OBVIOUS
  <2>2. TurnIsMeant(v)'
    BY <2>1, TurnStands DEF LoopsAreMeant
  <2>3. loop'[k] = v
    BY <2>1
  <2> QED
    BY <2>2, <2>3 DEF TurnIsMeant, IsTurn, Counts, Passes, HasToDo
<1> QED
  BY <1>1 DEF LoopsAreMeant

(* ... no delegation ...                                                   *)
LEMMA ChildrenStand ==
    ASSUME Onward, ChildrenAreMeant, child' = child
    PROVE  ChildrenAreMeant'
<1>1. ASSUME NEW c \in Children PROVE ChildIsMeant(child[c])'
  <2>1. PICK v : v = child[c]
    OBVIOUS
  <2>2. ChildIsMeant(v)'
    BY <2>1, ChildStands DEF ChildrenAreMeant
  <2>3. child'[c] = v
    BY <2>1
  <2> QED
    BY <2>2, <2>3 DEF ChildIsMeant
<1> QED
  BY <1>1 DEF ChildrenAreMeant

(* ... and at most one Task is handed over, which is ACTIVE.               *)
LEMMA ExecutionsStand ==
    ASSUME Onward, ActiveBeforeDispatched, NEW t,
           executions' \subseteq executions \cup {t},
           t \in executions' => Happened("ACTIVE", t, HeadSeq)'
    PROVE  ActiveBeforeDispatched'
<1>1. \A u : Happened("ACTIVE", u, HeadSeq) => Happened("ACTIVE", u, HeadSeq)'
  BY StillHappened
<1> QED
  BY <1>1 DEF ActiveBeforeDispatched

(* What the caller has counted, and what it has not.                       *)
LEMMA CallsKeep ==
    ASSUME CallsAreCounted, NEW l \in Loops, NEW w,
           loop'[l] = w, \A k \in Loops \ {l} : loop'[k] = loop[k],
           w.used + w.attempts = loop[l].used + loop[l].attempts,
           calls' = calls, lost' = lost
    PROVE  CallsAreCounted'
<1>1. ASSUME NEW k \in Loops
      PROVE  lost'[k] \in Nat /\ calls'[k] = loop'[k].used + loop'[k].attempts + lost'[k]
  <2>1. CASE k = l
    BY <2>1 DEF CallsAreCounted
  <2>2. CASE k # l
    BY <2>2 DEF CallsAreCounted
  <2> QED
    BY <2>1, <2>2
<1> QED
  BY <1>1 DEF CallsAreCounted

(* What was dispatched stays so.                                           *)
LEMMA NoneDispatched ==
    ASSUME Onward, ActiveBeforeDispatched, executions' = executions
    PROVE  ActiveBeforeDispatched'
BY StillHappened DEF ActiveBeforeDispatched

(* A step of one turn that calls nobody, ...                               *)
LEMMA TurnWrites ==
    ASSUME DInv, MissionIsMeant', Onward, NEW l \in Loops, NEW w,
           loop' = [loop EXCEPT ![l] = w], TurnIsMeant(w)',
           w.used + w.attempts = loop[l].used + loop[l].attempts,
           UNCHANGED <<child, executions, calls, lost>>
    PROVE  DInv'
<1>1. /\ LoopsAreMeant'
      /\ loop'[l] = w /\ \A k \in Loops \ {l} : loop'[k] = loop[k]
  BY LoopsKeep DEF DInv
<1>2. CallsAreCounted'
  BY <1>1, CallsKeep DEF DInv
<1>3. ChildrenAreMeant'
  BY ChildrenStand DEF DInv
<1>4. ActiveBeforeDispatched'
  BY NoneDispatched DEF DInv
<1> QED
  BY <1>1, <1>2, <1>3, <1>4 DEF DInv, MissionIsMeant

(* ... and one that only decides.                                          *)
LEMMA TurnMoves ==
    ASSUME DInv, NEW l \in Loops, NEW w, loop' = [loop EXCEPT ![l] = w], TurnIsMeant(w),
           w.used + w.attempts = loop[l].used + loop[l].attempts,
           UNCHANGED <<log, child, executions, calls, lost>>
    PROVE  DInv'
<1>1. MissionIsMeant' /\ Onward
  BY NothingWritten DEF DInv, MissionIsMeant
<1>2. TurnIsMeant(w)'
  BY <1>1, TurnStands
<1> QED
  BY <1>1, <1>2, TurnWrites

(* A turn that starts over.                                                *)
LEMMA FreshIsMeant ==
    ASSUME HeadSeq \in Nat, NEW c \in Nat, NEW u \in Nat, c <= MaxCycles, u <= MaxDispatches
    PROVE  TurnIsMeant(Fresh(c, u)) /\ Fresh(c, u).used = u /\ Fresh(c, u).attempts = 0
<1>1. PICK w : w = Fresh(c, u)
  OBVIOUS
<1>2. /\ IsTurn(w) /\ w.cycle = c /\ w.used = u /\ w.pc = "idle" /\ w.seen = 0
      /\ w.todo = << >> /\ w.attempts = 0
  BY <1>1 DEF Fresh, IsTurn
<1>3. w.pc \notin Within /\ w.pc \notin {"enter", "activate", "reconcile", "dispatch"}
  BY <1>2 DEF Within
<1>4. Counts(w) /\ Passes(w)
  BY <1>2, <1>3 DEF Counts, Passes
<1>5. HasToDo(w)
  BY <1>2, <1>3 DEF HasToDo
<1> QED
  BY <1>1, <1>2, <1>4, <1>5 DEF TurnIsMeant

(* A turn that comes to another place with what it has.                    *)
Comes(v, w, pc) == w = [v EXCEPT !.pc = pc]

(* It keeps all else.                                                      *)
LEMMA ComesTo ==
    ASSUME NEW v, IsTurn(v), NEW w, NEW pc, Comes(v, w, pc)
    PROVE  /\ IsTurn(w) /\ w.pc = pc
           /\ w.cycle = v.cycle /\ w.used = v.used /\ w.seen = v.seen /\ w.on = v.on
           /\ w.cursor = v.cursor /\ w.todo = v.todo /\ w.attempts = v.attempts
BY DEF Comes, IsTurn

(* What is known of a turn before its step.                                *)
LEMMA TurnOf ==
    ASSUME DInv, NEW l \in Loops, NEW v, v = loop[l]
    PROVE  TurnIsMeant(v) /\ HeadSeq \in Nat
BY StreamShape DEF DInv, LoopsAreMeant, HeadSeq

(* Observe: the turn keeps the head for later.                             *)
LEMMA ObserveKeeps ==
    ASSUME DInv, NEW l \in Loops, Observe(l)
    PROVE  DInv'
<1>1. PICK v, h : v = loop[l] /\ h = HeadSeq
  OBVIOUS
<1>2. TurnIsMeant(v) /\ h \in Nat /\ v.pc = "idle"
  BY <1>1, TurnOf DEF Observe
<1>3. PICK t \in Lineages : loop' = [loop EXCEPT ![l] = Observing(v, h, t)]
  BY <1>1 DEF Observe, Goto
<1>4. PICK w : w = Observing(v, h, t)
  OBVIOUS
<1>5. /\ IsTurn(w) /\ w.pc = "boundary" /\ w.seen = h /\ w.cycle = v.cycle /\ w.used = v.used
      /\ w.todo = v.todo /\ w.attempts = v.attempts
  BY <1>2, <1>4 DEF Observing, TurnIsMeant, IsTurn
<1>6. Counts(w) /\ Passes(w) /\ HasToDo(w)
  BY <1>1, <1>2, <1>5 DEF TurnIsMeant, Counts, Passes, HasToDo, Within
<1>7. TurnIsMeant(w) /\ w.used + w.attempts = v.used + v.attempts
  BY <1>5, <1>6 DEF TurnIsMeant
<1> QED
  BY <1>1, <1>3, <1>4, <1>7, TurnMoves DEF Observe

(* The gate is found open at a head that may be another than the observed  *)
(* one; if it is not, the gate was open there.                             *)
LEMMA BoundaryKeeps ==
    ASSUME DInv, NEW l \in Loops, Boundary(l)
    PROVE  DInv'
<1>1. PICK v, h : v = loop[l] /\ h = HeadSeq
  OBVIOUS
<1>2. TurnIsMeant(v) /\ h \in Nat /\ v.pc = "boundary"
  BY <1>1, TurnOf DEF Boundary
<1>3. CASE BoundaryDecision(GatesNow, v.on) = "ALLOW"
  <2>1. PICK w : w = [v EXCEPT !.pc = "enter"]
    OBVIOUS
  <2>2. loop' = [loop EXCEPT ![l] = w]
    BY <1>1, <1>3, <2>1 DEF Boundary, Goto
  <2>3. /\ IsTurn(w) /\ w.pc = "enter" /\ w.seen = v.seen /\ w.cycle = v.cycle /\ w.used = v.used
        /\ w.todo = v.todo /\ w.attempts = v.attempts /\ w.on = v.on
    BY <1>2, <2>1, ComesTo DEF Comes, TurnIsMeant
  <2>4. Counts(w) /\ HasToDo(w)
    BY <1>2, <2>3 DEF TurnIsMeant, Counts, HasToDo, Within
  <2>5. Passes(w)
    <3>1. h = w.seen => BoundaryDecision(GatesAt[w.seen], w.on) = "ALLOW"
      BY <1>1, <1>3, <2>3 DEF GatesNow
    <3> QED
      BY <1>1, <1>2, <2>3, <3>1 DEF TurnIsMeant, Passes, Within
  <2>6. TurnIsMeant(w) /\ w.used + w.attempts = v.used + v.attempts
    BY <2>3, <2>4, <2>5 DEF TurnIsMeant
  <2> QED
    BY <1>1, <2>2, <2>6, TurnMoves DEF Boundary
<1>4. CASE BoundaryDecision(GatesNow, v.on) # "ALLOW"
  <2>1. PICK c, u, w : c = v.cycle /\ u = v.used /\ w = Fresh(c, u)
    OBVIOUS
  <2>2. loop' = [loop EXCEPT ![l] = w]
    BY <1>1, <1>4, <2>1 DEF Boundary, Goto
  <2>3. /\ c \in Nat /\ u \in Nat /\ c <= MaxCycles /\ u <= MaxDispatches /\ v.attempts = 0
    BY <1>2, <2>1, DispatchLoopAssumption DEF TurnIsMeant, Counts, Within
  <2>4. TurnIsMeant(w) /\ w.used = u /\ w.attempts = 0
    BY <1>1, <1>2, <2>1, <2>3, FreshIsMeant
  <2>5. w.used + w.attempts = v.used + v.attempts
    BY <2>1, <2>3, <2>4
  <2> QED
    BY <1>1, <2>2, <2>4, <2>5, TurnMoves DEF Boundary
<1> QED
  BY <1>3, <1>4

(* What the report of a turn says of the Tasks.                            *)
BindingGates == {"READY", "WAIT", "BLOCKED"}

(* ACTIVE and READY.                                                       *)
LEMMA StatusMeans ==
    ASSUME NEW n, NEW gate \in BindingGates, NEW t
    PROVE  /\ Readiness(t, n, gate) = "ACTIVE" => Happened("ACTIVE", t, n)
           /\ Readiness(t, n, gate) = "READY" => PredecessorsDone(t, n)
<1>1. CASE TaskState(t, n) = "ACTIVE"
  <2>1. Readiness(t, n, gate) = IF gate = "READY" THEN "ACTIVE" ELSE gate
    BY <1>1 DEF Readiness, TaskTerminal
  <2> QED
    BY <1>1, <2>1, ActiveIs DEF BindingGates
<1>2. CASE TaskState(t, n) \in TaskTerminal
  <2>1. Readiness(t, n, gate) = "NOT_ELIGIBLE"
    BY <1>2 DEF Readiness, TaskTerminal
  <2> QED
    BY <2>1
<1>3. CASE TaskState(t, n) # "ACTIVE" /\ TaskState(t, n) \notin TaskTerminal
  <2>1. Readiness(t, n, gate) = IF Available(t, n) THEN gate ELSE DependencyGate(t, n)
    BY <1>3 DEF Readiness
  <2>2. DependencyGate(t, n) \in {"BLOCKED", "WAIT"}
    BY DEF DependencyGate
  <2>3. Available(t, n) => PredecessorsDone(t, n)
    BY SucceededIs DEF Available, PredecessorsDone
  <2> QED
    BY <2>1, <2>2, <2>3 DEF BindingGates
<1> QED
  BY <1>1, <1>2, <1>3

(* The selection is never empty and never beyond the budget.               *)
LEMMA SelectionIsMeant ==
    ASSUME NEW n, NEW gate \in BindingGates, NEW used \in Nat, used < MaxDispatches,
           WithStatus("READY", n, gate) # << >>
    PROVE  LET todo == Select(n, gate, used)
           IN  /\ todo \in Seq(Tasks) /\ todo # << >> /\ used + Len(todo) <= MaxDispatches
               /\ \A i \in 1..Len(todo) : PredecessorsDone(todo[i], n)
<1>1. PICK ready, T, room : /\ ready = WithStatus("READY", n, gate) /\ T = TasksWith("READY", n, gate)
                            /\ room = Least(PerCycle, Least(MaxDispatches - used, Len(ready)))
  OBVIOUS
<1>2. ready \in Seq(T) /\ ready # << >> /\ Len(ready) \in Nat \ {0}
  BY <1>1, WithStatusHas
<1>3. T \subseteq Tasks /\ \A t \in T : PredecessorsDone(t, n)
  BY <1>1, StatusMeans DEF TasksWith
<1>4. room \in Nat \ {0} /\ room <= Len(ready) /\ used + room <= MaxDispatches
  <2>1. \A a, b \in Nat \ {0} : Least(a, b) \in Nat \ {0} /\ Least(a, b) <= a /\ Least(a, b) <= b
    BY DEF Least
  <2>2. MaxDispatches \in Nat /\ PerCycle \in Nat \ {0}
    BY DispatchLoopAssumption
  <2>3. PICK left, len : left = MaxDispatches - used /\ len = Len(ready)
    OBVIOUS
  <2>4. left \in Nat \ {0} /\ len \in Nat \ {0}
    BY <1>2, <2>2, <2>3
  <2>5. PICK most : most = Least(left, len)
    OBVIOUS
  <2>6. most \in Nat \ {0} /\ most <= left /\ most <= len
    BY <2>1, <2>4, <2>5
  <2>7. room = Least(PerCycle, most)
    BY <1>1, <2>3, <2>5
  <2>8. room \in Nat \ {0} /\ room <= most
    BY <2>1, <2>2, <2>6, <2>7
  <2> QED
    BY <2>2, <2>3, <2>4, <2>6, <2>8
<1>5. PICK todo : todo = SubSeq(ready, 1, room) /\ todo = Select(n, gate, used)
  BY <1>1 DEF Select
<1>6. todo \in Seq(T) /\ Len(todo) = room
  BY <1>2, <1>4, <1>5
<1>7. todo \in Seq(Tasks) /\ todo # << >> /\ \A i \in 1..Len(todo) : todo[i] \in T
  BY <1>3, <1>4, <1>6
<1> QED
  BY <1>3, <1>4, <1>5, <1>6, <1>7

(* A turn is decided: a stale one, one that has no budget left and one     *)
(* that is blocked start over, any other has a Task or nothing to do.      *)
LEMMA EnterKeeps ==
    ASSUME DInv, NEW l \in Loops, Enter(l)
    PROVE  DInv'
<1>1. PICK v, h : v = loop[l] /\ h = HeadSeq
  OBVIOUS
<1>2. TurnIsMeant(v) /\ h \in Nat /\ v.pc = "enter"
  BY <1>1, TurnOf DEF Enter
<1>3. PICK c, u, n : c = v.cycle /\ u = v.used /\ n = v.seen
  OBVIOUS
<1>4. /\ c \in Nat /\ u \in Nat /\ c <= MaxCycles /\ u <= MaxDispatches /\ v.attempts = 0
      /\ n \in Nat /\ n <= h /\ IsTurn(v) /\ v.todo \in Seq(Tasks)
      /\ h = n => BoundaryDecision(GatesAt[n], v.on) = "ALLOW"
      /\ MaxCycles \in Nat /\ MaxDispatches \in Nat
  BY <1>1, <1>2, <1>3, DispatchLoopAssumption DEF TurnIsMeant, Counts, Passes, HasToDo, Within
<1>5. PICK exhausted \in BOOLEAN, gate \in BindingGates :
         Goto(l,
           CASE \/ h # n \/ exhausted \/ c >= MaxCycles \/ u >= MaxDispatches
                \/ Report(n, gate) \in {"PLAN_COMPLETE", "BLOCKED"} ->
                   Fresh(c, u)
             [] OTHER ->
                   IF WithStatus("ACTIVE", n, gate) # << >>
                   THEN Reconciling(v, Head(WithStatus("ACTIVE", n, gate)))
                   ELSE IF Report(n, gate) = "WAIT" THEN [v EXCEPT !.pc = "decided"]
                   ELSE Selected(v, Select(n, gate, u)))
  BY <1>1, <1>3 DEF Enter, BindingGates
<1>6. UNCHANGED <<log, child, executions, calls, lost>>
  BY DEF Enter
<1>7. CASE \/ h # n \/ exhausted \/ c >= MaxCycles \/ u >= MaxDispatches
           \/ Report(n, gate) \in {"PLAN_COMPLETE", "BLOCKED"}
  <2>1. PICK w : w = Fresh(c, u)
    OBVIOUS
  <2>2. loop' = [loop EXCEPT ![l] = w]
    BY <1>5, <1>7, <2>1 DEF Goto
  <2>3. TurnIsMeant(w) /\ w.used = u /\ w.attempts = 0
    BY <1>1, <1>2, <1>4, <2>1, FreshIsMeant
  <2>4. w.used + w.attempts = v.used + v.attempts
    BY <1>3, <1>4, <2>3
  <2> QED
    BY <1>1, <1>6, <2>2, <2>3, <2>4, TurnMoves
<1>8. CASE ~(\/ h # n \/ exhausted \/ c >= MaxCycles \/ u >= MaxDispatches
             \/ Report(n, gate) \in {"PLAN_COMPLETE", "BLOCKED"})
  <2>1. h = n /\ c < MaxCycles /\ u < MaxDispatches
    BY <1>4, <1>8
  <2>2. BoundaryDecision(GatesAt[n], v.on) = "ALLOW"
    BY <1>4, <2>1
  (* A turn that goes on, at any of the three places. *)
  <2>3. ASSUME NEW w, IsTurn(w), w.cycle = c, w.used = u, w.seen = n, w.on = v.on,
               w.attempts = 0, HasToDo(w), w.pc \in Within, loop' = [loop EXCEPT ![l] = w]
        PROVE  DInv'
    <3>1. Counts(w)
      BY <1>4, <2>1, <2>3 DEF Counts
    <3>2. Passes(w)
      BY <1>1, <1>4, <2>1, <2>2, <2>3 DEF Passes
    <3>3. TurnIsMeant(w) /\ w.used + w.attempts = v.used + v.attempts
      BY <1>3, <1>4, <2>3, <3>1, <3>2 DEF TurnIsMeant
    <3> QED
      BY <1>1, <1>6, <2>3, <3>3, TurnMoves
  <2>4. CASE WithStatus("ACTIVE", n, gate) # << >>
    <3>1. PICK active, t : active = WithStatus("ACTIVE", n, gate) /\ t = Head(active)
      OBVIOUS
    <3>2. active \in Seq(TasksWith("ACTIVE", n, gate)) /\ active # << >>
      BY <2>4, <3>1, WithStatusHas
    <3>3. t \in TasksWith("ACTIVE", n, gate)
      BY <3>1, <3>2
    <3>4. t \in Tasks /\ Happened("ACTIVE", t, HeadSeq)
      BY <1>1, <2>1, <3>3, StatusMeans DEF TasksWith
    <3>5. PICK w : w = Reconciling(v, t)
      OBVIOUS
    <3>6. loop' = [loop EXCEPT ![l] = w]
      BY <1>5, <1>8, <2>4, <3>1, <3>5 DEF Goto
    <3>7. /\ IsTurn(w) /\ w.cycle = v.cycle /\ w.used = v.used /\ w.seen = v.seen /\ w.on = v.on
          /\ w.attempts = v.attempts /\ w.pc = "reconcile" /\ w.todo = <<t>>
      BY <1>4, <3>5 DEF Reconciling, IsTurn
    <3>8. HasToDo(w)
      BY <1>3, <1>4, <2>1, <3>4, <3>7 DEF HasToDo
    <3> QED
      BY <1>3, <1>4, <2>3, <3>6, <3>7, <3>8 DEF Within
  <2>5. CASE WithStatus("ACTIVE", n, gate) = << >> /\ Report(n, gate) = "WAIT"
    <3>1. PICK w : w = [v EXCEPT !.pc = "decided"]
      OBVIOUS
    <3>2. loop' = [loop EXCEPT ![l] = w]
      BY <1>5, <1>8, <2>5, <3>1 DEF Goto
    <3>3. /\ IsTurn(w) /\ w.cycle = v.cycle /\ w.used = v.used /\ w.seen = v.seen /\ w.on = v.on
          /\ w.attempts = v.attempts /\ w.pc = "decided" /\ w.todo = v.todo
      <4>1. IsTurn(v) /\ Comes(v, w, "decided")
        BY <1>4, <3>1 DEF Comes
      <4> QED
        BY <4>1, ComesTo
    <3>4. HasToDo(w)
      BY <1>4, <3>3 DEF HasToDo
    <3> QED
      BY <1>3, <1>4, <2>3, <3>2, <3>3, <3>4 DEF Within
  <2>6. CASE WithStatus("ACTIVE", n, gate) = << >> /\ Report(n, gate) # "WAIT"
    <3>1. WithStatus("READY", n, gate) # << >>
      <4>1. Report(n, gate) \notin {"PLAN_COMPLETE", "BLOCKED", "WAIT"}
        BY <1>8, <2>6
      <4>2. Report(n, gate) = "READY" => WithStatus("READY", n, gate) # << >>
        BY DEF Report
      <4>3. Report(n, gate) \in {"PLAN_COMPLETE", "BLOCKED", "WAIT", "READY"}
        BY DEF Report
      <4> QED
        BY <4>1, <4>2, <4>3
    <3>2. PICK todo : todo = Select(n, gate, u)
      OBVIOUS
    <3>3. /\ todo \in Seq(Tasks) /\ todo # << >> /\ u + Len(todo) <= MaxDispatches
          /\ \A i \in 1..Len(todo) : PredecessorsDone(todo[i], n)
      BY <1>4, <2>1, <3>1, <3>2, SelectionIsMeant
    <3>4. PICK w : w = Selected(v, todo)
      OBVIOUS
    <3>5. loop' = [loop EXCEPT ![l] = w]
      BY <1>5, <1>8, <2>6, <3>2, <3>4 DEF Goto
    <3>6. /\ IsTurn(w) /\ w.cycle = v.cycle /\ w.used = v.used /\ w.seen = v.seen /\ w.on = v.on
          /\ w.attempts = v.attempts /\ w.pc = "activate" /\ w.todo = todo
      BY <1>4, <3>4 DEF Selected, IsTurn
    <3>7. HasToDo(w)
      BY <1>1, <1>3, <1>4, <2>1, <3>3, <3>6 DEF HasToDo
    <3> QED
      BY <1>3, <1>4, <2>3, <3>5, <3>6, <3>7 DEF Within
  <2> QED
    BY <2>4, <2>5, <2>6
<1> QED
  BY <1>7, <1>8

(* Reconcile: the Task is ACTIVE, whatever the authority says.             *)
LEMMA ReconcileKeeps ==
    ASSUME DInv, NEW l \in Loops, Reconcile(l)
    PROVE  DInv'
<1>1. PICK v : v = loop[l]
  OBVIOUS
<1>2. TurnIsMeant(v) /\ v.pc = "reconcile"
  BY <1>1, TurnOf DEF Reconcile
<1>3. PICK pc \in {"decided", "dispatch"} : loop' = [loop EXCEPT ![l] = [v EXCEPT !.pc = pc]]
  BY <1>1 DEF Reconcile, Move, Goto
<1>4. PICK w : w = [v EXCEPT !.pc = pc]
  OBVIOUS
<1>5. /\ IsTurn(w) /\ w.pc = pc /\ w.cycle = v.cycle /\ w.used = v.used /\ w.seen = v.seen
      /\ w.on = v.on /\ w.todo = v.todo /\ w.attempts = v.attempts
  <2>1. IsTurn(v) /\ Comes(v, w, pc)
    BY <1>2, <1>4 DEF TurnIsMeant, Comes
  <2> QED
    BY <2>1, ComesTo
<1>6. Counts(w) /\ Passes(w) /\ HasToDo(w)
  BY <1>2, <1>5 DEF TurnIsMeant, Counts, Passes, HasToDo, Within
<1>7. TurnIsMeant(w) /\ w.used + w.attempts = v.used + v.attempts
  BY <1>5, <1>6 DEF TurnIsMeant
<1> QED
  BY <1>1, <1>3, <1>4, <1>7, TurnMoves DEF Reconcile

(* Acknowledge: what was called is counted.                                *)
LEMMA AcknowledgeKeeps ==
    ASSUME DInv, NEW l \in Loops, Acknowledge(l)
    PROVE  DInv'
<1>1. PICK v : v = loop[l]
  OBVIOUS
<1>2. TurnIsMeant(v) /\ v.pc = "decided" /\ HeadSeq \in Nat
  BY <1>1, TurnOf DEF Acknowledge
<1>3. PICK c, u, w : c = v.cycle + 1 /\ u = v.used + v.attempts /\ w = Fresh(c, u)
  OBVIOUS
<1>4. c \in Nat /\ u \in Nat /\ c <= MaxCycles /\ u <= MaxDispatches
  <2>1. MaxCycles \in Nat /\ MaxDispatches \in Nat
    BY DispatchLoopAssumption
  <2>2. /\ v.cycle \in Nat /\ v.used \in Nat /\ v.attempts \in Nat
        /\ v.cycle < MaxCycles /\ v.used + v.attempts <= MaxDispatches
    BY <1>2 DEF TurnIsMeant, Counts, Within
  <2> QED
    BY <1>3, <2>1, <2>2
<1>5. TurnIsMeant(w) /\ w.used = u /\ w.attempts = 0
  BY <1>2, <1>3, <1>4, FreshIsMeant
<1>6. w.used + w.attempts = v.used + v.attempts
  BY <1>3, <1>4, <1>5
<1>7. loop' = [loop EXCEPT ![l] = w]
  BY <1>1, <1>3 DEF Acknowledge, Goto
<1> QED
  BY <1>1, <1>5, <1>6, <1>7, TurnMoves DEF Acknowledge

(* What was called and not counted is lost with the caller.                *)
LEMMA LoopDiesKeeps ==
    ASSUME DInv, NEW l \in Loops, LoopDies(l)
    PROVE  DInv'
<1>1. PICK v : v = loop[l]
  OBVIOUS
<1>2. TurnIsMeant(v) /\ HeadSeq \in Nat
  BY <1>1, TurnOf
<1>3. PICK c, u, w : c = v.cycle /\ u = v.used /\ w = Fresh(c, u)
  OBVIOUS
<1>4. c \in Nat /\ u \in Nat /\ v.attempts \in Nat /\ c <= MaxCycles /\ u <= MaxDispatches
  BY <1>2, <1>3, DispatchLoopAssumption DEF TurnIsMeant, Counts
<1>5. TurnIsMeant(w) /\ w.used = u /\ w.attempts = 0
  BY <1>2, <1>3, <1>4, FreshIsMeant
<1>6. /\ loop' = [loop EXCEPT ![l] = w] /\ lost' = [lost EXCEPT ![l] = @ + v.attempts]
      /\ UNCHANGED log /\ child' = child /\ executions' = executions /\ calls' = calls
  BY <1>1, <1>3 DEF LoopDies, Goto
<1>7. MissionIsMeant' /\ Onward
  BY <1>6, NothingWritten DEF DInv, MissionIsMeant
<1>8. TurnIsMeant(w)'
  BY <1>5, <1>7, TurnStands
<1>9. /\ LoopsAreMeant'
      /\ loop'[l] = w /\ \A k \in Loops \ {l} : loop'[k] = loop[k]
  BY <1>6, <1>7, <1>8, LoopsKeep DEF DInv
<1>10. CallsAreCounted'
  <2>1. /\ DOMAIN lost' = Loops /\ lost' = [k \in Loops |-> lost'[k]]
        /\ lost'[l] = lost[l] + v.attempts /\ \A k \in Loops \ {l} : lost'[k] = lost[k]
    BY <1>6 DEF DInv, CallsAreCounted
  <2>2. \A k \in Loops : lost[k] \in Nat /\ calls[k] = loop[k].used + loop[k].attempts + lost[k]
    BY DEF DInv, CallsAreCounted
  <2>3. ASSUME NEW k \in Loops
        PROVE  lost'[k] \in Nat /\ calls'[k] = loop'[k].used + loop'[k].attempts + lost'[k]
    <3>1. CASE k = l
      <4>1. calls'[k] = u + v.attempts + lost[k] /\ lost[k] \in Nat
        BY <1>1, <1>3, <1>6, <2>2, <3>1
      <4>2. loop'[k].used = u /\ loop'[k].attempts = 0 /\ lost'[k] = lost[k] + v.attempts
        BY <1>5, <1>9, <2>1, <3>1
      <4> QED
        BY <1>4, <4>1, <4>2
    <3>2. CASE k # l
      BY <1>6, <1>9, <2>1, <2>2, <3>2
    <3> QED
      BY <3>1, <3>2
  <2>4. DOMAIN calls' = Loops /\ calls' = [k \in Loops |-> calls'[k]]
    BY <1>6 DEF DInv, CallsAreCounted
  <2> QED
    BY <2>1, <2>3, <2>4 DEF CallsAreCounted
<1>11. ChildrenAreMeant'
  BY <1>6, <1>7, ChildrenStand DEF DInv
<1>12. ActiveBeforeDispatched'
  BY <1>6, <1>7, NoneDispatched DEF DInv
<1> QED
  BY <1>7, <1>9, <1>10, <1>11, <1>12 DEF DInv, MissionIsMeant

(* Activate: whatever became of the Task since the turn was decided, what  *)
(* comes before it is done.                                                *)
LEMMA ActivateKeeps ==
    ASSUME DInv, NEW l \in Loops, Activate(l)
    PROVE  DInv'
<1>1. PICK v, t, seq : v = loop[l] /\ t = Head(v.todo) /\ seq = v.cursor
  OBVIOUS
<1>2. TurnIsMeant(v) /\ v.pc = "activate"
  BY <1>1, TurnOf DEF Activate
<1>3. /\ v.todo \in Seq(Tasks) /\ v.todo # << >> /\ v.used + v.attempts + Len(v.todo) <= MaxDispatches
      /\ \A i \in 1..Len(v.todo) : PredecessorsDone(v.todo[i], HeadSeq)
  BY <1>2 DEF TurnIsMeant, HasToDo
<1>4. t = v.todo[1] /\ 1 \in 1..Len(v.todo)
  BY <1>1, <1>3
<1>5. PredecessorsDone(t, HeadSeq)
  BY <1>3, <1>4
<1>6. PICK answer : answer = ActivationAnswer(t, seq)
  OBVIOUS
<1>7. /\ Execute(Activation(t, seq), ActivationFacts(t), "TRANSITION_REFUSED")
      /\ Goto(l, IF answer.ok THEN Activated(v, answer.last_seq) ELSE [v EXCEPT !.pc = "decided"])
      /\ UNCHANGED <<child, executions, calls, lost>>
  BY <1>1, <1>6 DEF Activate
<1>8. MissionIsMeant' /\ Onward /\ (answer.ok => Happened("ACTIVE", t, HeadSeq)')
  <2>1. MissionIsMeant
    BY DEF DInv, MissionIsMeant
  <2> QED
    BY <1>5, <1>6, <1>7, <2>1, ActivationIsMeant
<1>9. TurnIsMeant(v)'
  BY <1>2, <1>8, TurnStands
<1>10. \A i \in 1..Len(v.todo) : PredecessorsDone(v.todo[i], HeadSeq)'
  BY <1>3, <1>8, StillHappened
<1>11. CASE answer.ok
  <2>1. PICK w, last : last = answer.last_seq /\ w = Activated(v, last)
    OBVIOUS
  <2>2. loop' = [loop EXCEPT ![l] = w]
    BY <1>7, <1>11, <2>1 DEF Goto
  <2>3. IsTurn(v)
    BY <1>2 DEF TurnIsMeant
  <2>4. /\ IsTurn(w) /\ w.pc = "dispatch" /\ w.cycle = v.cycle /\ w.used = v.used
        /\ w.seen = v.seen /\ w.on = v.on /\ w.todo = v.todo /\ w.attempts = v.attempts
    BY <2>1, <2>3 DEF Activated, IsTurn
  <2>5. Counts(w)
    BY <1>2, <2>4 DEF TurnIsMeant, Counts, Within
  <2>6. Passes(w)'
    BY <1>2, <1>9, <2>4 DEF TurnIsMeant, Passes, Within
  <2>7. HasToDo(w)'
    <3>1. Happened("ACTIVE", w.todo[1], HeadSeq)'
      BY <1>4, <1>8, <1>11, <2>4
    <3>2. \A i \in 2..Len(w.todo) : PredecessorsDone(w.todo[i], HeadSeq)'
      <4>1. \A i \in 2..Len(v.todo) : i \in 1..Len(v.todo)
        BY <1>3
      <4> QED
        BY <1>10, <2>4, <4>1
    <3> QED
      BY <1>3, <2>4, <3>1, <3>2 DEF HasToDo
  <2>8. TurnIsMeant(w)' /\ w.used + w.attempts = v.used + v.attempts
    BY <2>4, <2>5, <2>6, <2>7 DEF TurnIsMeant
  <2> QED
    BY <1>1, <1>7, <1>8, <2>2, <2>8, TurnWrites
<1>12. CASE ~answer.ok
  <2>1. PICK w : w = [v EXCEPT !.pc = "decided"]
    OBVIOUS
  <2>2. loop' = [loop EXCEPT ![l] = w]
    BY <1>7, <1>12, <2>1 DEF Goto
  <2>3. IsTurn(v) /\ Comes(v, w, "decided")
    BY <1>2, <2>1 DEF TurnIsMeant, Comes
  <2>4. /\ IsTurn(w) /\ w.pc = "decided" /\ w.cycle = v.cycle /\ w.used = v.used
        /\ w.seen = v.seen /\ w.on = v.on /\ w.todo = v.todo /\ w.attempts = v.attempts
    BY <2>3, ComesTo
  <2>5. Counts(w)
    BY <1>2, <2>4 DEF TurnIsMeant, Counts, Within
  <2>6. Passes(w)'
    BY <1>2, <1>9, <2>4 DEF TurnIsMeant, Passes, Within
  <2>7. HasToDo(w)'
    BY <1>3, <2>4 DEF HasToDo
  <2>8. TurnIsMeant(w)' /\ w.used + w.attempts = v.used + v.attempts
    BY <2>4, <2>5, <2>6, <2>7 DEF TurnIsMeant
  <2> QED
    BY <1>1, <1>7, <1>8, <2>2, <2>8, TurnWrites
<1> QED
  BY <1>11, <1>12

(* Dispatch: the Task is ACTIVE for good, and there was room for the call. *)
LEMMA DispatchKeeps ==
    ASSUME DInv, NEW l \in Loops, Dispatch(l)
    PROVE  DInv'
<1>1. PICK v, t : v = loop[l] /\ t = Head(v.todo)
  OBVIOUS
<1>2. TurnIsMeant(v) /\ v.pc = "dispatch"
  BY <1>1, TurnOf DEF Dispatch
<1>3. /\ v.todo \in Seq(Tasks) /\ v.todo # << >> /\ v.used + v.attempts + Len(v.todo) <= MaxDispatches
      /\ Happened("ACTIVE", v.todo[1], HeadSeq)
      /\ \A i \in 2..Len(v.todo) : PredecessorsDone(v.todo[i], HeadSeq)
      /\ v.used \in Nat /\ v.attempts \in Nat /\ IsTurn(v)
  BY <1>2 DEF TurnIsMeant, HasToDo, Counts
<1>4. PICK rest : rest = Tail(v.todo)
  OBVIOUS
<1>5. /\ rest \in Seq(Tasks) /\ Len(v.todo) = Len(rest) + 1 /\ Len(rest) \in Nat
      /\ \A i \in 1..Len(rest) : rest[i] = v.todo[i + 1] /\ i + 1 \in 2..Len(v.todo)
      /\ t = v.todo[1]
  <2>1. PICK todo : todo = v.todo
    OBVIOUS
  <2>2. todo \in Seq(Tasks) /\ todo # << >> /\ Len(todo) \in Nat \ {0}
    BY <1>3, <2>1
  <2>3. rest = Tail(todo) /\ rest \in Seq(Tasks) /\ Len(rest) = Len(todo) - 1
    BY <1>4, <2>1, <2>2
  <2>4. \A i \in 1..Len(rest) : rest[i] = todo[i + 1]
    BY <2>2, <2>3
  <2>5. t = todo[1]
    BY <1>1, <2>1, <2>2
  <2> QED
    BY <2>1, <2>2, <2>3, <2>4, <2>5
<1>6. PICK pc \in {"decided", "activate"} :
         /\ Goto(l, Called(v, pc)) /\ (pc = "activate" => rest # << >>)
         /\ executions' \subseteq executions \cup {t}
  <2>1. \/ /\ executions' = executions \cup {t}
           /\ Goto(l, Called(v, IF rest = << >> THEN "decided" ELSE "activate"))
        \/ /\ executions' \in {executions, executions \cup {t}}
           /\ Goto(l, Called(v, "decided"))
    BY <1>1, <1>4 DEF Dispatch
  <2> QED
    BY <2>1
<1>7. calls' = [calls EXCEPT ![l] = @ + 1] /\ UNCHANGED log /\ child' = child /\ lost' = lost
  BY DEF Dispatch
<1>8. MissionIsMeant' /\ Onward
  BY <1>7, NothingWritten DEF DInv, MissionIsMeant
<1>9. PICK w : w = Called(v, pc)
  OBVIOUS
<1>10. loop' = [loop EXCEPT ![l] = w]
  BY <1>6, <1>9 DEF Goto
<1>11. /\ IsTurn(w) /\ w.pc = pc /\ w.cycle = v.cycle /\ w.used = v.used
       /\ w.seen = v.seen /\ w.on = v.on /\ w.todo = rest /\ w.attempts = v.attempts + 1
  BY <1>3, <1>4, <1>9 DEF Called, IsTurn
<1>12. TurnIsMeant(w)
  <2>1. Counts(w)
    <3>1. v.used + v.attempts + 1 <= MaxDispatches /\ MaxDispatches \in Nat
      BY <1>3, <1>5, DispatchLoopAssumption
    <3>2. /\ v.cycle \in Nat /\ v.cycle <= MaxCycles /\ v.cycle < MaxCycles
      BY <1>2 DEF TurnIsMeant, Counts, Within
    <3>3. pc \in Within
      BY DEF Within
    <3>4. v.attempts + 1 \in Nat /\ v.used + (v.attempts + 1) <= MaxDispatches
      BY <1>3, <3>1
    <3> QED
      BY <1>3, <1>11, <3>2, <3>3, <3>4 DEF Counts
  <2>2. Passes(w)
    BY <1>2, <1>11 DEF TurnIsMeant, Passes, Within
  <2>3. HasToDo(w)
    <3>1. \A i \in 1..Len(rest) : PredecessorsDone(rest[i], HeadSeq)
      BY <1>3, <1>5
    <3>2. v.used + (v.attempts + 1) + Len(rest) <= MaxDispatches
      <4>1. MaxDispatches \in Nat
        BY DispatchLoopAssumption
      <4>2. \A a, b, n, m \in Nat : a + b + (n + 1) <= m => a + (b + 1) + n <= m
        OBVIOUS
      <4>3. v.used + v.attempts + (Len(rest) + 1) <= MaxDispatches
        BY <1>3, <1>5
      <4>4. v.used \in Nat /\ v.attempts \in Nat /\ Len(rest) \in Nat
        BY <1>3, <1>5
      <4> QED
        BY <4>1, <4>2, <4>3, <4>4
    <3> QED
      <4>1. pc \notin {"reconcile", "dispatch"}
        OBVIOUS
      <4> QED
        BY <1>5, <1>6, <1>11, <3>1, <3>2, <4>1 DEF HasToDo
  <2> QED
    BY <1>11, <2>1, <2>2, <2>3 DEF TurnIsMeant
<1>13. TurnIsMeant(w)'
  BY <1>8, <1>12, TurnStands
<1>14. /\ LoopsAreMeant'
       /\ loop'[l] = w /\ \A k \in Loops \ {l} : loop'[k] = loop[k]
  BY <1>8, <1>10, <1>13, LoopsKeep DEF DInv
<1>15. CallsAreCounted'
  <2>1. /\ DOMAIN calls' = Loops /\ calls' = [k \in Loops |-> calls'[k]]
        /\ calls'[l] = calls[l] + 1 /\ \A k \in Loops \ {l} : calls'[k] = calls[k]
    BY <1>7 DEF DInv, CallsAreCounted
  <2>2. \A k \in Loops : lost[k] \in Nat /\ calls[k] = loop[k].used + loop[k].attempts + lost[k]
    BY DEF DInv, CallsAreCounted
  <2>3. ASSUME NEW k \in Loops
        PROVE  lost'[k] \in Nat /\ calls'[k] = loop'[k].used + loop'[k].attempts + lost'[k]
    <3>1. CASE k = l
      <4>1. lost[k] \in Nat /\ calls[k] = v.used + v.attempts + lost[k]
        BY <1>1, <2>2, <3>1
      <4>2. loop'[k].used = v.used /\ loop'[k].attempts = v.attempts + 1
        BY <1>11, <1>14, <3>1
      <4> QED
        <5>1. lost'[k] = lost[k]
          BY <1>7
        <5>2. calls'[k] = calls[k] + 1
          BY <2>1, <3>1
        <5>3. \A u, a, x \in Nat : u + a + x + 1 = u + (a + 1) + x
          OBVIOUS
        <5>4. v.used \in Nat /\ v.attempts \in Nat
          BY <1>3
        <5> QED
          BY <4>1, <4>2, <5>1, <5>2, <5>3, <5>4
    <3>2. CASE k # l
      BY <1>7, <1>14, <2>1, <2>2, <3>2
    <3> QED
      BY <3>1, <3>2
  <2>4. DOMAIN lost' = Loops /\ lost' = [k \in Loops |-> lost'[k]]
    BY <1>7 DEF DInv, CallsAreCounted
  <2> QED
    BY <2>1, <2>3, <2>4 DEF CallsAreCounted
<1>16. ChildrenAreMeant'
  BY <1>7, <1>8, ChildrenStand DEF DInv
<1>17. ActiveBeforeDispatched'
  <2>1. Happened("ACTIVE", t, HeadSeq)'
    BY <1>3, <1>5, <1>8, StillHappened
  <2> QED
    BY <1>6, <1>8, <2>1, ExecutionsStand DEF DInv
<1> QED
  BY <1>8, <1>14, <1>15, <1>16, <1>17 DEF DInv, MissionIsMeant

-----------------------------------------------------------------------------
(* The steps of a delegated child, and of everybody else.                  *)

(* A step of one delegation: the others stand.                             *)
LEMMA ChildMoves ==
    ASSUME DInv, MissionIsMeant', Onward, NEW c \in Children, NEW w,
           child' = [child EXCEPT ![c] = w], ChildIsMeant(w)',
           ActiveBeforeDispatched', UNCHANGED <<loop, calls, lost>>
    PROVE  DInv'
<1>1. LoopsAreMeant'
  BY LoopsStand DEF DInv
<1>2. CallsAreCounted'
  BY DEF DInv, CallsAreCounted
<1>3. /\ DOMAIN child' = Children /\ child' = [k \in Children |-> child'[k]]
      /\ child'[c] = w /\ \A k \in Children \ {c} : child'[k] = child[k]
  BY DEF DInv, ChildrenAreMeant
<1>4. ASSUME NEW k \in Children \ {c} PROVE ChildIsMeant(child[k])'
  <2>1. PICK v : v = child[k]
    OBVIOUS
  <2>2. ChildIsMeant(v)'
    BY <2>1, ChildStands DEF DInv, ChildrenAreMeant
  <2>3. child'[k] = v
    BY <1>3, <2>1
  <2> QED
    BY <2>2, <2>3 DEF ChildIsMeant
<1>5. ChildIsMeant(child[c])'
  BY <1>3 DEF ChildIsMeant
<1>6. ChildrenAreMeant'
  BY <1>3, <1>4, <1>5 DEF ChildrenAreMeant
<1> QED
  BY <1>1, <1>2, <1>6 DEF DInv, MissionIsMeant

(* ReadChild: available means that what comes before is done.              *)
LEMMA ReadChildKeeps ==
    ASSUME DInv, NEW c \in Children, ReadChild(c)
    PROVE  DInv'
<1>1. PICK t \in Tasks : Available(t, HeadSeq) /\ child' = [child EXCEPT ![c] = [pc |-> "activate", task |-> t]]
  BY DEF ReadChild
<1>2. PICK w : w = [pc |-> "activate", task |-> t]
  OBVIOUS
<1>3. MissionIsMeant' /\ Onward
  BY NothingWritten DEF DInv, MissionIsMeant, ReadChild
<1>4. PredecessorsDone(t, HeadSeq)'
  <2>1. PredecessorsDone(t, HeadSeq)
    BY <1>1, SucceededIs DEF Available, PredecessorsDone
  <2> QED
    BY <1>3, <2>1, StillHappened
<1>5. ChildIsMeant(w)'
  BY <1>2, <1>4 DEF ChildIsMeant
<1>6. ActiveBeforeDispatched' /\ UNCHANGED <<loop, calls, lost>>
  BY <1>3, NoneDispatched DEF DInv, ReadChild
<1> QED
  BY <1>1, <1>2, <1>3, <1>5, <1>6, ChildMoves

(* The activation names the head of its own instant, which is not the one  *)
(* at which the child was read.                                            *)
LEMMA ActivateChildKeeps ==
    ASSUME DInv, NEW c \in Children, ActivateChild(c)
    PROVE  DInv'
<1>1. PICK v, t, seq : v = child[c] /\ t = v.task /\ seq = HeadSeq
  OBVIOUS
<1>2. PICK answer : answer = ActivationAnswer(t, seq)
  OBVIOUS
<1>3. /\ v.pc = "activate"
      /\ Execute(Activation(t, seq), ActivationFacts(t), "TRANSITION_REFUSED")
      /\ child' = [child EXCEPT ![c] = IF answer.ok THEN [v EXCEPT !.pc = "dispatch"]
                                       ELSE [pc |-> "done"]]
      /\ UNCHANGED <<loop, executions, calls, lost>>
  BY <1>1, <1>2 DEF ActivateChild
<1>4. v = [pc |-> "activate", task |-> t] /\ PredecessorsDone(t, HeadSeq)
  BY <1>1, <1>3 DEF DInv, ChildrenAreMeant, ChildIsMeant
<1>5. MissionIsMeant' /\ Onward /\ (answer.ok => Happened("ACTIVE", t, HeadSeq)')
  <2>1. MissionIsMeant
    BY DEF DInv, MissionIsMeant
  <2> QED
    BY <1>2, <1>3, <1>4, <2>1, ActivationIsMeant
<1>6. PICK w : w = IF answer.ok THEN [v EXCEPT !.pc = "dispatch"] ELSE [pc |-> "done"]
  OBVIOUS
<1>7. ChildIsMeant(w)'
  <2>1. CASE answer.ok
    <3>1. w = [pc |-> "dispatch", task |-> t]
      BY <1>4, <1>6, <2>1
    <3> QED
      BY <1>5, <2>1, <3>1 DEF ChildIsMeant
  <2>2. CASE ~answer.ok
    BY <1>6, <2>2 DEF ChildIsMeant
  <2> QED
    BY <2>1, <2>2
<1>8. ActiveBeforeDispatched'
  BY <1>3, <1>5, NoneDispatched DEF DInv
<1> QED
  BY <1>3, <1>5, <1>6, <1>7, <1>8, ChildMoves

(* DispatchChild: the Task is ACTIVE for good.                             *)
LEMMA DispatchChildKeeps ==
    ASSUME DInv, NEW c \in Children, DispatchChild(c)
    PROVE  DInv'
<1>1. PICK v, t, w : v = child[c] /\ t = v.task /\ w = [pc |-> "done"]
  OBVIOUS
<1>2. /\ v.pc = "dispatch" /\ executions' \subseteq executions \cup {t}
      /\ child' = [child EXCEPT ![c] = w] /\ UNCHANGED log /\ UNCHANGED <<loop, calls, lost>>
  BY <1>1 DEF DispatchChild
<1>3. Happened("ACTIVE", t, HeadSeq)
  BY <1>1, <1>2 DEF DInv, ChildrenAreMeant, ChildIsMeant
<1>4. MissionIsMeant' /\ Onward
  BY <1>2, NothingWritten DEF DInv, MissionIsMeant
<1>5. Happened("ACTIVE", t, HeadSeq)'
  BY <1>3, <1>4, StillHappened
<1>6. ActiveBeforeDispatched'
  BY <1>2, <1>4, <1>5, ExecutionsStand DEF DInv
<1>7. ChildIsMeant(w)'
  BY <1>1 DEF ChildIsMeant
<1> QED
  BY <1>1, <1>2, <1>4, <1>6, <1>7, ChildMoves

(* People and other writers keep the invariant, ...                        *)
LEMMA OthersKeep ==
    ASSUME DInv, GateStepAtOnce \/ OthersWrite, UNCHANGED <<loop, child, executions, calls, lost>>
    PROVE  DInv'
<1>1. MissionIsMeant' /\ Onward
  BY GateStepIsMeant, OthersAreMeant DEF DInv, MissionIsMeant
<1>2. LoopsAreMeant' /\ ChildrenAreMeant' /\ ActiveBeforeDispatched'
  BY <1>1, LoopsStand, ChildrenStand, NoneDispatched DEF DInv
<1>3. CallsAreCounted'
  BY DEF DInv, CallsAreCounted
<1> QED
  BY <1>1, <1>2, <1>3 DEF DInv, MissionIsMeant

(* ... so does a step that does nothing, ...                               *)
LEMMA NothingKeeps ==
    ASSUME DInv, UNCHANGED vars
    PROVE  DInv'
<1>1. UNCHANGED log /\ UNCHANGED <<loop, child, executions, calls, lost>>
  BY DEF vars
<1>2. MissionIsMeant' /\ Onward
  BY <1>1, NothingWritten DEF DInv, MissionIsMeant
<1>3. LoopsAreMeant' /\ ChildrenAreMeant' /\ ActiveBeforeDispatched'
  BY <1>1, <1>2, LoopsStand, ChildrenStand, NoneDispatched DEF DInv
<1>4. CallsAreCounted'
  BY <1>1 DEF DInv, CallsAreCounted
<1> QED
  BY <1>2, <1>3, <1>4 DEF DInv, MissionIsMeant

(* ... and in the beginning it holds.                                      *)
LEMMA InitIsMeant == Init => DInv
<1> SUFFICES ASSUME Init PROVE DInv
  OBVIOUS
<1>1. rows = {} /\ stream = << >>
  BY DEF Init, GateInit
<1>2. IsStream(stream) /\ HeadSeq = 0
  BY <1>1 DEF IsStream, HeadSeq
<1>3. PICK w : w = Fresh(0, 0)
  OBVIOUS
<1>4. TurnIsMeant(w) /\ w.used = 0 /\ w.attempts = 0
  BY <1>2, <1>3, DispatchLoopAssumption, FreshIsMeant
<1>5. loop = [l \in Loops |-> w]
  BY <1>3 DEF Init
<1>6. LoopsAreMeant
  BY <1>4, <1>5 DEF LoopsAreMeant
<1>7. CallsAreCounted
  BY <1>4, <1>5 DEF Init, CallsAreCounted
<1>8. ChildrenAreMeant
  BY DEF Init, ChildrenAreMeant, ChildIsMeant
<1>9. ActivationsAreThere /\ ActivationsWereReady /\ ActiveBeforeDispatched
  BY <1>1, <1>2 DEF Init, ActivationsAreThere, ActivationsWereReady, ActiveBeforeDispatched
<1> QED
  BY <1>2, <1>6, <1>7, <1>8, <1>9 DEF DInv

-----------------------------------------------------------------------------
(* The inductive invariant of the loops, the delegations and the Mission   *)
(* they work on: what each turn relies on at its place stays true, whoever *)
(* writes and whoever dies.                                                *)
THEOREM LoopInvariant == Spec => []DInv
<1>1. DInv /\ [Next]_vars => DInv'
  <2> SUFFICES ASSUME DInv, [Next]_vars PROVE DInv'
    OBVIOUS
  <2>1. ASSUME NEW l \in Loops, LoopStep(l) PROVE DInv'
    BY <2>1, ObserveKeeps, BoundaryKeeps, EnterKeeps, ReconcileKeeps, ActivateKeeps,
       DispatchKeeps, AcknowledgeKeeps DEF LoopStep
  <2>2. ASSUME NEW l \in Loops, LoopDies(l) PROVE DInv'
    BY <2>2, LoopDiesKeeps
  <2>3. ASSUME NEW c \in Children, ReadChild(c) \/ ActivateChild(c) \/ DispatchChild(c) PROVE DInv'
    BY <2>3, ReadChildKeeps, ActivateChildKeeps, DispatchChildKeeps
  <2>4. CASE (GateStepAtOnce \/ OthersWrite) /\ UNCHANGED <<loop, child, executions, calls, lost, deaths>>
    BY <2>4, OthersKeep
  <2>5. CASE UNCHANGED vars
    BY <2>5, NothingKeeps
  <2> QED
    BY <2>1, <2>2, <2>3, <2>4, <2>5 DEF Next
<1> QED
  BY <1>1, InitIsMeant, PTL DEF Spec

(* However old the state a turn or a delegation decided on, and although   *)
(* the handler of the activation does not look at dependencies, a Task is  *)
(* activated only when all that comes before it has SUCCEEDED.             *)
THEOREM TasksStartInOrder == Spec => []ActivationsWereReady
<1>1. DInv => ActivationsWereReady
  BY DEF DInv
<1> QED
  BY <1>1, LoopInvariant, PTL

(* The execution authority is handed only Tasks whose activation is        *)
(* durable, by whichever caller and after whichever deaths.                *)
THEOREM DurableBeforeTheWorldActs == Spec => []ActiveBeforeDispatched
<1>1. DInv => ActiveBeforeDispatched
  BY DEF DInv
<1> QED
  BY <1>1, LoopInvariant, PTL

(* A turn that was let in decides on a seq at which no gate of its lineage *)
(* was blocking, although the gate is evaluated at another instant.        *)
THEOREM NoTurnSlipsPast == Spec => []TurnsPassTheGate
<1>1. DInv => TurnsPassTheGate
  BY DInvImplies
<1> QED
  BY <1>1, LoopInvariant, PTL

(* No call of the dispatcher escapes the budget but those of a caller that *)
(* died before it had counted them.                                        *)
THEOREM TheBudgetIsKept == Spec => []DispatchesAreCounted
<1>1. DInv => DispatchesAreCounted
  BY DInvImplies
<1> QED
  BY <1>1, LoopInvariant, PTL
=============================================================================
