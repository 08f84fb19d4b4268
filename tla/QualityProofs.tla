---------------------------- MODULE QualityProofs ----------------------------
(***************************************************************************)
(* The services of the quality cycle, for any callers and requests, and    *)
(* the closed loop of r4_8 that is built on them, for any callers, answers *)
(* of the authorities and past.                                            *)
(*                                                                         *)
(* QualityCycle.  Whoever sends what, the records of the Mission are a     *)
(* past (IsPast): each was let through by its handler and its reducer on   *)
(* the records before it.  What the invariants say of the records follows  *)
(* from that alone, by looking at what the later of two records was let    *)
(* through on (ReceiptsAgree, RevisionsAreOneLine, FixesWereProven) or     *)
(* following a chain of records down (ReceiptsAreBacked).  What the        *)
(* planner was asked, and said, rests besides on what a caller between two *)
(* commands may still rely on when it goes on (CallFits).                  *)
(*                                                                         *)
(* ClosedLoop.  The replay of the stream is followed event by event.  The  *)
(* handlers look at the cycles the stream leads to, so what they let       *)
(* through the reducer takes (EveryEventFits), and what a closure or an    *)
(* answer rests on is found on the stream before it (ClosureAt, AnswerAt). *)
(* What a caller saw before it sent is relied on only together with the    *)
(* head it named (ChecksStand): a command is accepted at no other.         *)
(***************************************************************************)
EXTENDS ClosedLoop, QualityCycle, MissionLogProofs

-----------------------------------------------------------------------------
(* The past of a Mission, and what it was before one of its records.       *)

(* A stream is made of its events.                                         *)
LEMMA OfItsEvents ==
    ASSUME NEW s, IsStream(s)
    PROVE  s \in Seq({s[i] : i \in DOMAIN s})
<1>1. PICK S : s \in Seq(S)
  BY DEF IsStream
<1>2. Len(s) \in Nat /\ s = [i \in 1..Len(s) |-> s[i]] /\ DOMAIN s = 1..Len(s)
  BY <1>1
<1> QED
  BY <1>2

(* A past is a stream, each of whose records may follow those before it.   *)
LEMMA PastShape ==
    ASSUME NEW s, IsPast(s)
    PROVE  /\ IsStream(s) /\ Len(s) \in Nat /\ DOMAIN s = 1..Len(s)
           /\ \A i \in DOMAIN s : MayFollow(SubSeq(s, 1, i - 1), s[i])
<1>1. IsStream(s)
  BY DEF IsPast, IsStream
<1> QED
  BY <1>1, StreamShape DEF IsPast

(* The records that were there before the one at i.                        *)
IsBefore(p, s, i) ==
    /\ DOMAIN p = 1..(i - 1) /\ \A j \in 1..(i - 1) : p[j] = s[j]
    /\ \A ref, kind : Is(p, ref, kind) <=> ref \in 1..(i - 1) /\ s[ref].kind = kind
    /\ \A kind : Of(p, kind) = {j \in Of(s, kind) : j < i}

LEMMA BeforeShape ==
    ASSUME NEW s, IsStream(s), NEW i \in DOMAIN s
    PROVE  IsBefore(SubSeq(s, 1, i - 1), s, i)
<1> DEFINE p == SubSeq(s, 1, i - 1)
<1>1. Len(s) \in Nat /\ DOMAIN s = 1..Len(s) /\ i - 1 \in 0..Len(s) /\ i \in Nat
  BY StreamShape
<1>2. IsStream(p) /\ Len(p) = i - 1 /\ \A j \in 1..(i - 1) : p[j] = s[j]
  BY <1>1, StreamShape
<1>3. DOMAIN p = 1..(i - 1)
  <2> HIDE DEF p
  <2> QED
    BY <1>2, StreamShape
<1> HIDE DEF p
<1>4. \A ref, kind : Is(p, ref, kind) <=> ref \in 1..(i - 1) /\ s[ref].kind = kind
  BY <1>2, <1>3 DEF Is
<1>5. \A kind : Of(p, kind) = {j \in Of(s, kind) : j < i}
  BY <1>1, <1>2, <1>3 DEF Of
<1> QED
  BY <1>2, <1>3, <1>4, <1>5 DEF IsBefore, p

Before(s, i) == SubSeq(s, 1, i - 1)

(* A record of a past may follow what was there before it.                 *)
LEMMA WhatMayFollow ==
    ASSUME NEW s, IsPast(s), NEW i \in DOMAIN s
    PROVE  /\ IsBefore(Before(s, i), s, i) /\ MayFollow(Before(s, i), s[i])
           /\ i \in Nat /\ Len(s) \in Nat /\ DOMAIN s = 1..Len(s)
BY PastShape, BeforeShape DEF Before

-----------------------------------------------------------------------------
(* Which component's rules a record of a kind is under.                    *)
LEMMA RulesByKind ==
    ASSUME NEW s, NEW r
    PROVE  /\ r.kind \in CampaignKinds =>
                (May(s, r) <=> CampaignMay(s, r)) /\ (Takes(s, r) <=> CampaignMay(s, r))
           /\ r.kind \in ImpactKinds =>
                (May(s, r) <=> ImpactMay(s, r)) /\ (Takes(s, r) <=> ImpactTakes(s, r))
           /\ r.kind \in FixKinds =>
                (May(s, r) <=> FixMay(s, r)) /\ (Takes(s, r) <=> FixTakes(s, r))
           /\ r.kind \in ValidationKinds =>
                (May(s, r) <=> ValidationMay(s, r)) /\ (Takes(s, r) <=> ValidationTakes(s, r))
           /\ r.kind \in CampaignKinds \cup ImpactKinds \cup FixKinds \cup ValidationKinds =>
                Computed(s, r) = r
           /\ r.kind \notin CampaignKinds \cup ImpactKinds \cup FixKinds \cup ValidationKinds =>
                /\ May(s, r) <=> ReleaseMay(s, r)
                /\ Takes(s, r) <=> ReleaseTakes(s, r)
                /\ Computed(s, r) = ReleaseComputed(s, r)
<1>1. /\ CampaignKinds \cap ImpactKinds = {} /\ CampaignKinds \cap FixKinds = {}
      /\ CampaignKinds \cap ValidationKinds = {} /\ ImpactKinds \cap FixKinds = {}
      /\ ImpactKinds \cap ValidationKinds = {} /\ FixKinds \cap ValidationKinds = {}
  BY DEF CampaignKinds, ImpactKinds, FixKinds, ValidationKinds
<1>2. ASSUME r.kind \in CampaignKinds
      PROVE  (May(s, r) <=> CampaignMay(s, r)) /\ (Takes(s, r) <=> CampaignMay(s, r)) /\ Computed(s, r) = r
  <2>1. r.kind \notin ImpactKinds /\ r.kind \notin FixKinds /\ r.kind \notin ValidationKinds
    BY <1>1, <1>2
  <2>2. May(s, r) <=> CampaignMay(s, r)
    BY <1>2, <2>1 DEF May
  <2>3. Takes(s, r) <=> CampaignMay(s, r)
    BY <1>2, <2>1 DEF Takes
  <2>4. Computed(s, r) = r
    BY <1>2 DEF Computed
  <2> QED
    BY <2>2, <2>3, <2>4
<1>3. ASSUME r.kind \in ImpactKinds
      PROVE  (May(s, r) <=> ImpactMay(s, r)) /\ (Takes(s, r) <=> ImpactTakes(s, r)) /\ Computed(s, r) = r
  <2>1. r.kind \notin CampaignKinds /\ r.kind \notin FixKinds /\ r.kind \notin ValidationKinds
    BY <1>1, <1>3
  <2>2. May(s, r) <=> ImpactMay(s, r)
    BY <1>3, <2>1 DEF May
  <2>3. Takes(s, r) <=> ImpactTakes(s, r)
    BY <1>3, <2>1 DEF Takes
  <2>4. Computed(s, r) = r
    BY <1>3 DEF Computed
  <2> QED
    BY <2>2, <2>3, <2>4
<1>4. ASSUME r.kind \in FixKinds
      PROVE  (May(s, r) <=> FixMay(s, r)) /\ (Takes(s, r) <=> FixTakes(s, r)) /\ Computed(s, r) = r
  <2>1. r.kind \notin CampaignKinds /\ r.kind \notin ImpactKinds /\ r.kind \notin ValidationKinds
    BY <1>1, <1>4
  <2>2. May(s, r) <=> FixMay(s, r)
    BY <1>4, <2>1 DEF May
  <2>3. Takes(s, r) <=> FixTakes(s, r)
    BY <1>4, <2>1 DEF Takes
  <2>4. Computed(s, r) = r
    BY <1>4 DEF Computed
  <2> QED
    BY <2>2, <2>3, <2>4
<1>5. ASSUME r.kind \in ValidationKinds
      PROVE  (May(s, r) <=> ValidationMay(s, r)) /\ (Takes(s, r) <=> ValidationTakes(s, r)) /\ Computed(s, r) = r
  <2>1. r.kind \notin CampaignKinds /\ r.kind \notin ImpactKinds /\ r.kind \notin FixKinds
    BY <1>1, <1>5
  <2>2. May(s, r) <=> ValidationMay(s, r)
    BY <1>5, <2>1 DEF May
  <2>3. Takes(s, r) <=> ValidationTakes(s, r)
    BY <1>5, <2>1 DEF Takes
  <2>4. Computed(s, r) = r
    BY <1>5 DEF Computed
  <2> QED
    BY <2>2, <2>3, <2>4
<1>6. ASSUME r.kind \notin CampaignKinds \cup ImpactKinds \cup FixKinds \cup ValidationKinds
      PROVE  /\ May(s, r) <=> ReleaseMay(s, r)
             /\ Takes(s, r) <=> ReleaseTakes(s, r)
             /\ Computed(s, r) = ReleaseComputed(s, r)
  <2>1. /\ r.kind \notin CampaignKinds /\ r.kind \notin ImpactKinds
        /\ r.kind \notin FixKinds /\ r.kind \notin ValidationKinds
    BY <1>6
  <2>2. May(s, r) <=> ReleaseMay(s, r)
    BY <2>1 DEF May
  <2>3. Takes(s, r) <=> ReleaseTakes(s, r)
    BY <2>1 DEF Takes
  <2>4. Computed(s, r) = ReleaseComputed(s, r)
    BY <1>6 DEF Computed
  <2> QED
    BY <2>2, <2>3, <2>4
<1> QED
  BY <1>2, <1>3, <1>4, <1>5, <1>6

(* What each record asked of those before it.                              *)
LEMMA Ruled ==
    ASSUME NEW s, IsPast(s), NEW i \in DOMAIN s, s[i].kind \notin {"goal", "defect"}
    PROVE  LET p == Before(s, i)
           IN  /\ s[i].kind \in CampaignKinds => CampaignMay(p, s[i])
               /\ s[i].kind \in ImpactKinds => ImpactMay(p, s[i]) /\ ImpactTakes(p, s[i])
               /\ s[i].kind \in FixKinds => FixMay(p, s[i]) /\ FixTakes(p, s[i])
               /\ s[i].kind \in ValidationKinds => ValidationMay(p, s[i])
               /\ s[i].kind \notin CampaignKinds \cup ImpactKinds \cup FixKinds \cup ValidationKinds =>
                     /\ ReleaseMay(p, s[i]) /\ ReleaseTakes(p, s[i])
                     /\ s[i] = ReleaseComputed(p, s[i])
<1> DEFINE p == Before(s, i)
<1>1. MayFollow(p, s[i])
  BY WhatMayFollow
<1>2. May(p, s[i]) /\ s[i] = Computed(p, s[i]) /\ Takes(p, s[i])
  BY <1>1 DEF MayFollow
<1> HIDE DEF p
<1> QED
  BY <1>2, RulesByKind DEF p

LEMMA ReceiptsMay ==
    ASSUME NEW s, IsPast(s), NEW i \in Of(s, "receipt")
    PROVE  /\ ReceiptMay(Before(s, i), s[i]) /\ ReceiptStands(Before(s, i), s[i])
           /\ s[i] = ReleaseComputed(Before(s, i), s[i])
<1>1. i \in DOMAIN s /\ s[i].kind = "receipt"
  BY DEF Of
<1>2. ReleaseMay(Before(s, i), s[i]) /\ ReleaseTakes(Before(s, i), s[i])
      /\ s[i] = ReleaseComputed(Before(s, i), s[i])
  BY <1>1, Ruled DEF CampaignKinds, ImpactKinds, FixKinds, ValidationKinds
<1> QED
  BY <1>1, <1>2 DEF ReleaseMay, ReleaseTakes

LEMMA IntentsMay ==
    ASSUME NEW s, IsPast(s), NEW i \in Of(s, "intent")
    PROVE  IntentMay(Before(s, i), s[i])
<1>1. i \in DOMAIN s /\ s[i].kind = "intent"
  BY DEF Of
<1>2. ReleaseMay(Before(s, i), s[i])
  BY <1>1, Ruled DEF CampaignKinds, ImpactKinds, FixKinds, ValidationKinds
<1> QED
  BY <1>1, <1>2 DEF ReleaseMay

LEMMA EligibilitiesMay ==
    ASSUME NEW s, IsPast(s), NEW i \in Of(s, "eligibility")
    PROVE  EligibilityMay(Before(s, i), s[i]) /\ s[i].outcome = EligibilityOutcome(s[i])
<1>1. i \in DOMAIN s /\ s[i].kind = "eligibility"
  BY DEF Of
<1>2. ReleaseMay(Before(s, i), s[i]) /\ s[i] = ReleaseComputed(Before(s, i), s[i])
  BY <1>1, Ruled DEF CampaignKinds, ImpactKinds, FixKinds, ValidationKinds
<1>3. s[i].outcome = EligibilityOutcome(s[i])
  BY <1>1, <1>2 DEF ReleaseComputed, Record
<1> QED
  BY <1>1, <1>2, <1>3 DEF ReleaseMay

LEMMA SelectionsMay ==
    ASSUME NEW s, IsPast(s), NEW i \in Of(s, "selection")
    PROVE  s[i].on.supersedes = CurrentSelection(Before(s, i), s[i].on.campaign)
<1>1. i \in DOMAIN s /\ s[i].kind = "selection"
  BY DEF Of
<1>2. CampaignMay(Before(s, i), s[i])
  BY <1>1, Ruled DEF CampaignKinds
<1> QED
  BY <1>1, <1>2 DEF CampaignMay

(* A link and a request name what r4_2 made for their assessment, and a    *)
(* request has one result.                                                 *)
LEMMA LinksMay ==
    ASSUME NEW s, IsPast(s), NEW i \in Of(s, "link")
    PROVE  s[i].on.selection \in Named(s, "selection", <<"for", s[i].on.assessment>>)
<1>1. i \in DOMAIN s /\ s[i].kind = "link"
  BY DEF Of
<1> DEFINE p == Before(s, i)
           j == s[i].on.selection
           name == <<"for", s[i].on.assessment>>
<1>2. j \in Named(p, "selection", name) /\ IsBefore(p, s, i) /\ DOMAIN s = 1..Len(s)
  BY <1>1, WhatMayFollow DEF MayFollow
<1> HIDE DEF p, j, name
<1>3. j \in Of(p, "selection") /\ p[j].data = name
  BY <1>2 DEF Named
<1>4. j \in Of(s, "selection") /\ p[j] = s[j]
  BY <1>2, <1>3 DEF IsBefore, Of
<1>5. j \in Named(s, "selection", name)
  BY <1>3, <1>4 DEF Named
<1> QED
  BY <1>5 DEF j, name

LEMMA RequestsMay ==
    ASSUME NEW s, IsPast(s), NEW i \in Of(s, "request")
    PROVE  /\ s[s[i].on.assessment].outcome = "SELECTION_REVISION_REQUIRED"
           /\ \E l \in Of(s, "link") : /\ s[l].on.assessment = s[i].on.assessment
                                        /\ s[l].on.selection = s[i].on.selection
<1> DEFINE p == Before(s, i)
<1>1. i \in DOMAIN s /\ s[i].kind = "request"
  BY DEF Of
<1>2. p[s[i].on.assessment].outcome = "SELECTION_REVISION_REQUIRED" /\ IsBefore(p, s, i)
  BY <1>1, WhatMayFollow DEF MayFollow
<1>3. ImpactTakes(p, s[i])
  BY <1>1, Ruled DEF ImpactKinds
<1>4. /\ Is(p, s[i].on.assessment, "assessment")
      /\ \E l \in Of(p, "link") : /\ p[l].on.assessment = s[i].on.assessment
                                   /\ p[l].on.selection = s[i].on.selection
  BY <1>1, <1>3 DEF ImpactTakes
<1>5. s[i].on.assessment \in 1..(i - 1)
  BY <1>2, <1>4 DEF IsBefore
<1>6. PICK l \in Of(p, "link") : /\ p[l].on.assessment = s[i].on.assessment
                                 /\ p[l].on.selection = s[i].on.selection
  BY <1>4
<1>7. l \in Of(s, "link") /\ l \in 1..(i - 1)
  BY <1>2, <1>6 DEF IsBefore, Of
<1> HIDE DEF p
<1> QED
  BY <1>2, <1>5, <1>6, <1>7 DEF IsBefore

LEMMA ResultsMay ==
    ASSUME NEW s, IsPast(s), NEW i \in Of(s, "result")
    PROVE  \A j \in Of(s, "result") : j < i => s[j].on.assessment # s[i].on.assessment
<1> DEFINE p == Before(s, i)
<1>1. i \in DOMAIN s /\ s[i].kind = "result"
  BY DEF Of
<1>2. ImpactTakes(p, s[i]) /\ IsBefore(p, s, i)
  BY <1>1, Ruled, WhatMayFollow DEF ImpactKinds
<1>3. ResultsOf(p, s[i].on.assessment) = {}
  BY <1>1, <1>2 DEF ImpactTakes
<1> HIDE DEF p
<1> QED
  BY <1>2, <1>3 DEF ResultsOf, IsBefore, Of

-----------------------------------------------------------------------------
(* What follows for a stream that is such a past.                          *)

LEMMA ReceiptsAgree ==
    ASSUME IsPast(stream)
    PROVE  OneResultPerIntent
<1> DEFINE Agree(i, j) == stream[i].on.intent = stream[j].on.intent => stream[i].data = stream[j].data
           S == {k \in Nat : \A i, j \in Of(stream, "receipt") : i <= k /\ j <= k => Agree(i, j)}
<1>1. Len(stream) \in Nat /\ DOMAIN stream = 1..Len(stream)
  BY PastShape
<1>2. Of(stream, "receipt") \subseteq 1..Len(stream)
  BY <1>1 DEF Of
<1>3. 0 \in S
  BY <1>2
<1>4. ASSUME NEW k \in Nat, k \in S PROVE k + 1 \in S
  <2>1. ASSUME NEW i \in Of(stream, "receipt"), NEW j \in Of(stream, "receipt"),
               i = k + 1, j <= k, stream[i].on.intent = stream[j].on.intent,
               stream[i].data # stream[j].data
        PROVE  FALSE
    <3> DEFINE p == Before(stream, i)
    <3>1. IsBefore(p, stream, i) /\ i \in Nat
      BY <1>1, <1>2, WhatMayFollow
    <3>2. ReceiptStands(p, stream[i]) /\ stream[i] = ReleaseComputed(p, stream[i]) /\ stream[i].kind = "receipt"
      BY ReceiptsMay DEF Of
    <3> HIDE DEF p
    <3>3. \A m : m \in ReceiptsFor(p, stream[i].on.intent) <=>
             m \in Of(stream, "receipt") /\ m < i /\ stream[m].on.intent = stream[i].on.intent
      BY <3>1, <1>2 DEF ReceiptsFor, IsBefore, Of
    <3>4. j < i /\ p[j] = stream[j]
      BY <1>2, <2>1, <3>1 DEF IsBefore
    <3>5. Contradicted(p, stream[i])
      BY <2>1, <3>3, <3>4 DEF Contradicted
    <3>6. stream[i].outcome = "RECONCILIATION_REQUIRED"
      BY <3>2, <3>5 DEF ReleaseComputed, Record
    <3>7. PICK m \in ReceiptsFor(p, stream[i].on.intent) : p[m].data = stream[i].data
      BY <3>2, <3>6 DEF ReceiptStands
    <3>8. m \in Of(stream, "receipt") /\ m <= k /\ stream[m].data = stream[i].data
          /\ stream[m].on.intent = stream[j].on.intent
      <4>1. m \in Of(stream, "receipt") /\ m < i /\ stream[m].on.intent = stream[i].on.intent
        BY <3>3, <3>7
      <4>2. p[m] = stream[m]
        BY <1>2, <3>1, <4>1 DEF IsBefore
      <4> QED
        BY <1>2, <2>1, <3>7, <4>1, <4>2
    <3> QED
      BY <1>4, <2>1, <3>8
  <2> SUFFICES ASSUME NEW i \in Of(stream, "receipt"), NEW j \in Of(stream, "receipt"),
                      i <= k + 1, j <= k + 1
               PROVE  Agree(i, j)
    OBVIOUS
  <2>2. i \in Nat /\ j \in Nat
    BY <1>2
  <2>3. CASE i <= k /\ j <= k
    BY <1>4, <2>3
  <2>4. CASE i = k + 1 /\ j <= k
    BY <2>1, <2>4
  <2>5. CASE i <= k /\ j = k + 1
    BY <2>1, <2>5
  <2>6. CASE i = j
    BY <2>6
  <2> QED
    BY <2>2, <2>3, <2>4, <2>5, <2>6
<1>5. Nat \subseteq S
  <2> HIDE DEF S
  <2> QED
    BY <1>3, <1>4, NatSetInduction
<1>6. Len(stream) \in S
  BY <1>1, <1>5
<1> QED
  BY <1>2, <1>6 DEF OneResultPerIntent

(* Without a gate nothing is eligible.                                     *)
LEMMA EligibleHasGate ==
    ASSUME NEW r, EligibilityOutcome(r) = "ELIGIBLE"
    PROVE  r.by # "none"
<1> SUFFICES ASSUME r.by = "none" PROVE FALSE
  OBVIOUS
<1> DEFINE troubles == Troubles[r.data] \cup {"no_gate"}
           hits == {i \in DOMAIN EligibilityRules : EligibilityRules[i].on \cap troubles # {}}
<1>1. DOMAIN EligibilityRules = 1..4 /\ 3 \in hits
      /\ \A i \in 1..4 : EligibilityRules[i].gives # "ELIGIBLE"
  BY DEF EligibilityRules
<1>2. EligibilityOutcome(r) =
         EligibilityRules[CHOOSE i \in hits : \A j \in hits : i <= j].gives
  BY <1>1 DEF EligibilityOutcome, FirstRule
<1>3. \E i \in hits : \A j \in hits : i <= j
  <2>1. hits \subseteq Nat /\ hits # {}
    BY <1>1
  <2>2. PICK i \in hits : \A j \in hits : ~(j < i)
    <3> HIDE DEF hits
    <3> QED
      BY <2>1, NatLeast
  <2> QED
    BY <2>1, <2>2
<1>4. (CHOOSE i \in hits : \A j \in hits : i <= j) \in hits
  <2> HIDE DEF hits
  <2> QED
    BY <1>3, Zenon
<1> QED
  BY <1>1, <1>2, <1>4

(* From a receipt down to its intent, and to its eligibility: each was let *)
(* through on records that were there.                                     *)
LEMMA ReceiptsAreBacked ==
    ASSUME IsPast(stream)
    PROVE  ResumesAreAuthorized
<1> SUFFICES ASSUME NEW i \in Of(stream, "receipt")
             PROVE  LET t == stream[i].on.intent
                        e == stream[t].on.eligibility
                    IN  /\ Is(Prefix(i - 1), t, "intent")
                        /\ Is(Prefix(t - 1), e, "eligibility")
                        /\ stream[e].outcome = "ELIGIBLE"
                        /\ stream[i].by = stream[e].by /\ stream[e].by # "none"
                        /\ Is(Prefix(e - 1), stream[e].on.wait, "wait")
                        /\ Is(Prefix(e - 1), stream[e].on.readiness, "readiness")
  BY DEF ResumesAreAuthorized
<1> DEFINE t == stream[i].on.intent
           e == stream[t].on.eligibility
           P(k) == Before(stream, k)
<1>0. \A k : Prefix(k - 1) = P(k)
  BY DEF Prefix, Before
<1>1. Len(stream) \in Nat /\ DOMAIN stream = 1..Len(stream)
  BY PastShape
<1>2. i \in DOMAIN stream /\ i \in Nat
  BY <1>1 DEF Of
<1>3. /\ Is(P(i), t, "intent") /\ stream[i].by = P(i)[t].by
      /\ IsBefore(P(i), stream, i)
  BY <1>2, ReceiptsMay, WhatMayFollow DEF ReceiptMay
<1> HIDE DEF P
<1>4. t \in 1..(i - 1) /\ t \in Of(stream, "intent") /\ P(i)[t] = stream[t]
  BY <1>1, <1>2, <1>3 DEF IsBefore, Of
<1>5. /\ Is(P(t), e, "eligibility") /\ stream[t].by = P(t)[e].by
      /\ P(t)[e].outcome = "ELIGIBLE" /\ IsBefore(P(t), stream, t)
  <2>1. t \in DOMAIN stream
    BY <1>4 DEF Of
  <2> QED
    BY <1>4, <2>1, IntentsMay, WhatMayFollow DEF IntentMay, P
<1>6. e \in 1..(t - 1) /\ e \in Of(stream, "eligibility") /\ P(t)[e] = stream[e]
  BY <1>1, <1>2, <1>4, <1>5 DEF IsBefore, Of
<1>7. /\ Is(P(e), stream[e].on.wait, "wait")
      /\ Is(P(e), stream[e].on.readiness, "readiness")
      /\ stream[e].outcome = EligibilityOutcome(stream[e])
  BY <1>6, EligibilitiesMay DEF EligibilityMay, P
<1>8. stream[e].outcome = "ELIGIBLE" /\ stream[e].by # "none"
  BY <1>5, <1>6, <1>7, EligibleHasGate
<1> QED
  BY <1>0, <1>3, <1>4, <1>5, <1>6, <1>7, <1>8

(* A revision superseded the current one, and that is the last before it.  *)
LEMMA RevisionsAreOneLine ==
    ASSUME IsPast(stream)
    PROVE  CampaignsDoNotFork
<1> SUFFICES ASSUME NEW i \in Of(stream, "selection"), NEW j \in Of(stream, "selection"),
                    stream[i].on.campaign = stream[j].on.campaign, i < j,
                    \A k \in RevisionsOf(stream, stream[j].on.campaign) : ~(i < k /\ k < j)
             PROVE  stream[j].on.supersedes = i
  BY DEF CampaignsDoNotFork
<1> DEFINE p == Before(stream, j)
           line == RevisionsOf(p, stream[j].on.campaign)
<1>1. Len(stream) \in Nat /\ Of(stream, "selection") \subseteq 1..Len(stream) /\ j \in DOMAIN stream
  BY PastShape DEF Of
<1>2. IsBefore(p, stream, j)
  BY <1>1, WhatMayFollow
<1>3. stream[j].on.supersedes = CurrentSelection(p, stream[j].on.campaign)
  BY SelectionsMay
<1> HIDE DEF p
<1>4. i \in line /\ \A k \in line : k \in Nat /\ k <= i
  BY <1>1, <1>2 DEF RevisionsOf, IsBefore, Of
<1>5. i \in Nat /\ \A m \in line : (\A k \in line : k <= m) => m = i
  BY <1>4
<1>6. CurrentSelection(p, stream[j].on.campaign) = CHOOSE m \in line : \A k \in line : k <= m
  BY <1>4 DEF CurrentSelection
<1>7. (CHOOSE m \in line : \A k \in line : k <= m) = i
  <2> HIDE DEF line
  <2> QED
    BY <1>4, <1>5
<1> QED
  BY <1>3, <1>6, <1>7

-----------------------------------------------------------------------------
(* A fix that was validated.                                               *)

CyclesUsed(c) == c \in Of(stream, "cycle") /\ stream[c].by = "record"

(* A cycle on record rests on a detection that was made where it is to be  *)
(* validated, and that detection on a fix of a confirmed defect.           *)
LEMMA OpenedOnDetection ==
    ASSUME IsPast(stream), NEW c, CyclesUsed(c)
    PROVE  LET d == stream[c].on.detection
           IN  /\ d \in Of(stream, "detection") /\ Is(Prefix(c - 1), d, "detection")
               /\ stream[d].outcome = "DETECTED" /\ Sightings[stream[d].data].scope = "DEPLOYMENT"
               /\ stream[c].data.at \in Pairs(Sightings[stream[d].data].saw)
<1> DEFINE p == Before(stream, c)
           d == stream[c].on.detection
<1>1. c \in DOMAIN stream /\ stream[c].kind = "cycle" /\ stream[c].by = "record"
  BY DEF CyclesUsed, Of
<1>2. IsBefore(p, stream, c) /\ ValidationMay(p, stream[c]) /\ c \in 1..Len(stream)
      /\ Len(stream) \in Nat /\ DOMAIN stream = 1..Len(stream)
  BY <1>1, Ruled, WhatMayFollow DEF ValidationKinds
<1>3. Admitted(p, stream[c])
  BY <1>1, <1>2 DEF ValidationMay
<1>4. Is(p, d, "detection") /\ Ready(p, d, stream[c].data)
  BY <1>1, <1>3 DEF Admitted
<1>5. p = Prefix(c - 1)
  BY DEF Prefix, Before
<1> HIDE DEF p
<1>6. d \in 1..(c - 1) /\ p[d] = stream[d] /\ d \in Of(stream, "detection")
  BY <1>2, <1>4 DEF IsBefore, Of
<1> QED
  BY <1>4, <1>5, <1>6 DEF Ready

LEMMA DetectionsMay ==
    ASSUME IsPast(stream), NEW d \in Of(stream, "detection")
    PROVE  /\ stream[stream[d].on.fix].on.lifecycle = stream[d].on.lifecycle
           /\ stream[d].on.lifecycle \in Of(stream, "lifecycle")
           /\ ~Contradicts(Before(stream, d), stream[d])
<1> DEFINE p == Before(stream, d)
<1>1. d \in DOMAIN stream /\ stream[d].kind = "detection"
  BY DEF Of
<1>2. /\ IsBefore(p, stream, d) /\ FixMay(p, stream[d]) /\ FixTakes(p, stream[d])
      /\ d \in 1..Len(stream) /\ Len(stream) \in Nat /\ DOMAIN stream = 1..Len(stream)
  BY <1>1, Ruled, WhatMayFollow DEF FixKinds
<1>3. ~Contradicts(p, stream[d])
  BY <1>1, <1>2 DEF FixMay
<1>4. OfLifecycle(p, stream[d])
  BY <1>1, <1>2 DEF FixTakes
<1> HIDE DEF p
<1> QED
  BY <1>2, <1>3, <1>4 DEF OfLifecycle, IsBefore, Of, p

LEMMA LifecyclesMay ==
    ASSUME IsPast(stream), NEW l \in Of(stream, "lifecycle")
    PROVE  Confirmed(stream, stream[l].on.defect)
<1> DEFINE p == Before(stream, l)
<1>1. l \in DOMAIN stream /\ stream[l].kind = "lifecycle"
  BY DEF Of
<1>2. /\ IsBefore(p, stream, l) /\ FixMay(p, stream[l])
      /\ l \in 1..Len(stream) /\ Len(stream) \in Nat /\ DOMAIN stream = 1..Len(stream)
  BY <1>1, Ruled, WhatMayFollow DEF FixKinds
<1>3. Confirmed(p, stream[l].on.defect)
  BY <1>1, <1>2 DEF FixMay
<1> HIDE DEF p
<1> QED
  BY <1>2, <1>3 DEF Confirmed, Is, IsBefore

LEMMA OpenedAtTarget ==
    ASSUME IsPast(stream), NEW c, CyclesUsed(c)
    PROVE  DetectedAtTarget(c)
<1>1. stream[c].on.detection \in Of(stream, "detection")
  BY OpenedOnDetection
<1> QED
  BY <1>1, OpenedOnDetection, DetectionsMay, LifecyclesMay DEF DetectedAtTarget

(* Of two detections the later was compared with the earlier.              *)
LEMMA DetectionsAgree ==
    ASSUME IsPast(stream), NEW c, NEW e, CyclesUsed(c), CyclesUsed(e),
           stream[c].on.detection # stream[e].on.detection
    PROVE  ~Disagree(LastPairs(Sightings[stream[stream[c].on.detection].data].saw),
                     LastPairs(Sightings[stream[stream[e].on.detection].data].saw))
<1> DEFINE Saw(d) == LastPairs(Sightings[stream[d].data].saw)
           Firm(d) == /\ d \in Of(stream, "detection") /\ stream[d].outcome = "DETECTED"
                      /\ Sightings[stream[d].data].scope = "DEPLOYMENT"
<1>1. Of(stream, "detection") \subseteq 1..Len(stream) /\ Len(stream) \in Nat
  BY PastShape DEF Of
<1>2. ASSUME NEW i, NEW j, Firm(i), Firm(j), i < j
      PROVE  ~Disagree(Saw(i), Saw(j))
  <2> DEFINE p == Before(stream, j)
  <2>1. j \in DOMAIN stream /\ IsBefore(p, stream, j) /\ ~Contradicts(p, stream[j])
    <3>1. j \in DOMAIN stream
      BY <1>2 DEF Of
    <3> QED
      BY <1>2, <3>1, WhatMayFollow, DetectionsMay
  <2> HIDE DEF p
  <2>2. i \in 1..(j - 1) /\ p[i] = stream[i] /\ i \in Of(p, "detection")
    BY <1>1, <1>2, <2>1 DEF IsBefore
  <2>3. i \in OnDeployment(p)
    BY <1>2, <2>2 DEF OnDeployment
  <2> QED
    BY <1>2, <2>1, <2>2, <2>3 DEF Contradicts
<1>3. \A a, b : Disagree(a, b) => Disagree(b, a)
  BY DEF Disagree
<1> DEFINE i == stream[c].on.detection
           j == stream[e].on.detection
<1>4. Firm(i) /\ Firm(j)
  BY OpenedOnDetection
<1>5. i \in Nat /\ j \in Nat /\ i # j
  BY <1>1, <1>4
<1> HIDE DEF i, j, Saw, Firm
<1>6. ~Disagree(Saw(i), Saw(j))
  BY <1>2, <1>3, <1>4, <1>5
<1> QED
  BY <1>6 DEF i, j, Saw

-----------------------------------------------------------------------------
(* The latest of some records.                                             *)

LEMMA LatestIsThere ==
    ASSUME NEW refs, NEW n \in Nat, refs \subseteq 1..n, refs # {}
    PROVE  Latest(refs) \in refs /\ \A j \in refs : j <= Latest(refs)
<1> DEFINE back == {n - i : i \in refs}
<1>0. \A i \in refs : i \in Int /\ n - i \in Nat
  OBVIOUS
<1>1. back \subseteq Nat /\ back # {}
  BY <1>0
<1>2. PICK m \in back : \A k \in back : ~(k < m)
  <2> HIDE DEF back
  <2> QED
    BY <1>1, NatLeast
<1>3. \E i \in refs : \A j \in refs : j <= i
  <2>1. PICK i \in refs : m = n - i
    BY <1>2
  <2>2. ASSUME NEW j \in refs PROVE j <= i
    <3>1. n - j \in back
      OBVIOUS
    <3>2. ~(n - j < n - i)
      BY <1>2, <2>1, <3>1
    <3> QED
      BY <1>0, <3>2
  <2> QED
    BY <2>2
<1>4. /\ (CHOOSE i \in refs : \A j \in refs : j <= i) \in refs
      /\ \A j \in refs : j <= (CHOOSE i \in refs : \A k \in refs : k <= i)
  BY <1>3, Zenon
<1> QED
  BY <1>4 DEF Latest

LEMMA LatestOf ==
    ASSUME NEW refs, NEW n \in Nat, refs \subseteq 1..n
    PROVE  /\ Latest(refs) # 0 => Latest(refs) \in refs /\ \A j \in refs : j <= Latest(refs)
           /\ refs # {} => Latest(refs) # 0
<1>1. refs = {} => Latest(refs) = 0
  BY DEF Latest
<1>2. refs # {} => Latest(refs) \in refs /\ \A j \in refs : j <= Latest(refs)
  BY LatestIsThere
<1> QED
  BY <1>1, <1>2

(* An answer of r3 on record is to the handoff that was last before it     *)
(* under its name: a request, or an answer that was to the same one.       *)
HandoffsBefore(h) ==
    {i \in Of(stream, "handoff") : i < h /\ stream[i].data[1] = stream[h].data[1]}

LEMMA HandoffsMay ==
    ASSUME IsPast(stream), NEW h \in Of(stream, "handoff"), stream[h].outcome # "REQUESTED"
    PROVE  LET last == Latest(HandoffsBefore(h))
           IN  /\ last \in HandoffsBefore(h) /\ stream[last].by = stream[h].by
               /\ \A j \in HandoffsBefore(h) : j <= last
<1> DEFINE p == Before(stream, h)
           asked == {i \in Of(p, "handoff") : p[i].data[1] = stream[h].data[1]}
<1>1. h \in DOMAIN stream /\ stream[h].kind = "handoff"
  BY DEF Of
<1>2. /\ IsBefore(p, stream, h) /\ ValidationMay(p, stream[h])
      /\ h \in 1..Len(stream) /\ Len(stream) \in Nat /\ DOMAIN stream = 1..Len(stream)
  BY <1>1, Ruled, WhatMayFollow DEF ValidationKinds
<1>3. HandoffMay(p, stream[h])
  BY <1>1, <1>2 DEF ValidationMay
<1>4. Latest(asked) # 0 /\ p[Latest(asked)].by = stream[h].by
  BY <1>3 DEF HandoffMay, LastAsked
<1> HIDE DEF p
<1>5. asked = HandoffsBefore(h)
  BY <1>2 DEF HandoffsBefore, IsBefore, Of
<1>6. HandoffsBefore(h) \subseteq 1..(h - 1) /\ h - 1 \in Nat
  BY <1>2 DEF HandoffsBefore, Of
<1>7. Latest(HandoffsBefore(h)) \in HandoffsBefore(h)
      /\ \A j \in HandoffsBefore(h) : j <= Latest(HandoffsBefore(h))
  BY <1>4, <1>5, <1>6, LatestOf
<1> QED
  BY <1>2, <1>4, <1>5, <1>6, <1>7 DEF IsBefore

(* What AnswersLastAsked says, in terms of the whole stream.               *)
AskedLast(h, i) ==
    /\ i \in HandoffsBefore(h) /\ stream[i].outcome = "REQUESTED" /\ stream[i].by = stream[h].by
    /\ \A j \in HandoffsBefore(h) : j > i => stream[j].outcome # "REQUESTED"

LEMMA AnswersHaveRequests ==
    ASSUME IsPast(stream)
    PROVE  \A h \in Of(stream, "handoff") : stream[h].outcome # "REQUESTED" => \E i : AskedLast(h, i)
<1> DEFINE Good(h) == stream[h].outcome # "REQUESTED" => \E i : AskedLast(h, i)
           S == {k \in Nat : \A h \in Of(stream, "handoff") : h <= k => Good(h)}
<1>1. Of(stream, "handoff") \subseteq 1..Len(stream) /\ Len(stream) \in Nat
  BY PastShape DEF Of
<1>2. 0 \in S
  BY <1>1
<1>3. ASSUME NEW k \in Nat, k \in S PROVE k + 1 \in S
  <2> SUFFICES ASSUME NEW h \in Of(stream, "handoff"), h <= k + 1,
                      stream[h].outcome # "REQUESTED"
               PROVE  \E i : AskedLast(h, i)
    BY DEF Good
  <2> DEFINE last == Latest(HandoffsBefore(h))
  <2>1. /\ last \in HandoffsBefore(h) /\ stream[last].by = stream[h].by
        /\ \A j \in HandoffsBefore(h) : j <= last
    BY HandoffsMay
  <2> HIDE DEF last
  <2>2. last \in Of(stream, "handoff") /\ last < h /\ stream[last].data[1] = stream[h].data[1]
    BY <2>1 DEF HandoffsBefore
  <2>3. CASE stream[last].outcome = "REQUESTED"
    <3>1. AskedLast(h, last)
      BY <1>1, <2>1, <2>2, <2>3 DEF AskedLast, HandoffsBefore
    <3> QED
      BY <3>1
  <2>4. CASE stream[last].outcome # "REQUESTED"
    <3>1. last <= k
      BY <1>1, <2>2
    <3>2. PICK i : AskedLast(last, i)
      BY <1>3, <2>2, <2>4, <3>1
    <3>3. AskedLast(h, i)
      <4>1. i \in HandoffsBefore(h) /\ stream[i].by = stream[h].by
        BY <1>1, <2>1, <2>2, <3>2 DEF AskedLast, HandoffsBefore
      <4>2. ASSUME NEW j \in HandoffsBefore(h), j > i PROVE stream[j].outcome # "REQUESTED"
        <5>1. j <= last /\ j \in Of(stream, "handoff") /\ stream[j].data[1] = stream[last].data[1]
          BY <2>1, <2>2, <4>2 DEF HandoffsBefore
        <5>2. CASE j = last
          BY <2>4, <5>2
        <5>3. CASE j < last
          BY <3>2, <4>2, <5>1, <5>3 DEF AskedLast, HandoffsBefore
        <5> QED
          BY <1>1, <2>2, <5>1, <5>2, <5>3
      <4> QED
        BY <3>2, <4>1, <4>2 DEF AskedLast
    <3> QED
      BY <3>3
  <2> QED
    BY <2>3, <2>4
<1>4. Nat \subseteq S
  <2> HIDE DEF S
  <2> QED
    BY <1>2, <1>3, NatSetInduction
<1>5. Len(stream) \in S
  BY <1>1, <1>4
<1> QED
  BY <1>1, <1>5 DEF Good

LEMMA AnswersLastAskedHolds ==
    ASSUME IsPast(stream), NEW h \in Of(stream, "handoff"), stream[h].outcome # "REQUESTED"
    PROVE  AnswersLastAsked(h)
<1> DEFINE p == Prefix(h - 1)
<1>1. PICK i : AskedLast(h, i)
  BY AnswersHaveRequests
<1>2. IsBefore(p, stream, h)
  <2>1. h \in DOMAIN stream
    BY DEF Of
  <2> QED
    BY <2>1, WhatMayFollow DEF Before, Prefix
<1> HIDE DEF p
<1>3. \A j : j \in HandoffsBefore(h) <=>
         j \in Of(p, "handoff") /\ stream[j].data[1] = stream[h].data[1]
  BY <1>2 DEF IsBefore, HandoffsBefore
<1> QED
  BY <1>1, <1>3 DEF AskedLast, AnswersLastAsked, p

(* A closure is of all that its workset chose.                             *)
LEMMA ClosuresMay ==
    ASSUME IsPast(stream), NEW l \in Of(stream, "closure"), stream[l].outcome = "PASS"
    PROVE  Closings[stream[l].data[2]].completed = Worksets[stream[stream[l].on.workset].data].cases
<1> DEFINE p == Before(stream, l)
<1>1. l \in DOMAIN stream /\ stream[l].kind = "closure"
  BY DEF Of
<1>2. /\ IsBefore(p, stream, l) /\ ValidationMay(p, stream[l])
  BY <1>1, Ruled, WhatMayFollow DEF ValidationKinds
<1>3. ClosureMay(p, stream[l])
  BY <1>1, <1>2 DEF ValidationMay
<1> HIDE DEF p
<1>4. p[stream[l].on.workset] = stream[stream[l].on.workset]
  BY <1>2, <1>3 DEF ClosureMay, IsBefore
<1> QED
  BY <1>3, <1>4 DEF ClosureMay, CanPass

LEMMA WhatCompleteRests ==
    ASSUME NEW c, OperationalState(stream, c) = "POST_FIX_VALIDATION_COMPLETE"
    PROVE  LET l == ClosureOf(stream, CurrentWorkset(stream, c))
               h == HandoffOf(stream, c)
           IN  /\ l # 0 /\ h # 0 /\ stream[l].outcome = "PASS" /\ stream[h].outcome = "ACKNOWLEDGED"
<1> DEFINE v == ValidationOf(stream, c)
           w == CurrentWorkset(stream, c)
           l == ClosureOf(stream, w)
           h == HandoffOf(stream, c)
           sup == IsSuperseded(stream, c)
<1>1. \A x \in DOMAIN Judged : Judged[x] # "POST_FIX_VALIDATION_COMPLETE"
  BY DEF Judged
<1>2. \A x \in DOMAIN Regressed : Regressed[x] # "POST_FIX_VALIDATION_COMPLETE"
  BY DEF Regressed
<1> HIDE DEF v, w, l, h
<1>3. (IF sup THEN "SUPERSEDED"
        ELSE IF v # 0 /\ stream[v].outcome \in DOMAIN Judged THEN Judged[stream[v].outcome]
        ELSE IF v = 0 THEN IF w = 0 THEN "VALIDATION_PENDING" ELSE "REGRESSION_PENDING"
        ELSE IF l # 0 /\ stream[l].outcome \in DOMAIN Regressed THEN Regressed[stream[l].outcome]
        ELSE IF l # 0 /\ h # 0 /\ stream[l].outcome = "PASS" /\ stream[h].outcome = "ACKNOWLEDGED"
             THEN "POST_FIX_VALIDATION_COMPLETE"
        ELSE "REGRESSION_PENDING") = "POST_FIX_VALIDATION_COMPLETE"
  BY DEF OperationalState, v, w, l, h
<1>4. l # 0 /\ h # 0 /\ stream[l].outcome = "PASS" /\ stream[h].outcome = "ACKNOWLEDGED"
  BY <1>1, <1>2, <1>3
<1> QED
  BY <1>4 DEF l, h, w

(* What was let through as a cycle, a closure or an answer of r3 makes     *)
(* FixesAreProven.                                                         *)
LEMMA FixesWereProven ==
    ASSUME IsPast(stream)
    PROVE  FixesAreProven
<1>1. ASSUME NEW c \in Of(stream, "cycle"),
             OperationalState(stream, c) = "POST_FIX_VALIDATION_COMPLETE"
      PROVE  LET w == CurrentWorkset(stream, c)
             IN  /\ Closings[stream[ClosureOf(stream, w)].data[2]].completed
                       = Worksets[stream[w].data].cases
                 /\ AnswersLastAsked(HandoffOf(stream, c))
  <2> DEFINE w == CurrentWorkset(stream, c)
             l == ClosureOf(stream, w)
             h == HandoffOf(stream, c)
  <2>1. l # 0 /\ h # 0 /\ stream[l].outcome = "PASS" /\ stream[h].outcome = "ACKNOWLEDGED"
    BY <1>1, WhatCompleteRests
  <2>2. Len(stream) \in Nat /\ \A kind : Of(stream, kind) \subseteq 1..Len(stream)
    BY PastShape DEF Of
  <2>3. l \in Of(stream, "closure") /\ stream[l].on.workset = w
    <3> DEFINE refs == {i \in Of(stream, "closure") : stream[i].on.workset = w}
    <3>1. refs \subseteq 1..Len(stream)
      BY <2>2
    <3>2. l = Latest(refs)
      BY DEF ClosureOf
    <3> HIDE DEF refs, l
    <3>3. l \in refs
      BY <2>1, <2>2, <3>1, <3>2, LatestOf
    <3> QED
      BY <3>3 DEF refs
  <2>4. h \in Of(stream, "handoff")
    <3> DEFINE refs == {i \in Of(stream, "handoff") : stream[i].on.cycle = c}
    <3>1. refs \subseteq 1..Len(stream)
      BY <2>2
    <3>2. h = Latest(refs)
      BY DEF HandoffOf
    <3> HIDE DEF refs, h
    <3>3. h \in refs
      BY <2>1, <2>2, <3>1, <3>2, LatestOf
    <3> QED
      BY <3>3 DEF refs
  <2> HIDE DEF w, l, h
  <2>5. Closings[stream[l].data[2]].completed = Worksets[stream[w].data].cases
    BY <2>1, <2>3, ClosuresMay
  <2>6. AnswersLastAsked(h)
    BY <2>1, <2>4, AnswersLastAskedHolds
  <2> QED
    BY <2>5, <2>6 DEF w, l, h
<1>2. \A c \in Of(stream, "cycle") : stream[c].by = "record" => DetectedAtTarget(c)
  BY OpenedAtTarget DEF CyclesUsed
<1>3. \A c, e \in Of(stream, "cycle") :
         /\ stream[c].by = "record" /\ stream[e].by = "record"
         /\ stream[c].on.detection # stream[e].on.detection
         => ~Disagree(LastPairs(Sightings[stream[stream[c].on.detection].data].saw),
                      LastPairs(Sightings[stream[stream[e].on.detection].data].saw))
  BY DetectionsAgree DEF CyclesUsed
<1> QED
  BY <1>1, <1>2, <1>3 DEF FixesAreProven

-----------------------------------------------------------------------------
(* One record more: what is active, and what the resolution comes to.      *)

FinitelyMany(s) == \A kind : IsFiniteSet(Of(s, kind))

LEMMA FewRecords ==
    ASSUME NEW s, DOMAIN s = 1..Len(s), Len(s) \in Nat
    PROVE  FinitelyMany(s)
<1> SUFFICES ASSUME NEW kind PROVE IsFiniteSet(Of(s, kind))
  BY DEF FinitelyMany
<1>1. IsFiniteSet(1..Len(s))
  BY FS_Interval
<1>2. Of(s, kind) \subseteq 1..Len(s)
  BY DEF Of
<1> QED
  BY <1>1, <1>2, FS_Subset

(* More than one stays more than one.                                      *)
LEMMA StillMany ==
    ASSUME NEW A, NEW B, IsFiniteSet(B), A \subseteq B, Cardinality(A) > 1
    PROVE  Cardinality(B) > 1
<1>1. IsFiniteSet(A) /\ Cardinality(A) <= Cardinality(B)
  BY FS_Subset
<1>2. Cardinality(A) \in Nat /\ Cardinality(B) \in Nat
  BY <1>1, FS_CardinalityType
<1> QED
  BY <1>1, <1>2

(* A set with two elements has more than one, ...                          *)
LEMMA TwoAreMany ==
    ASSUME NEW A, IsFiniteSet(A), NEW x \in A, NEW y \in A, x # y
    PROVE  Cardinality(A) > 1
<1>1. IsFiniteSet({x}) /\ Cardinality({x}) = 1
  BY FS_Singleton
<1>2. IsFiniteSet({x, y}) /\ Cardinality({x, y}) = 2
  <2>1. Cardinality({x} \cup {y}) = 2 /\ IsFiniteSet({x} \cup {y})
    BY <1>1, FS_AddElement
  <2>2. {x} \cup {y} = {x, y}
    OBVIOUS
  <2> QED
    BY <2>1, <2>2
<1>3. Cardinality({x, y}) <= Cardinality(A)
  BY FS_Subset
<1> QED
  BY <1>2, <1>3, FS_CardinalityType

(* ... and one that has not is empty or has one.                           *)
LEMMA NotMany ==
    ASSUME NEW A, IsFiniteSet(A), ~(Cardinality(A) > 1)
    PROVE  A = {} \/ One(A)
<1>1. \A x, y \in A : x = y
  BY TwoAreMany
<1> QED
  BY <1>1 DEF One

(* How the records of the kinds that matter are in a longer stream.        *)
Longer(old, new, n) ==
    /\ DOMAIN old = 1..n /\ DOMAIN new = 1..(n + 1)
    /\ \A i \in 1..n : new[i] = old[i]

LEMMA ActiveIsNotRevived ==
    ASSUME NEW n \in Nat, NEW old, NEW new, Longer(old, new, n)
    PROVE  Active(new) \subseteq Active(old) \cup {n + 1}
<1> SUFFICES ASSUME NEW i \in Active(new), i # n + 1
             PROVE  i \in Active(old)
  OBVIOUS
<1>1. i \in 1..n /\ new[i] = old[i] /\ i \in Of(old, "readiness")
  BY DEF Active, Of, Longer
<1>2. i \notin DisposedOf(old, {"revoked", "superseded"})
  <2> SUFFICES ASSUME NEW j \in Of(old, "disposition"), i = old[j].on.readiness,
                      Troubles[old[j].data] \cap {"revoked", "superseded"} # {}
               PROVE  FALSE
    BY DEF DisposedOf
  <2>1. j \in Of(new, "disposition") /\ new[j] = old[j]
    BY DEF Of, Longer
  <2>2. i \in DisposedOf(new, {"revoked", "superseded"})
    BY <2>1 DEF DisposedOf
  <2> QED
    BY <2>2 DEF Active
<1> QED
  BY <1>1, <1>2 DEF Active

(* What is in conflict stays so while nothing is disposed of.              *)
LEMMA SameOrMore ==
    ASSUME NEW n \in Nat, NEW old, NEW new, Longer(old, new, n),
           new[n + 1].kind # "disposition"
    PROVE  /\ \A kind : Of(old, kind) \subseteq Of(new, kind)
           /\ \A kind : \A i \in Of(new, kind) : i = n + 1 \/ i \in Of(old, kind)
           /\ \A i \in 1..n : new[i] = old[i]
           /\ \A kind : Of(old, kind) \subseteq 1..n
           /\ Of(new, "disposition") = Of(old, "disposition")
           /\ Active(old) \subseteq Active(new)
<1>1. \A kind : Of(old, kind) \subseteq Of(new, kind)
  BY DEF Of, Longer
<1>2. Of(new, "disposition") = Of(old, "disposition")
  BY DEF Of, Longer
<1>3. \A kind : \A i \in Of(new, kind) : i = n + 1 \/ i \in Of(old, kind)
  BY DEF Of, Longer
<1>4. \A i \in 1..n : new[i] = old[i]
  BY DEF Longer
<1>5. \A kind : Of(old, kind) \subseteq 1..n
  BY DEF Of, Longer
<1>6. ASSUME NEW i \in Active(old) PROVE i \in Active(new)
  <2>1. i \in Of(old, "readiness") /\ new[i] = old[i] /\ i \in Of(new, "readiness")
    BY <1>1, <1>4, <1>5 DEF Active
  <2>2. i \notin DisposedOf(new, {"revoked", "superseded"})
    <3> SUFFICES ASSUME NEW j \in Of(new, "disposition"), i = new[j].on.readiness,
                        Troubles[new[j].data] \cap {"revoked", "superseded"} # {}
                 PROVE  FALSE
      BY DEF DisposedOf
    <3>1. j \in Of(old, "disposition") /\ new[j] = old[j]
      BY <1>2, <1>4, <1>5
    <3>2. i \in DisposedOf(old, {"revoked", "superseded"})
      BY <3>1 DEF DisposedOf
    <3> QED
      BY <3>2 DEF Active
  <2> QED
    BY <2>1, <2>2 DEF Active
<1> QED
  BY <1>1, <1>2, <1>3, <1>4, <1>5, <1>6

LEMMA ConflictsStay ==
    ASSUME NEW n \in Nat, NEW old, NEW new, Longer(old, new, n), FinitelyMany(new),
           new[n + 1].kind # "disposition", NEW i \in 1..n, InConflict(old, i)
    PROVE  InConflict(new, i)
<1>1. /\ \A kind : Of(old, kind) \subseteq Of(new, kind)
      /\ \A j \in 1..n : new[j] = old[j]
      /\ \A kind : Of(old, kind) \subseteq 1..n
      /\ Of(new, "disposition") = Of(old, "disposition")
  BY SameOrMore
<1>2. WaitsOn(old, i) \subseteq WaitsOn(new, i) /\ IsFiniteSet(WaitsOn(new, i))
  <2>1. WaitsOn(old, i) \subseteq WaitsOn(new, i)
    BY <1>1 DEF WaitsOn
  <2>2. WaitsOn(new, i) \subseteq Of(new, "wait") /\ IsFiniteSet(Of(new, "wait"))
    BY DEF WaitsOn, FinitelyMany
  <2> QED
    BY <2>1, <2>2, FS_Subset
<1>3. AssessedOn(old, i) \subseteq AssessedOn(new, i) /\ IsFiniteSet(AssessedOn(new, i))
  <2>1. AssessedOn(old, i) \subseteq AssessedOn(new, i)
    <3> SUFFICES ASSUME NEW e \in AssessedOn(old, i) PROVE e \in AssessedOn(new, i)
      OBVIOUS
    <3>1. e \in Of(old, "eligibility") /\ old[e].on.readiness = i /\ old[e].on.wait \in WaitsOn(old, i)
      BY DEF AssessedOn
    <3>2. e \in Of(new, "eligibility") /\ new[e] = old[e]
      BY <1>1, <3>1
    <3> QED
      BY <1>2, <3>1, <3>2 DEF AssessedOn
  <2>2. AssessedOn(new, i) \subseteq Of(new, "eligibility") /\ IsFiniteSet(Of(new, "eligibility"))
    BY DEF AssessedOn, FinitelyMany
  <2> QED
    BY <2>1, <2>2, FS_Subset
<1>4. DisposedOn(old, i) \subseteq DisposedOn(new, i) /\ IsFiniteSet(DisposedOn(new, i))
  <2>1. DisposedOn(old, i) \subseteq DisposedOn(new, i)
    BY <1>1 DEF DisposedOn
  <2>2. DisposedOn(new, i) \subseteq Of(new, "disposition") /\ IsFiniteSet(Of(new, "disposition"))
    BY DEF DisposedOn, FinitelyMany
  <2> QED
    BY <2>1, <2>2, FS_Subset
<1>5. CASE Cardinality(WaitsOn(old, i)) > 1
  BY <1>2, <1>5, StillMany DEF InConflict
<1>6. CASE Cardinality(DisposedOn(old, i)) > 1
  BY <1>4, <1>6, StillMany DEF InConflict
<1>7. CASE One(WaitsOn(old, i)) /\ Cardinality(AssessedOn(old, i)) > 1
  <2>1. Cardinality(AssessedOn(new, i)) > 1
    BY <1>3, <1>7, StillMany
  <2>2. CASE Cardinality(WaitsOn(new, i)) > 1
    BY <2>2 DEF InConflict
  <2>3. CASE ~(Cardinality(WaitsOn(new, i)) > 1)
    <3>1. One(WaitsOn(new, i))
      <4>1. WaitsOn(new, i) = {} \/ One(WaitsOn(new, i))
        BY <1>2, <2>3, NotMany
      <4>2. WaitsOn(new, i) # {}
        BY <1>2, <1>7 DEF One
      <4> QED
        BY <4>1, <4>2
    <3> QED
      BY <2>1, <3>1 DEF InConflict
  <2> QED
    BY <2>2, <2>3
<1> QED
  BY <1>5, <1>6, <1>7 DEF InConflict

(* Whether the records of a release are in conflict.                       *)
Torn(s) ==
    \/ Cardinality(Active(s)) > 1
    \/ Cardinality(Active(s)) = 1 /\ \E i \in Active(s) : InConflict(s, i)

LEMMA ConflictIsTorn ==
    ASSUME NEW s, FinitelyMany(s)
    PROVE  Resolution(s) = "CONFLICT" <=> Torn(s)
<1>1. IsFiniteSet(Active(s)) /\ Active(s) \subseteq Of(s, "readiness")
  <2>1. Active(s) \subseteq Of(s, "readiness") /\ IsFiniteSet(Of(s, "readiness"))
    BY DEF Active, FinitelyMany
  <2> QED
    BY <2>1, FS_Subset
<1>2. Cardinality(Active(s)) \in Nat /\ (Cardinality(Active(s)) = 0 <=> Active(s) = {})
  BY <1>1, FS_CardinalityType, FS_EmptySet
<1> DEFINE card == Cardinality(Active(s))
           conflict == \E i \in Active(s) : InConflict(s, i)
           gone == IF DisposedOf(s, {"revoked"}) # {} THEN "REVOKED"
                   ELSE IF DisposedOf(s, {"superseded"}) # {} THEN "SUPERSEDED" ELSE "STALE"
<1>3. gone # "CONFLICT"
  OBVIOUS
<1>4. Resolution(s) =
        CASE Of(s, "readiness") = {}        -> "UNKNOWN"
          [] card > 1     -> "CONFLICT"
          [] card = 1     -> IF conflict THEN "CONFLICT" ELSE "CURRENT"
          [] Of(s, "readiness") # {} /\ Active(s) = {} -> gone
  BY DEF Resolution
<1>5. Torn(s) <=> (card > 1 \/ (card = 1 /\ conflict))
  BY DEF Torn
<1>6. card \in Nat /\ (card = 0 <=> Active(s) = {})
  BY <1>2
<1> HIDE DEF card, conflict, gone
<1>7. CASE Of(s, "readiness") = {}
  <2>1. Active(s) = {} /\ card = 0
    BY <1>1, <1>6, <1>7
  <2> QED
    BY <1>4, <1>5, <1>7, <2>1
<1>8. CASE Of(s, "readiness") # {} /\ card > 1
  <2>1. ~(card = 1) /\ Active(s) # {}
    BY <1>6, <1>8
  <2> QED
    BY <1>4, <1>5, <1>8, <2>1
<1>9. CASE Of(s, "readiness") # {} /\ card = 1
  BY <1>4, <1>5, <1>6, <1>9
<1>10. CASE Of(s, "readiness") # {} /\ card = 0
  BY <1>3, <1>4, <1>5, <1>6, <1>10
<1> QED
  BY <1>6, <1>7, <1>8, <1>9, <1>10

LEMMA TornStays ==
    ASSUME NEW n \in Nat, NEW old, NEW new, Longer(old, new, n), FinitelyMany(new),
           new[n + 1].kind # "disposition", Torn(old)
    PROVE  Torn(new)
<1>1. Active(old) \subseteq Active(new) /\ IsFiniteSet(Active(new)) /\ Active(old) \subseteq 1..n
  <2>1. Active(new) \subseteq Of(new, "readiness") /\ IsFiniteSet(Of(new, "readiness"))
    BY DEF Active, FinitelyMany
  <2>2. Active(old) \subseteq Of(old, "readiness") /\ Of(old, "readiness") \subseteq 1..n
    BY SameOrMore DEF Active
  <2> QED
    BY <2>1, <2>2, FS_Subset, SameOrMore
<1>2. CASE Cardinality(Active(old)) > 1
  BY <1>1, <1>2, StillMany DEF Torn
<1>3. CASE Cardinality(Active(old)) = 1 /\ \E i \in Active(old) : InConflict(old, i)
  <2>1. PICK i \in Active(old) : InConflict(old, i)
    BY <1>3
  <2>2. i \in Active(new) /\ InConflict(new, i)
    BY <1>1, <2>1, ConflictsStay
  <2>3. CASE Cardinality(Active(new)) > 1
    BY <2>3 DEF Torn
  <2>4. CASE ~(Cardinality(Active(new)) > 1)
    <3>1. One(Active(new))
      BY <1>1, <2>2, <2>4, NotMany
    <3>2. Cardinality(Active(new)) = 1
      BY <3>1, FS_Singleton DEF One
    <3> QED
      BY <2>2, <3>2 DEF Torn
  <2> QED
    BY <2>3, <2>4
<1> QED
  BY <1>2, <1>3 DEF Torn

(* NoRevival, for every stream: it is a fact about how current_resolution  *)
(* reads the records.                                                      *)
LEMMA NothingIsRevived ==
    ASSUME IsStream(stream), begun \in Nat
    PROVE  NoRevival
<1> DEFINE n == HeadSeq - 1
           old == Prefix(n)
<1> SUFFICES ASSUME HeadSeq > begun
             PROVE  /\ Active(stream) \subseteq Active(old) \cup {HeadSeq}
                    /\ Resolution(old) = "CONFLICT" /\ Resolution(stream) # "CONFLICT"
                          => stream[HeadSeq].kind = "disposition"
  BY DEF NoRevival
<1>1. Len(stream) \in Nat /\ DOMAIN stream = 1..Len(stream) /\ n \in Nat /\ n + 1 = HeadSeq
  BY StreamShape DEF HeadSeq
<1>2. HeadSeq \in DOMAIN stream
  BY <1>1 DEF HeadSeq
<1>3. IsBefore(old, stream, HeadSeq)
  BY <1>2, BeforeShape DEF Prefix
<1> HIDE DEF n, old
<1>4. Longer(old, stream, n)
  <2>1. Len(stream) = n + 1 /\ HeadSeq - 1 = n
    BY <1>1 DEF HeadSeq, n
  <2>2. DOMAIN old = 1..n /\ \A j \in 1..n : old[j] = stream[j]
    BY <1>3, <2>1 DEF IsBefore
  <2> QED
    BY <1>1, <2>1, <2>2 DEF Longer
<1>5. FinitelyMany(stream) /\ FinitelyMany(old)
  <2>1. FinitelyMany(stream)
    BY <1>1, FewRecords
  <2>2. \A kind : Of(old, kind) \subseteq Of(stream, kind)
    BY <1>3 DEF IsBefore
  <2> QED
    BY <2>1, <2>2, FS_Subset DEF FinitelyMany
<1>6. Active(stream) \subseteq Active(old) \cup {HeadSeq}
  BY <1>1, <1>4, ActiveIsNotRevived
<1>7. ASSUME Resolution(old) = "CONFLICT", stream[HeadSeq].kind # "disposition"
      PROVE  Resolution(stream) = "CONFLICT"
  BY <1>1, <1>4, <1>5, <1>7, ConflictIsTorn, TornStays
<1> QED
  BY <1>6, <1>7

-----------------------------------------------------------------------------
(* What is sent, and what becomes of it.                                   *)

(* A record that is computed and asked for once more stays what it is.     *)
LEMMA ComputedAgain ==
    ASSUME NEW s, NEW r, ReleaseIdentity(ReleaseComputed(s, r)) = ReleaseIdentity(r)
    PROVE  LET f == ReleaseComputed(s, r)
           IN  /\ ReleaseComputed(s, f) = f
               /\ f.kind = r.kind /\ f.on = r.on /\ f.data = r.data /\ f.by = r.by /\ f.as_of = r.as_of
<1> DEFINE f == ReleaseComputed(s, r)
           Being(outcome) == Record(r.kind, r.on, r.data, r.by, outcome, r.as_of)
           Rated == {"risk", "readiness", "eligibility"}
<1>1. ASSUME NEW outcome, f = Being(outcome)
      PROVE  /\ f.kind = r.kind /\ f.on = r.on /\ f.data = r.data /\ f.by = r.by /\ f.as_of = r.as_of
             /\ f.outcome = outcome /\ \A o : Record(f.kind, f.on, f.data, f.by, o, f.as_of) = Being(o)
  BY <1>1 DEF Record
<1>2. CASE r.kind = "risk"
  <2>1. f = Being(RiskOutcome(r))
    BY <1>2 DEF ReleaseComputed
  <2> HIDE DEF f
  <2>2. RiskOutcome(f) = RiskOutcome(r)
    BY <1>1, <2>1 DEF RiskOutcome
  <2>3. ReleaseComputed(s, f) = Record(f.kind, f.on, f.data, f.by, RiskOutcome(f), f.as_of)
    BY <1>1, <1>2, <2>1 DEF ReleaseComputed
  <2> QED
    BY <1>1, <2>1, <2>2, <2>3 DEF f
<1>3. CASE r.kind = "readiness"
  <2>1. f = Being(Verdict(s, r))
    BY <1>3 DEF ReleaseComputed
  <2> HIDE DEF f
  <2>2. Verdict(s, f) = Verdict(s, r)
    BY <1>1, <2>1 DEF Verdict, RiskTroubles
  <2>3. ReleaseComputed(s, f) = Record(f.kind, f.on, f.data, f.by, Verdict(s, f), f.as_of)
    BY <1>1, <1>3, <2>1 DEF ReleaseComputed
  <2> QED
    BY <1>1, <2>1, <2>2, <2>3 DEF f
<1>4. CASE r.kind = "eligibility"
  <2>1. f = Being(EligibilityOutcome(r))
    BY <1>4 DEF ReleaseComputed
  <2> HIDE DEF f
  <2>2. EligibilityOutcome(f) = EligibilityOutcome(r)
    BY <1>1, <2>1 DEF EligibilityOutcome
  <2>3. ReleaseComputed(s, f) = Record(f.kind, f.on, f.data, f.by, EligibilityOutcome(f), f.as_of)
    BY <1>1, <1>4, <2>1 DEF ReleaseComputed
  <2> QED
    BY <1>1, <2>1, <2>2, <2>3 DEF f
<1>5. CASE r.kind = "receipt" /\ Contradicted(s, r)
  <2>1. f = Being("RECONCILIATION_REQUIRED")
    BY <1>5 DEF ReleaseComputed
  <2> HIDE DEF f
  <2>2. Contradicted(s, f)
    BY <1>1, <1>5, <2>1 DEF Contradicted
  <2>3. ReleaseComputed(s, f) =
          Record(f.kind, f.on, f.data, f.by, "RECONCILIATION_REQUIRED", f.as_of)
    BY <1>1, <1>5, <2>1, <2>2 DEF ReleaseComputed
  <2> QED
    BY <1>1, <2>1, <2>3 DEF f
<1>6. CASE r.kind = "receipt" /\ ~Contradicted(s, r)
  BY <1>6 DEF ReleaseComputed
<1>7. CASE r.kind \notin Rated \cup {"receipt"}
  BY <1>7 DEF ReleaseComputed
<1> QED
  BY <1>2, <1>3, <1>4, <1>5, <1>6, <1>7

(* A handler that let the request through lets its record through.         *)
LEMMA MayAgain ==
    ASSUME NEW s, NEW r, ReleaseMay(s, r)
    PROVE  ReleaseMay(s, ReleaseComputed(s, r))
<1> DEFINE f == ReleaseComputed(s, r)
<1>1. ReleaseIdentity(f) = ReleaseIdentity(r)
      /\ \A i \in Of(s, r.kind) : ReleaseIdentity(s[i]) # ReleaseIdentity(r)
  BY DEF ReleaseMay
<1>2. /\ ReleaseComputed(s, f) = f
      /\ f.kind = r.kind /\ f.on = r.on /\ f.data = r.data /\ f.by = r.by /\ f.as_of = r.as_of
  BY <1>1, ComputedAgain
<1>3. r.kind \notin {"risk", "readiness", "eligibility", "receipt"} => f = r
  BY DEF ReleaseComputed
<1> SUFFICES ReleaseMay(s, f)
  OBVIOUS
<1> HIDE DEF f
<1>4. /\ ReleaseIdentity(ReleaseComputed(s, f)) = ReleaseIdentity(f)
      /\ \A i \in Of(s, f.kind) : ReleaseIdentity(s[i]) # ReleaseIdentity(f)
  BY <1>1, <1>2
<1>5. CASE r.kind = "risk"
  BY <1>2, <1>4, <1>5 DEF ReleaseMay
<1>6. CASE r.kind = "readiness"
  <2>1. ReadinessMay(s, r)
    BY <1>6 DEF ReleaseMay
  <2>2. ReadinessMay(s, f)
    BY <1>2, <2>1 DEF ReadinessMay
  <2> QED
    BY <1>2, <1>4, <1>6, <2>2 DEF ReleaseMay
<1>7. CASE r.kind = "eligibility"
  <2>1. EligibilityMay(s, r)
    BY <1>7 DEF ReleaseMay
  <2>2. EligibilityMay(s, f)
    BY <1>2, <2>1 DEF EligibilityMay
  <2> QED
    BY <1>2, <1>4, <1>7, <2>2 DEF ReleaseMay
<1>8. CASE r.kind = "receipt"
  <2>1. ReceiptMay(s, r)
    BY <1>8 DEF ReleaseMay
  <2>2. ReceiptMay(s, f)
    BY <1>2, <2>1 DEF ReceiptMay
  <2> QED
    BY <1>2, <1>4, <1>8, <2>2 DEF ReleaseMay
<1>9. CASE r.kind \notin {"risk", "readiness", "eligibility", "receipt"}
  BY <1>3, <1>9
<1> QED
  BY <1>5, <1>6, <1>7, <1>8, <1>9

(* The identity of a record begins with its kind, and the handler does not *)
(* change it.                                                              *)
LEMMA IdentityTells ==
    ASSUME NEW x
    PROVE  /\ Identity(x)[1] = x.kind
           /\ x.kind = "selection" => Identity(x) = <<x.kind, x.data>>
           /\ x.kind = "request" => Identity(x) = <<x.kind, x.on.assessment, x.on.selection>>
<1>1. CASE x.kind \in CampaignKinds
  <2>1. Identity(x) = <<x.kind, x.data>>
    BY <1>1 DEF Identity, CampaignKinds, ImpactKinds, FixKinds, ValidationKinds, CampaignIdentity
  <2> QED
    BY <1>1, <2>1 DEF CampaignKinds
<1>2. CASE x.kind \in ImpactKinds
  <2>1. Identity(x) = ImpactIdentity(x)
    BY <1>2 DEF Identity, CampaignKinds, ImpactKinds, FixKinds, ValidationKinds
  <2>2. ImpactIdentity(x)[1] = x.kind
    BY <1>2 DEF ImpactIdentity, ImpactKinds
  <2>3. x.kind = "request" => ImpactIdentity(x) = <<x.kind, x.on.assessment, x.on.selection>>
    BY DEF ImpactIdentity
  <2> QED
    BY <1>2, <2>1, <2>2, <2>3 DEF ImpactKinds
<1>3. CASE x.kind \in FixKinds
  <2>1. Identity(x) = FixIdentity(x)
    BY <1>3 DEF Identity, CampaignKinds, ImpactKinds, FixKinds, ValidationKinds
  <2>2. FixIdentity(x)[1] = x.kind
    BY <1>3 DEF FixIdentity, FixKinds
  <2> QED
    BY <1>3, <2>1, <2>2 DEF FixKinds
<1>4. CASE x.kind \in ValidationKinds
  <2>1. Identity(x) = ValidationIdentity(x)
    BY <1>4 DEF Identity, CampaignKinds, ImpactKinds, FixKinds, ValidationKinds
  <2>2. ValidationIdentity(x)[1] = x.kind
    BY <1>4 DEF ValidationIdentity, ValidationKinds
  <2> QED
    BY <1>4, <2>1, <2>2 DEF ValidationKinds
<1>5. CASE x.kind \notin CampaignKinds \cup ImpactKinds \cup FixKinds \cup ValidationKinds
  <2>1. Identity(x) = <<x.kind, ReleaseIdentity(x)>>
    BY <1>5 DEF Identity
  <2> QED
    BY <1>5, <2>1 DEF CampaignKinds, ImpactKinds
<1> QED
  BY <1>1, <1>2, <1>3, <1>4, <1>5

(* The record that is stored for a request is one that may follow.         *)
LEMMA StoredMayFollow ==
    ASSUME NEW s, NEW r, May(s, r), Takes(s, Computed(s, r))
    PROVE  LET f == Computed(s, r)
           IN  /\ May(s, f) /\ f = Computed(s, f) /\ Takes(s, f)
               /\ f.kind = r.kind /\ f.on = r.on /\ f.data = r.data
               /\ Identity(f) = Identity(r)
               /\ r.kind \in CampaignKinds \cup ImpactKinds => f = r
<1> DEFINE f == Computed(s, r)
           Others == CampaignKinds \cup ImpactKinds \cup FixKinds \cup ValidationKinds
<1>1. CASE r.kind \in Others
  <2>1. f = r
    BY <1>1, RulesByKind
  <2> QED
    BY <1>1, <2>1
<1>2. CASE r.kind \notin Others
  <2>1. f = ReleaseComputed(s, r) /\ ReleaseMay(s, r)
    BY <1>2, RulesByKind
  <2>2. ReleaseIdentity(ReleaseComputed(s, r)) = ReleaseIdentity(r)
    BY <2>1 DEF ReleaseMay
  <2>3. /\ ReleaseComputed(s, f) = f /\ ReleaseMay(s, f) /\ ReleaseIdentity(f) = ReleaseIdentity(r)
        /\ f.kind = r.kind /\ f.on = r.on /\ f.data = r.data
    BY <2>1, <2>2, ComputedAgain, MayAgain
  <2>4. Takes(s, f)
    OBVIOUS
  <2> HIDE DEF f
  <2>5. May(s, f) /\ f = Computed(s, f)
    BY <1>2, <2>3, RulesByKind
  <2>6. Identity(f) = Identity(r)
    <3>1. Identity(r) = <<r.kind, ReleaseIdentity(r)>>
      BY <1>2 DEF Identity
    <3>2. Identity(f) = <<f.kind, ReleaseIdentity(f)>>
      BY <1>2, <2>3 DEF Identity
    <3> QED
      BY <2>3, <3>1, <3>2
  <2>7. /\ May(s, f) /\ f = Computed(s, f) /\ Takes(s, f)
        /\ f.kind = r.kind /\ f.on = r.on /\ f.data = r.data
        /\ Identity(f) = Identity(r)
        /\ r.kind \in CampaignKinds \cup ImpactKinds => f = r
    BY <1>2, <2>3, <2>4, <2>5, <2>6
  <2> QED
    BY <2>7 DEF f
<1> QED
  BY <1>1, <1>2

(* A past with a record that may follow is a past.                         *)
LEMMA PastGrows ==
    ASSUME IsPast(stream), NEW f, MayFollow(stream, f), Grows(f)
    PROVE  IsPast(stream)'
<1>1. IsStream(stream) /\ Len(stream) \in Nat /\ DOMAIN stream = 1..Len(stream)
  BY PastShape
<1>2. /\ IsStream(stream)' /\ HeadSeq' = HeadSeq + 1 /\ stream'[HeadSeq + 1] = f
      /\ SamePast(HeadSeq)
  BY <1>1, OneMore
<1> DEFINE new == Append(stream, f)
<1>3. /\ IsStream(new) /\ Len(new) = Len(stream) + 1 /\ new[Len(stream) + 1] = f
      /\ \A i \in 1..Len(stream) : new[i] = stream[i]
      /\ \A n \in 0..Len(stream) : SubSeq(new, 1, n) = SubSeq(stream, 1, n)
  BY <1>1, AppendedStream
<1> HIDE DEF new
<1>4. DOMAIN new = 1..(Len(stream) + 1) /\ new \in Seq({new[i] : i \in DOMAIN new})
  BY <1>3, StreamShape, OfItsEvents
<1>5. ASSUME NEW i \in DOMAIN new PROVE MayFollow(SubSeq(new, 1, i - 1), new[i])
  <2>1. CASE i \in 1..Len(stream)
    <3>1. SubSeq(new, 1, i - 1) = SubSeq(stream, 1, i - 1) /\ new[i] = stream[i]
      BY <1>1, <1>3, <2>1
    <3> QED
      BY <1>1, <2>1, <3>1 DEF IsPast
  <2>2. CASE i = Len(stream) + 1
    <3>1. SubSeq(new, 1, i - 1) = stream
      <4>1. i - 1 = Len(stream) /\ Len(stream) \in 0..Len(stream)
        BY <1>1, <2>2
      <4>2. SubSeq(stream, 1, Len(stream)) = stream
        BY <1>1, StreamShape
      <4> QED
        BY <1>3, <4>1, <4>2
    <3> QED
      BY <1>3, <2>2, <3>1
  <2> QED
    BY <1>1, <1>4, <2>1, <2>2
<1>6. IsPast(new)
  BY <1>4, <1>5 DEF IsPast
<1>7. stream' = new
  BY DEF Grows, new
<1> QED
  BY <1>6, <1>7 DEF IsPast

(* What becomes of a command for a record.                                 *)
Stored(r) ==
    /\ May(stream, r) /\ Takes(stream, Computed(stream, r))
    /\ Grows(Computed(stream, r))

(* A command is raised or known and leaves no trace, or is refused, or its *)
(* record is stored.                                                       *)
LEMMA SubmitOutcomes ==
    ASSUME NEW r, NEW tag, NEW seq, Submit(Envelope(r, tag, seq), r), IsStream(stream)
    PROVE  LET cmd == Envelope(r, tag, seq)
           IN  \/ UNCHANGED log /\ (IsOk(cmd, r) => Known(cmd) \cup KeyOwners(cmd) # {})
               \/ ~IsOk(cmd, r) /\ \E code : rows' = rows \cup {Row(cmd, Rejected(code))} /\ stream' = stream
               \/ Stored(r) /\ \E n : rows' = rows \cup {Row(cmd, Accepted(n))}
<1> DEFINE cmd == Envelope(r, tag, seq)
<1>1. CASE IsRaised(cmd, r)
  BY <1>1 DEF Submit, IsOk
<1>2. CASE ~IsRaised(cmd, r)
  <2>1. Execute(cmd, Facts(r), "REFUSED")
    BY <1>2 DEF Submit
  <2> HIDE DEF cmd
  <2>2. \/ Known(cmd) \cup KeyOwners(cmd) # {} /\ UNCHANGED log
        \/ \E code : /\ Answer(cmd, Facts(r), "REFUSED") = Rejected(code)
                     /\ rows' = rows \cup {Row(cmd, Rejected(code))}
                     /\ stream' = stream
        \/ /\ Known(cmd) = {} /\ KeyOwners(cmd) = {}
           /\ cmd.expected_seq = HeadSeq /\ Facts(r) # << >>
           /\ rows' = rows \cup {Row(cmd, Accepted(HeadSeq + Len(Facts(r))))}
           /\ stream' = stream \o Facts(r)
    BY <2>1, ExecuteOutcomes
  <2>3. ASSUME NEW code, Answer(cmd, Facts(r), "REFUSED") = Rejected(code) PROVE ~IsOk(cmd, r)
    BY <2>3 DEF IsOk, Rejected
  <2>4. ASSUME Known(cmd) = {}, KeyOwners(cmd) = {}, cmd.expected_seq = HeadSeq, Facts(r) # << >>,
               stream' = stream \o Facts(r)
        PROVE  Stored(r)
    <3>1. May(stream, r) /\ Facts(r) = << Computed(stream, r) >>
      BY <2>4 DEF Facts
    <3>2. Takes(stream, Computed(stream, r))
      BY <1>2, <2>4, <3>1 DEF IsRaised, cmd
    <3>3. stream' = Append(stream, Computed(stream, r))
      BY <2>4, <3>1, AppendedStream
    <3> QED
      BY <3>1, <3>2, <3>3 DEF Stored, Grows
  <2> QED
    BY <2>2, <2>3, <2>4 DEF cmd
<1> QED
  BY <1>1, <1>2

-----------------------------------------------------------------------------
(* The inductive invariant.                                                *)

Answered(a, outcome) ==
    \E p \in planned : p.request \in RequestsOf(stream, a) /\ p.answer = outcome

(* An assessment that calls for a revision, and one a selection was made   *)
(* for.                                                                    *)
CallsFor(a) ==
    Is(stream, a, "assessment") /\ stream[a].outcome = "SELECTION_REVISION_REQUIRED"
SelectedFor(a) ==
    Is(stream, a, "assessment") /\ Named(stream, "selection", <<"for", a>>) # {}

(* What a caller is about to send, and where it goes on from there.        *)
SendFits(v) ==
    /\ v.then \in {"idle", "link", "bridge", "plan"}
    /\ v.r.kind = "link" =>
          v.r.on.selection \in Named(stream, "selection", <<"for", v.r.on.assessment>>)
    /\ v.r.kind = "request" => CallsFor(v.r.on.assessment)
    /\ v.r.kind = "result" /\ v.r.outcome \in PlannersOwn => Answered(v.r.on.assessment, v.r.outcome)
    /\ v.then = "link" =>
          /\ v.r.kind = "selection"
          /\ \E a : v.r.data = <<"for", a>> /\ Is(stream, a, "assessment")
    /\ v.then = "bridge" => CallsFor(v.r.on.assessment)
    /\ v.then = "plan" => v.r.kind = "request"

(* Where a caller is, and what it relies on there.                         *)
CallFits(v) ==
    /\ v.at = "send" => SendFits(v)
    /\ v.at = "link" => \E a : v.on.data = <<"for", a>> /\ SelectedFor(a)
    /\ v.at = "bridge" => CallsFor(v.on.on.assessment)
    /\ v.at = "plan" => RequestsOf(stream, v.on.on.assessment) # {}

CallsFit ==
    /\ call \in [Callers -> {call[c] : c \in Callers}]
    /\ \A c \in Callers : CallFits(call[c])

(* A command that was answered ok has its record on the stream.            *)
RowsOnRecord ==
    \A row \in rows :
        /\ row.idempotency_key = row.command_id[1]
        /\ row.answer.ok => \E i \in DOMAIN stream : Identity(stream[i]) = row.command_id[1]

PlannedOnRecord == \A p \in planned : Is(stream, p.request, "request")

ResultsWereSaid ==
    \A i \in Of(stream, "result") :
        stream[i].outcome \in PlannersOwn => Answered(stream[i].on.assessment, stream[i].outcome)

IInv ==
    /\ IsPast(stream) /\ begun \in Nat
    /\ RowsOnRecord /\ CallsFit
    /\ PlannedOnRecord /\ ResultsWereSaid

-----------------------------------------------------------------------------
(* What stands when the stream has grown, and more was planned.            *)

StreamGrows == stream' = stream \/ \E f : MayFollow(stream, f) /\ Grows(f)

(* The records that were there are there, unchanged.                       *)
LEMMA StreamStands ==
    ASSUME IsPast(stream), StreamGrows
    PROVE  /\ IsPast(stream)' /\ HeadSeq \in Nat /\ HeadSeq <= HeadSeq'
           /\ DOMAIN stream = 1..HeadSeq /\ (DOMAIN stream)' = 1..HeadSeq'
           /\ \A i \in DOMAIN stream : i \in DOMAIN stream' /\ stream'[i] = stream[i]
           /\ \A kind : \A i \in Of(stream, kind) : i \in Of(stream, kind)'
<1>1. IsStream(stream) /\ Len(stream) \in Nat /\ DOMAIN stream = 1..Len(stream)
  BY PastShape
<1>2. CASE stream' = stream
  BY <1>1, <1>2 DEF IsPast, HeadSeq, Of
<1>3. CASE \E f : MayFollow(stream, f) /\ Grows(f)
  <2>1. PICK f : MayFollow(stream, f) /\ Grows(f)
    BY <1>3
  <2>2. IsPast(stream)'
    BY <2>1, PastGrows
  <2>3. /\ IsStream(stream)' /\ HeadSeq' = HeadSeq + 1 /\ SamePast(HeadSeq)
    BY <1>1, <2>1, OneMore
  <2>4. (DOMAIN stream)' = 1..HeadSeq'
    <3>1. PICK s : s = stream'
      OBVIOUS
    <3>2. IsStream(s) /\ HeadSeq' = Len(s)
      BY <2>3, <3>1 DEF IsStream, HeadSeq
    <3> QED
      BY <3>1, <3>2, StreamShape
  <2>5. \A i \in DOMAIN stream : i \in DOMAIN stream' /\ stream'[i] = stream[i]
    BY <1>1, <2>3, <2>4 DEF SamePast, HeadSeq
  <2>6. \A kind : \A i \in Of(stream, kind) : i \in Of(stream, kind)'
    BY <2>5 DEF Of
  <2> QED
    BY <1>1, <2>2, <2>3, <2>4, <2>5, <2>6 DEF HeadSeq
<1> QED
  BY <1>2, <1>3 DEF StreamGrows

(* What a caller relies on.                                                *)
LEMMA FactsStand ==
    ASSUME IsPast(stream), StreamGrows, planned \subseteq planned'
    PROVE  /\ \A a : Is(stream, a, "assessment") => Is(stream, a, "assessment")'
           /\ \A a : CallsFor(a) => CallsFor(a)'
           /\ \A a : SelectedFor(a) => SelectedFor(a)'
           /\ \A i, name : i \in Named(stream, "selection", name) =>
                              i \in Named(stream, "selection", name)'
           /\ \A a : RequestsOf(stream, a) # {} => RequestsOf(stream, a)' # {}
           /\ \A a, outcome : Answered(a, outcome) => Answered(a, outcome)'
<1>1. /\ \A i \in DOMAIN stream : i \in DOMAIN stream' /\ stream'[i] = stream[i]
      /\ \A kind : \A i \in Of(stream, kind) : i \in Of(stream, kind)'
  BY StreamStands
<1>2. \A a : Is(stream, a, "assessment") => Is(stream, a, "assessment")'
  BY <1>1 DEF Is
<1>3. \A a : CallsFor(a) => CallsFor(a)'
  BY <1>1, <1>2 DEF CallsFor, Is
<1>4. ASSUME NEW i, NEW name, i \in Named(stream, "selection", name)
      PROVE  i \in Named(stream, "selection", name)'
  BY <1>1, <1>4 DEF Named, Of
<1>5. ASSUME NEW a, SelectedFor(a) PROVE SelectedFor(a)'
  <2>1. PICK i : i \in Named(stream, "selection", <<"for", a>>)
    BY <1>5 DEF SelectedFor
  <2>2. i \in Named(stream, "selection", <<"for", a>>)'
    BY <1>4, <2>1
  <2> QED
    BY <1>2, <1>5, <2>2 DEF SelectedFor
<1>6. ASSUME NEW a, RequestsOf(stream, a) # {} PROVE RequestsOf(stream, a)' # {}
  <2>1. PICK i : i \in RequestsOf(stream, a)
    BY <1>6
  <2>2. i \in RequestsOf(stream, a)'
    BY <1>1, <2>1 DEF RequestsOf, Of
  <2> QED
    BY <2>2
<1>7. ASSUME NEW a, NEW outcome, Answered(a, outcome) PROVE Answered(a, outcome)'
  <2>1. PICK p \in planned : p.request \in RequestsOf(stream, a) /\ p.answer = outcome
    BY <1>7 DEF Answered
  <2>2. p \in planned' /\ p.request \in RequestsOf(stream, a)'
    BY <1>1, <2>1 DEF RequestsOf, Of
  <2> QED
    BY <2>1, <2>2 DEF Answered
<1> QED
  BY <1>2, <1>3, <1>4, <1>5, <1>6, <1>7

(* So a caller that waits between two steps can go on relying on them.     *)
LEMMA CallStands ==
    ASSUME IsPast(stream), StreamGrows, planned \subseteq planned', NEW v, CallFits(v)
    PROVE  CallFits(v)'
<1>1. v.at = "send" => SendFits(v)'
  <2> SUFFICES ASSUME v.at = "send" PROVE SendFits(v)'
    OBVIOUS
  <2>1. SendFits(v)
    BY DEF CallFits
  <2>2. v.r.kind = "link" =>
           v.r.on.selection \in Named(stream, "selection", <<"for", v.r.on.assessment>>)'
    BY <2>1, FactsStand DEF SendFits
  <2>3. /\ v.r.kind = "request" => CallsFor(v.r.on.assessment)'
        /\ v.then = "bridge" => CallsFor(v.r.on.assessment)'
        /\ v.r.kind = "result" /\ v.r.outcome \in PlannersOwn => Answered(v.r.on.assessment, v.r.outcome)'
    BY <2>1, FactsStand DEF SendFits
  <2>4. v.then = "link" =>
          /\ v.r.kind = "selection"
          /\ \E a : v.r.data = <<"for", a>> /\ Is(stream, a, "assessment")'
    BY <2>1, FactsStand DEF SendFits
  <2> QED
    BY <2>1, <2>2, <2>3, <2>4 DEF SendFits
<1>2. v.at = "link" => \E a : v.on.data = <<"for", a>> /\ SelectedFor(a)'
  BY FactsStand DEF CallFits
<1>3. v.at = "bridge" => CallsFor(v.on.on.assessment)'
  BY FactsStand DEF CallFits
<1>4. v.at = "plan" => RequestsOf(stream, v.on.on.assessment)' # {}
  BY FactsStand DEF CallFits
<1> QED
  BY <1>1, <1>2, <1>3, <1>4 DEF CallFits

(* A caller moves, the others stay where they are.                         *)
Moves(c, v) == call' = [call EXCEPT ![c] = v]

LEMMA CallerMoves ==
    ASSUME IsPast(stream), StreamGrows, planned \subseteq planned', CallsFit,
           NEW c \in Callers, NEW v, Moves(c, v), CallFits(v)'
    PROVE  CallsFit'
<1>1. call' \in [Callers -> {call'[e] : e \in Callers}]
  BY DEF CallsFit, Moves
<1>2. ASSUME NEW e \in Callers PROVE CallFits(call[e])'
  <2>1. PICK w : w = call[e]
    OBVIOUS
  <2>2. CallFits(w)'
    BY <2>1, CallStands DEF CallsFit
  <2>3. CASE e = c
    <3>1. call'[e] = v
      BY <2>3 DEF CallsFit, Moves
    <3> QED
      BY <3>1 DEF CallFits, SendFits, CallsFor, SelectedFor
  <2>4. CASE e # c
    <3>1. call'[e] = w
      BY <2>1, <2>4 DEF CallsFit, Moves
    <3> QED
      BY <2>2, <3>1 DEF CallFits, SendFits, CallsFor, SelectedFor
  <2> QED
    BY <2>3, <2>4
<1> QED
  BY <1>1, <1>2 DEF CallsFit

LEMMA CallersStay ==
    ASSUME IsPast(stream), StreamGrows, planned \subseteq planned', CallsFit, UNCHANGED call
    PROVE  CallsFit'
<1>1. ASSUME NEW e \in Callers PROVE CallFits(call[e])'
  <2>1. PICK w : w = call[e]
    OBVIOUS
  <2>2. CallFits(w)' /\ call'[e] = w
    BY <2>1, CallStands DEF CallsFit
  <2> QED
    BY <2>2 DEF CallFits, SendFits, CallsFor, SelectedFor
<1> QED
  BY <1>1 DEF CallsFit

(* The other parts, when no command is answered and nothing is planned.    *)
LEMMA RestStands ==
    ASSUME IInv, StreamGrows, UNCHANGED <<rows, planned, begun>>,
           \A f : Grows(f) => f.kind # "result"
    PROVE  /\ IsPast(stream)' /\ begun' \in Nat /\ RowsOnRecord' /\ PlannedOnRecord'
           /\ ResultsWereSaid'
<1>1. IsPast(stream)' /\ begun' \in Nat
  BY StreamStands DEF IInv
<1>2. /\ \A i \in DOMAIN stream : i \in DOMAIN stream' /\ stream'[i] = stream[i]
      /\ DOMAIN stream = 1..HeadSeq /\ HeadSeq \in Nat
  BY StreamStands DEF IInv
<1>3. RowsOnRecord'
  <2> SUFFICES ASSUME NEW row \in rows
               PROVE  /\ row.idempotency_key = row.command_id[1]
                      /\ row.answer.ok => \E i \in DOMAIN stream' : Identity(stream'[i]) = row.command_id[1]
    BY DEF RowsOnRecord
  <2>1. row.idempotency_key = row.command_id[1]
    BY DEF IInv, RowsOnRecord
  <2>2. ASSUME row.answer.ok PROVE \E i \in DOMAIN stream' : Identity(stream'[i]) = row.command_id[1]
    <3>1. PICK i \in DOMAIN stream : Identity(stream[i]) = row.command_id[1]
      BY <2>2 DEF IInv, RowsOnRecord
    <3>2. i \in DOMAIN stream' /\ stream'[i] = stream[i]
      BY <1>2
    <3> QED
      BY <3>1, <3>2
  <2> QED
    BY <2>1, <2>2
<1>4. PlannedOnRecord'
  BY <1>2 DEF IInv, PlannedOnRecord, Is
<1>5. ResultsWereSaid'
  <2>1. CASE stream' = stream
    BY <2>1 DEF IInv, ResultsWereSaid, Of, Answered
  <2>2. CASE \E f : MayFollow(stream, f) /\ Grows(f)
    <3>1. PICK f : Grows(f)
      BY <2>2
    <3>2. f.kind # "result"
      BY <3>1
    <3>3. IsStream(stream)' /\ HeadSeq' = HeadSeq + 1 /\ stream'[HeadSeq + 1] = f
      BY <3>1, OneMore, PastShape DEF IInv
    <3>4. (DOMAIN stream)' = 1..(HeadSeq + 1)
      BY <3>3, StreamStands DEF IInv
    <3>5. \A i \in Of(stream, "result")' : i \in Of(stream, "result") /\ stream'[i] = stream[i]
      BY <1>2, <3>2, <3>3, <3>4 DEF Of
    <3>6. ASSUME NEW i \in Of(stream, "result")', NEW w, w = stream'[i], w.outcome \in PlannersOwn
          PROVE  Answered(w.on.assessment, w.outcome)'
      <4>1. Answered(w.on.assessment, w.outcome)
        BY <3>5, <3>6 DEF IInv, ResultsWereSaid
      <4> QED
        BY <4>1, FactsStand DEF IInv
    <3> QED
      BY <3>6 DEF ResultsWereSaid, Of
  <2> QED
    BY <2>1, <2>2 DEF StreamGrows
<1> QED
  BY <1>1, <1>3, <1>4, <1>5

-----------------------------------------------------------------------------
(* A command is sent.                                                      *)

OnStream(id) == \E i \in DOMAIN stream : Identity(stream[i]) = id

(* A command that is known already is answered ok only if a record of its  *)
(* identity is there.                                                      *)
LEMMA OkIsKnown ==
    ASSUME RowsOnRecord, NEW r, NEW tag, NEW seq, IsOk(Envelope(r, tag, seq), r),
           Known(Envelope(r, tag, seq)) \cup KeyOwners(Envelope(r, tag, seq)) # {}
    PROVE  OnStream(Identity(r))
<1> DEFINE cmd == Envelope(r, tag, seq)
<1>1. cmd.command_id[1] = Identity(r) /\ cmd.idempotency_key = Identity(r)
  BY DEF Envelope, Command
<1> HIDE DEF cmd
<1>2. Answer(cmd, Facts(r), "REFUSED").ok
  BY DEF IsOk, cmd
<1>3. ASSUME NEW owners, NEW conflict, owners # {}, StoredAnswer(cmd, owners, conflict).ok
      PROVE  \E row \in owners : row.answer.ok
  <2> DEFINE row == CHOOSE x \in owners : TRUE
  <2>1. row \in owners
    BY <1>3
  <2>2. StoredAnswer(cmd, owners, conflict) =
           IF row.fingerprint = Fingerprint(cmd) THEN row.answer ELSE Rejected(conflict)
    BY DEF StoredAnswer
  <2>3. ~Rejected(conflict).ok
    BY DEF Rejected
  <2> HIDE DEF row
  <2> QED
    BY <1>3, <2>1, <2>2, <2>3
<1>4. CASE Known(cmd) # {}
  <2>1. Answer(cmd, Facts(r), "REFUSED") = StoredAnswer(cmd, Known(cmd), "COMMAND_ID_CONFLICT")
    BY <1>4 DEF Answer
  <2>2. PICK row \in Known(cmd) : row.answer.ok
    BY <1>2, <1>3, <1>4, <2>1
  <2>3. row \in rows /\ row.command_id = cmd.command_id
    BY <2>2 DEF Known
  <2> QED
    BY <1>1, <2>2, <2>3 DEF RowsOnRecord, OnStream
<1>5. CASE Known(cmd) = {}
  <2>1. KeyOwners(cmd) # {}
    BY <1>5 DEF cmd
  <2>2. Answer(cmd, Facts(r), "REFUSED") = StoredAnswer(cmd, KeyOwners(cmd), "IDEMPOTENCY_CONFLICT")
    BY <1>5, <2>1 DEF Answer
  <2>3. PICK row \in KeyOwners(cmd) : row.answer.ok
    BY <1>2, <1>3, <2>1, <2>2
  <2>4. row \in rows /\ row.idempotency_key = cmd.idempotency_key
    BY <2>3 DEF KeyOwners
  <2> QED
    BY <1>1, <2>3, <2>4 DEF RowsOnRecord, OnStream
<1> QED
  BY <1>4, <1>5

(* What is there stays there, and what was answered ok stays on record.    *)
LEMMA RowsStand ==
    ASSUME IsPast(stream), StreamGrows, RowsOnRecord,
           \A row \in rows' : \/ row \in rows
                              \/ /\ row.idempotency_key = row.command_id[1]
                                 /\ row.answer.ok => OnStream(row.command_id[1])'
    PROVE  RowsOnRecord' /\ \A id : OnStream(id) => OnStream(id)'
<1>1. \A i \in DOMAIN stream : i \in DOMAIN stream' /\ stream'[i] = stream[i]
  BY StreamStands
<1>2. ASSUME NEW id, OnStream(id) PROVE OnStream(id)'
  <2>1. PICK i \in DOMAIN stream : Identity(stream[i]) = id
    BY <1>2 DEF OnStream
  <2>2. i \in DOMAIN stream' /\ Identity(stream'[i]) = id
    BY <1>1, <2>1
  <2> QED
    BY <2>2 DEF OnStream
<1>3. ASSUME NEW row \in rows' 
      PROVE  /\ row.idempotency_key = row.command_id[1]
             /\ row.answer.ok => OnStream(row.command_id[1])'
  <2>1. CASE row \in rows
    <3>1. /\ row.idempotency_key = row.command_id[1]
          /\ row.answer.ok => OnStream(row.command_id[1])
      BY <2>1 DEF RowsOnRecord, OnStream
    <3> QED
      BY <1>2, <3>1
  <2> QED
    BY <1>3, <2>1
<1>4. RowsOnRecord'
  BY <1>3 DEF RowsOnRecord, OnStream
<1> QED
  BY <1>2, <1>4

(* The results on record, when a record was added.                         *)
LEMMA ResultsStand ==
    ASSUME IInv, planned \subseteq planned', NEW f, MayFollow(stream, f), Grows(f),
           f.kind = "result" /\ f.outcome \in PlannersOwn => Answered(f.on.assessment, f.outcome)
    PROVE  ResultsWereSaid'
<1>1. StreamGrows
  BY DEF StreamGrows
<1>2. /\ \A i \in DOMAIN stream : stream'[i] = stream[i]
      /\ (DOMAIN stream)' = 1..HeadSeq' /\ DOMAIN stream = 1..HeadSeq
      /\ \A a, outcome : Answered(a, outcome) => Answered(a, outcome)'
  BY <1>1, StreamStands, FactsStand DEF IInv
<1>3. HeadSeq \in Nat /\ HeadSeq' = HeadSeq + 1 /\ stream'[HeadSeq + 1] = f
  BY OneMore, PastShape DEF IInv
<1>4. ASSUME NEW i \in DOMAIN stream', NEW w, w = stream'[i], w.kind = "result", w.outcome \in PlannersOwn
      PROVE  Answered(w.on.assessment, w.outcome)'
  <2>1. CASE i = HeadSeq + 1
    BY <1>2, <1>3, <1>4, <2>1
  <2>2. CASE i # HeadSeq + 1
    <3>1. i \in DOMAIN stream /\ stream[i] = w
      BY <1>2, <1>3, <1>4, <2>2
    <3>2. i \in Of(stream, "result")
      BY <1>4, <3>1 DEF Of
    <3>3. Answered(w.on.assessment, w.outcome)
      BY <1>4, <3>1, <3>2 DEF IInv, ResultsWereSaid
    <3> QED
      BY <1>2, <3>3
  <2> QED
    BY <2>1, <2>2
<1> QED
  BY <1>4 DEF ResultsWereSaid, Of, Answered

LEMMA PlannedStands ==
    ASSUME IsPast(stream), StreamGrows, PlannedOnRecord, UNCHANGED planned
    PROVE  PlannedOnRecord'
<1>1. \A i \in DOMAIN stream : i \in DOMAIN stream' /\ stream'[i] = stream[i]
  BY StreamStands
<1> QED
  BY <1>1 DEF PlannedOnRecord, Is

(* What submitting a command does to the invariant, and what its answer    *)
(* tells the caller.                                                       *)
LEMMA SubmitStands ==
    ASSUME IInv, UNCHANGED <<planned, begun>>, NEW v, SendFits(v), NEW tag, NEW seq,
           Submit(Envelope(v.r, tag, seq), v.r)
    PROVE  /\ StreamGrows
           /\ IsPast(stream)' /\ begun' \in Nat /\ RowsOnRecord' /\ PlannedOnRecord' /\ ResultsWereSaid'
           /\ IsOk(Envelope(v.r, tag, seq), v.r) => OnStream(Identity(v.r))'
<1> DEFINE r == v.r
           cmd == Envelope(r, tag, seq)
           ok == IsOk(cmd, r)
           f == Computed(stream, r)
<1>1. /\ IsPast(stream) /\ RowsOnRecord /\ PlannedOnRecord /\ ResultsWereSaid /\ begun' \in Nat
      /\ IsStream(stream)
  BY PastShape DEF IInv
<1>2. cmd.command_id[1] = Identity(r) /\ cmd.idempotency_key = Identity(r)
  BY DEF Envelope, Command
<1>3. \/ UNCHANGED log /\ (ok => Known(cmd) \cup KeyOwners(cmd) # {})
      \/ ~ok /\ \E code : rows' = rows \cup {Row(cmd, Rejected(code))} /\ stream' = stream
      \/ Stored(r) /\ \E n : rows' = rows \cup {Row(cmd, Accepted(n))}
  BY <1>1, SubmitOutcomes
<1>4. /\ r.kind = "link" => r.on.selection \in Named(stream, "selection", <<"for", r.on.assessment>>)
      /\ r.kind = "request" => stream[r.on.assessment].outcome = "SELECTION_REVISION_REQUIRED"
      /\ r.kind = "result" /\ r.outcome \in PlannersOwn => Answered(r.on.assessment, r.outcome)
  BY DEF SendFits, CallsFor
<1>5. ok /\ Known(cmd) \cup KeyOwners(cmd) # {} => OnStream(Identity(r))
  BY <1>1, OkIsKnown
<1>6. \A answer : /\ Row(cmd, answer).idempotency_key = Row(cmd, answer).command_id[1]
                  /\ Row(cmd, answer).command_id[1] = Identity(r)
                  /\ Row(cmd, answer).answer = answer
  BY <1>2 DEF Row
<1> HIDE DEF cmd, ok
<1>7. CASE stream' = stream /\ \/ UNCHANGED log /\ (ok => Known(cmd) \cup KeyOwners(cmd) # {})
                               \/ ~ok /\ \E code : rows' = rows \cup {Row(cmd, Rejected(code))}
  <2>1. StreamGrows
    BY <1>7 DEF StreamGrows
  <2>2. \A row \in rows' : row \in rows \/ /\ row.idempotency_key = row.command_id[1]
                                           /\ row.answer.ok => OnStream(row.command_id[1])'
    <3>1. CASE rows' = rows
      BY <3>1
    <3>2. CASE \E code : rows' = rows \cup {Row(cmd, Rejected(code))}
      <4>1. PICK code : rows' = rows \cup {Row(cmd, Rejected(code))}
        BY <3>2
      <4>2. ~Rejected(code).ok
        BY DEF Rejected
      <4> QED
        BY <1>6, <4>1, <4>2
    <3> QED
      BY <1>7, <3>1, <3>2 DEF log
  <2>3. RowsOnRecord' /\ \A id : OnStream(id) => OnStream(id)'
    BY <1>1, <2>1, <2>2, RowsStand
  <2>4. PlannedOnRecord' /\ IsPast(stream)'
    BY <1>1, <2>1, PlannedStands, StreamStands
  <2>5. ResultsWereSaid'
    BY <1>1, <1>7 DEF ResultsWereSaid, Of, Answered
  <2>6. ok => OnStream(Identity(r))'
    BY <1>5, <1>7, <2>3
  <2> QED
    BY <1>1, <2>1, <2>3, <2>4, <2>5, <2>6 DEF ok, cmd
<1>8. CASE Stored(r) /\ \E n : rows' = rows \cup {Row(cmd, Accepted(n))}
  <2>1. May(stream, r) /\ Takes(stream, f) /\ Grows(f)
    BY <1>8 DEF Stored
  <2>2. /\ May(stream, f) /\ f = Computed(stream, f) /\ Takes(stream, f)
        /\ f.kind = r.kind /\ f.on = r.on /\ f.data = r.data /\ Identity(f) = Identity(r)
        /\ r.kind \in CampaignKinds \cup ImpactKinds => f = r
    BY <2>1, StoredMayFollow
  <2> HIDE DEF f, r
  <2>3. MayFollow(stream, f)
    BY <1>4, <2>2 DEF MayFollow
  <2>4. StreamGrows
    BY <2>1, <2>3 DEF StreamGrows
  <2>5. OnStream(Identity(r))'
    <3>1. stream'[HeadSeq + 1] = f /\ HeadSeq + 1 = HeadSeq' /\ HeadSeq \in Nat
      BY <1>1, <2>1, OneMore
    <3>2. HeadSeq + 1 \in DOMAIN stream'
      BY <1>1, <2>4, <3>1, StreamStands
    <3> QED
      BY <2>2, <3>1, <3>2 DEF OnStream
  <2>6. \A row \in rows' : row \in rows \/ /\ row.idempotency_key = row.command_id[1]
                                           /\ row.answer.ok => OnStream(row.command_id[1])'
    BY <1>6, <1>8, <2>5
  <2>7. RowsOnRecord'
    BY <1>1, <2>4, <2>6, RowsStand
  <2>8. PlannedOnRecord' /\ IsPast(stream)'
    BY <1>1, <2>4, PlannedStands, StreamStands
  <2>9. ResultsWereSaid'
    <3>1. f.kind = "result" => f = r
      BY <2>2 DEF ImpactKinds
    <3>2. f.kind = "result" /\ f.outcome \in PlannersOwn => Answered(f.on.assessment, f.outcome)
      BY <1>4, <3>1
    <3> QED
      BY <2>1, <2>3, <3>2, ResultsStand
  <2> QED
    BY <1>1, <2>4, <2>5, <2>7, <2>8, <2>9 DEF r
<1> QED
  BY <1>3, <1>7, <1>8 DEF log

-----------------------------------------------------------------------------
(* The steps that leave the Mission as it is.                              *)

LEMMA QuietStands ==
    ASSUME IInv, UNCHANGED <<log, planned, begun>>
    PROVE  /\ IsPast(stream)' /\ begun' \in Nat /\ RowsOnRecord' /\ PlannedOnRecord' /\ ResultsWereSaid'
           /\ StreamGrows
<1>1. stream' = stream /\ rows' = rows /\ planned' = planned /\ begun' = begun
  BY DEF log
<1>2. StreamGrows
  BY <1>1 DEF StreamGrows
<1>3. IsPast(stream)'
  BY <1>2, StreamStands DEF IInv
<1>4. RowsOnRecord' /\ PlannedOnRecord' /\ ResultsWereSaid'
  BY <1>1 DEF IInv, RowsOnRecord, PlannedOnRecord, ResultsWereSaid, Is, Of, Answered
<1> QED
  BY <1>1, <1>2, <1>3, <1>4 DEF IInv

LEMMA QuietMove ==
    ASSUME IInv, UNCHANGED <<log, planned, begun>>, NEW c \in Callers, NEW v, Moves(c, v), CallFits(v)
    PROVE  IInv'
<1>1. /\ IsPast(stream)' /\ begun' \in Nat /\ RowsOnRecord' /\ PlannedOnRecord' /\ ResultsWereSaid'
      /\ StreamGrows
  BY QuietStands
<1>2. IsPast(stream) /\ CallsFit /\ planned \subseteq planned'
  BY DEF IInv
<1>3. CallFits(v)'
  BY <1>1, <1>2, CallStands
<1>4. CallsFit'
  BY <1>1, <1>2, <1>3, CallerMoves
<1> QED
  BY <1>1, <1>4 DEF IInv

LEMMA IdleFits == CallFits(Idle)
BY DEF CallFits, Idle

(* What is to be sent next, and where it leads.                            *)
LEMMA SendingIs ==
    ASSUME NEW r, NEW tag, NEW then, NEW head, NEW v, v = Sending(r, tag, then, head)
    PROVE  /\ v.at = "send" /\ v.r = r /\ v.then = then
           /\ SendFits(v) => CallFits(v)
<1>1. v.at = "send" /\ v.r = r /\ v.then = then
  BY DEF Sending
<1>2. SendFits(v) => CallFits(v)
  BY <1>1 DEF CallFits
<1> QED
  BY <1>1, <1>2

(* What is chosen from a set is in it.                                     *)
LEMMA OneOf ==
    ASSUME NEW set, set # {}
    PROVE  TheOne(set) \in set
<1>1. \E i \in set : TRUE
  OBVIOUS
<1>2. (CHOOSE i \in set : TRUE) \in set
  BY <1>1, Zenon
<1> QED
  BY <1>2 DEF TheOne

LEMMA LookStands ==
    ASSUME IInv, NEW c \in Callers, NEW r, NEW tag, Look(c, r, tag)
    PROVE  IInv'
<1>1. r.kind # "link" /\ r.kind # "request" /\ r.kind # "result"
  BY DEF Look, Sensible, OwnKinds
<1>2. PICK v : v = Sending(r, tag, "idle", HeadSeq)
  OBVIOUS
<1>3. v.r = r /\ v.then = "idle" /\ (SendFits(v) => CallFits(v))
  BY <1>2, SendingIs
<1>4. CallFits(v)
  BY <1>1, <1>3 DEF SendFits
<1>5. Moves(c, v) /\ UNCHANGED <<log, planned, begun>>
  BY <1>2 DEF Look, Go, Moves
<1> QED
  BY <1>4, <1>5, QuietMove

LEMMA DieStands ==
    ASSUME IInv, NEW c \in Callers, Die(c)
    PROVE  IInv'
<1>1. Moves(c, Idle) /\ UNCHANGED <<log, planned, begun>>
  BY DEF Die, Go, Moves
<1> QED
  BY <1>1, IdleFits, QuietMove

LEMMA ContinueStands ==
    ASSUME IInv, NEW c \in Callers, NEW a \in Of(stream, "assessment"), Continue(c, a)
    PROVE  IInv'
<1>1. Is(stream, a, "assessment")
  BY DEF Of, Is
<1>2. UNCHANGED <<log, planned, begun>>
  BY DEF Continue
<1>3. CASE Go(c, Sending(OwnSelection(a), First, "link", HeadSeq))
  <2>1. OwnSelection(a).kind = "selection" /\ OwnSelection(a).data = <<"for", a>>
    BY DEF OwnSelection, Selection, Record
  <2>2. PICK r : r = OwnSelection(a)
    OBVIOUS
  <2>3. PICK v : v = Sending(r, First, "link", HeadSeq)
    OBVIOUS
  <2>4. CallFits(v)
    <3>1. v.r = r /\ v.then = "link" /\ (SendFits(v) => CallFits(v))
      BY <2>3, SendingIs
    <3> QED
      BY <1>1, <2>1, <2>2, <3>1 DEF SendFits
  <2> QED
    BY <1>2, <1>3, <2>2, <2>3, <2>4, QuietMove DEF Go, Moves
<1>4. CASE /\ Linked(a) # {} /\ ToBridge(a) = "bridge"
           /\ Go(c, [at |-> "bridge", on |-> stream[TheOne(Linked(a))]])
  <2>1. stream[TheOne(Linked(a))].on.assessment = a
    BY <1>4, OneOf DEF Linked
  <2>2. CallsFor(a)
    BY <1>1, <1>4 DEF CallsFor, ToBridge
  <2>3. PICK v : v = [at |-> "bridge", on |-> stream[TheOne(Linked(a))]]
    OBVIOUS
  <2>4. CallFits(v)
    BY <2>1, <2>2, <2>3 DEF CallFits
  <2> QED
    BY <1>2, <1>4, <2>3, <2>4, QuietMove DEF Go, Moves
<1> QED
  BY <1>3, <1>4 DEF Continue

LEMMA LinkUpStands ==
    ASSUME IInv, NEW c \in Callers, LinkUp(c)
    PROVE  IInv'
<1>1. PICK w : w = call[c]
  OBVIOUS
<1>2. CallFits(w) /\ w.at = "link"
  BY <1>1 DEF LinkUp, IInv, CallsFit
<1>3. PICK a : w.on.data = <<"for", a>> /\ SelectedFor(a)
  BY <1>2 DEF CallFits
<1>4. PICK r : r = Link(a, stream[a].on.campaign, TheOne(Named(stream, "selection", <<"for", a>>)))
  OBVIOUS
<1>5. PICK v : v = Sending(r, First, ToBridge(a), HeadSeq)
  OBVIOUS
<1>6. w.on.data[2] = a
  BY <1>3
<1>7. Moves(c, v) /\ UNCHANGED <<log, planned, begun>>
  BY <1>1, <1>4, <1>5, <1>6 DEF LinkUp, Go, Moves
<1>8. /\ r.kind = "link" /\ r.on.assessment = a
      /\ r.on.selection \in Named(stream, "selection", <<"for", a>>)
  <2>1. TheOne(Named(stream, "selection", <<"for", a>>)) \in Named(stream, "selection", <<"for", a>>)
    BY <1>3, OneOf DEF SelectedFor
  <2> QED
    BY <1>4, <2>1 DEF Link, Record
<1>9. ToBridge(a) \in {"idle", "bridge"} /\ (ToBridge(a) = "bridge" => CallsFor(a))
  BY <1>3 DEF ToBridge, CallsFor, SelectedFor
<1>10. CallFits(v)
  <2>1. v.r = r /\ v.then = ToBridge(a) /\ (SendFits(v) => CallFits(v))
    BY <1>5, SendingIs
  <2> QED
    BY <1>8, <1>9, <2>1 DEF SendFits
<1> QED
  BY <1>7, <1>10, QuietMove

(* What is recorded without asking the planner is not the planner's own.   *)
LEMMA ResultNotOwn ==
    ASSUME IInv, NEW c \in Callers, UNCHANGED <<log, planned, begun>>,
           NEW a, NEW input, NEW answer, answer \notin PlannersOwn,
           Go(c, Sending(BridgeResult(a, input, answer), First, "idle", HeadSeq))
    PROVE  IInv'
<1>1. PICK r : r = BridgeResult(a, input, answer)
  OBVIOUS
<1>2. r.kind = "result" /\ r.outcome = answer
  BY <1>1 DEF BridgeResult, Record
<1>3. PICK v : v = Sending(r, First, "idle", HeadSeq)
  OBVIOUS
<1>4. CallFits(v)
  <2>1. v.r = r /\ v.then = "idle" /\ (SendFits(v) => CallFits(v))
    BY <1>3, SendingIs
  <2> QED
    BY <1>2, <2>1 DEF SendFits
<1> QED
  BY <1>1, <1>3, <1>4, QuietMove DEF Go, Moves

LEMMA StumbleStands ==
    ASSUME IInv, NEW c \in Callers, Stumble(c)
    PROVE  IInv'
<1>1. PICK request, answer :
         /\ answer \in {WithoutGoal, Unanswered}
         /\ Go(c, Sending(BridgeResult(request.on.assessment, request.on.input, answer),
                          First, "idle", HeadSeq))
  BY DEF Stumble
<1>2. answer \notin PlannersOwn
  BY <1>1 DEF WithoutGoal, Unanswered, PlannersOwn
<1>3. UNCHANGED <<log, planned, begun>>
  BY DEF Stumble
<1> QED
  BY <1>1, <1>2, <1>3, ResultNotOwn

LEMMA BridgeStands ==
    ASSUME IInv, NEW c \in Callers, Bridge(c)
    PROVE  IInv'
<1>1. PICK w : w = call[c]
  OBVIOUS
<1>2. CallFits(w) /\ w.at = "bridge"
  BY <1>1 DEF Bridge, IInv, CallsFit
<1>3. PICK a : a = w.on.on.assessment
  OBVIOUS
<1>4. CallsFor(a)
  BY <1>2, <1>3 DEF CallFits
<1>5. UNCHANGED <<log, planned, begun>>
  BY DEF Bridge
<1>6. PICK prior : prior = TheOne(RequestsOf(stream, a))
  OBVIOUS
<1>7. PICK given \in {0} \cup Of(stream, "goal") :
       LET input == IF given = 0 THEN ActiveGoal ELSE given
           Result(answer) == Sending(BridgeResult(a, stream[prior].on.input, answer), First, "idle", HeadSeq)
           asked == BridgeRequest(a, w.on.on.selection, input)
       IN  \/ Go(c, Idle)
           \/ Go(c, Sending(asked, First, "plan", HeadSeq))
           \/ prior # 0 /\ Go(c, Result("R2_RESULT_CONFLICT"))
           \/ prior # 0 /\ Go(c, Result("R2_REJECTED"))
           \/ prior # 0 /\ Go(c, [at |-> "plan", on |-> asked])
  BY <1>1, <1>3, <1>6 DEF Bridge, WithoutGoal
<1>8. PICK input : input = IF given = 0 THEN ActiveGoal ELSE given
  OBVIOUS
<1>9. PICK asked : asked = BridgeRequest(a, w.on.on.selection, input)
  OBVIOUS
<1>10. asked.kind = "request" /\ asked.on.assessment = a
  BY <1>9 DEF BridgeRequest, Record
<1>11. CASE Go(c, Idle)
  BY <1>5, <1>11, IdleFits, QuietMove DEF Go, Moves
<1>12. CASE Go(c, Sending(asked, First, "plan", HeadSeq))
  <2>1. PICK v : v = Sending(asked, First, "plan", HeadSeq)
    OBVIOUS
  <2>2. CallFits(v)
    <3>1. v.r = asked /\ v.then = "plan" /\ (SendFits(v) => CallFits(v))
      BY <2>1, SendingIs
    <3> QED
      BY <1>4, <1>10, <3>1 DEF SendFits
  <2> QED
    BY <1>5, <1>12, <2>1, <2>2, QuietMove DEF Go, Moves
<1>13. ASSUME NEW answer, answer \notin PlannersOwn,
              Go(c, Sending(BridgeResult(a, stream[prior].on.input, answer), First, "idle", HeadSeq))
       PROVE  IInv'
  BY <1>5, <1>13, ResultNotOwn
<1>14. CASE prior # 0 /\ Go(c, [at |-> "plan", on |-> asked])
  <2>1. RequestsOf(stream, a) # {}
    BY <1>6, <1>14 DEF TheOne
  <2>2. PICK v : v = [at |-> "plan", on |-> asked]
    OBVIOUS
  <2>3. CallFits(v)
    BY <1>10, <2>1, <2>2 DEF CallFits
  <2> QED
    BY <1>5, <1>14, <2>2, <2>3, QuietMove DEF Go, Moves
<1>15. "R2_RESULT_CONFLICT" \notin PlannersOwn /\ "R2_REJECTED" \notin PlannersOwn
  BY DEF PlannersOwn
<1> QED
  BY <1>7, <1>8, <1>9, <1>11, <1>12, <1>13, <1>14, <1>15

-----------------------------------------------------------------------------
(* The steps that add to what is recorded, or planned.                     *)

LEMMA PlanStands ==
    ASSUME IInv, NEW c \in Callers, Plan(c)
    PROVE  IInv'
<1>1. PICK w : w = call[c]
  OBVIOUS
<1>2. RequestsOf(stream, w.on.on.assessment) # {}
  BY <1>1 DEF Plan, IInv, CallsFit, CallFits
<1>3. PICK answer :
        LET a       == call[c].on.on.assessment
            request == TheOne(RequestsOf(stream, a))
        IN  /\ planned' = planned \cup {[request |-> request, answer |-> answer]}
            /\ Go(c, Sending(BridgeResult(a, stream[request].on.input, answer), First, "idle", HeadSeq))
  BY DEF Plan
<1>4. PICK a, request : a = w.on.on.assessment /\ request = TheOne(RequestsOf(stream, a))
  OBVIOUS
<1>5. PICK p : p = [request |-> request, answer |-> answer]
  OBVIOUS
<1>6. PICK r : r = BridgeResult(a, stream[request].on.input, answer)
  OBVIOUS
<1>7. PICK v : v = Sending(r, First, "idle", HeadSeq)
  OBVIOUS
<1>8. /\ planned' = planned \cup {p} /\ Moves(c, v)
      /\ stream' = stream /\ rows' = rows /\ begun' = begun
  BY <1>1, <1>3, <1>4, <1>5, <1>6, <1>7 DEF Plan, Go, Moves, log
<1>9. IsPast(stream) /\ CallsFit /\ StreamGrows /\ planned \subseteq planned'
  BY <1>8 DEF IInv, StreamGrows
<1>10. IsPast(stream)' /\ begun' \in Nat /\ RowsOnRecord'
  BY <1>8, <1>9, StreamStands DEF IInv, RowsOnRecord
<1>11. PlannedOnRecord'
  <2>1. request \in RequestsOf(stream, a)
    BY <1>2, <1>4, OneOf
  <2>2. Is(stream, p.request, "request")
    BY <1>5, <2>1 DEF RequestsOf, Of, Is
  <2> QED
    BY <1>8, <2>2 DEF IInv, PlannedOnRecord, Is
<1>12. ResultsWereSaid'
  BY <1>8 DEF IInv, ResultsWereSaid, Of, Answered
<1>13. CallFits(v)'
  <2>1. v.r = r /\ v.then = "idle" /\ v.at = "send"
    BY <1>7, SendingIs
  <2>2. r.kind = "result" /\ r.on.assessment = a /\ r.outcome = answer
    BY <1>6 DEF BridgeResult, Record
  <2>3. p.request \in RequestsOf(stream, a) /\ p.answer = answer
    BY <1>2, <1>4, <1>5, OneOf
  <2>4. Answered(a, answer)'
    BY <1>8, <2>3 DEF Answered
  <2>5. SendFits(v)'
    BY <2>1, <2>2, <2>4 DEF SendFits
  <2> QED
    BY <2>1, <2>5 DEF CallFits
<1>14. CallsFit'
  BY <1>8, <1>9, <1>13, CallerMoves
<1> QED
  BY <1>10, <1>11, <1>12, <1>14 DEF IInv

LEMMA GoalChangesStands ==
    ASSUME IInv, GoalChanges
    PROVE  IInv'
<1>1. PICK state : stream' = Append(stream, Record("goal", [none |-> 0], state, "none", "none", 0))
  BY DEF GoalChanges
<1>2. PICK f : f = Record("goal", [none |-> 0], state, "none", "none", 0)
  OBVIOUS
<1>3. f.kind = "goal" /\ Grows(f)
  BY <1>1, <1>2 DEF Grows, Record
<1>4. MayFollow(stream, f)
  BY <1>3 DEF MayFollow
<1>5. IsPast(stream) /\ CallsFit /\ StreamGrows /\ planned' = planned /\ rows' = rows
      /\ begun' = begun /\ call' = call
  BY <1>3, <1>4 DEF IInv, StreamGrows, GoalChanges
<1>6. ASSUME NEW g, Grows(g) PROVE g.kind # "result"
  <2>1. IsStream(stream)
    BY <1>5, PastShape
  <2>2. stream'[HeadSeq + 1] = f
    BY <1>3, <2>1, OneMore
  <2>3. stream'[HeadSeq + 1] = g
    BY <1>6, <2>1, OneMore
  <2> QED
    BY <1>3, <2>2, <2>3
<1>7. /\ IsPast(stream)' /\ begun' \in Nat /\ RowsOnRecord' /\ PlannedOnRecord'
      /\ ResultsWereSaid'
  BY <1>5, <1>6, RestStands
<1>8. CallsFit'
  BY <1>5, CallersStay
<1> QED
  BY <1>7, <1>8 DEF IInv

LEMMA SendStands ==
    ASSUME IInv, NEW c \in Callers, Send(c)
    PROVE  IInv'
<1>1. PICK v : v = call[c]
  OBVIOUS
<1>2. SendFits(v)
  BY <1>1 DEF Send, IInv, CallsFit, CallFits
<1>3. PICK seq \in call[c].since..HeadSeq :
        LET cmd == Envelope(call[c].r, call[c].tag, seq)
        IN  /\ Submit(cmd, call[c].r)
            /\ Go(c, IF Stops(c, cmd) THEN Idle ELSE Within(c))
  BY DEF Send
<1>4. PICK cmd : cmd = Envelope(v.r, v.tag, seq)
  OBVIOUS
<1>5. PICK place : place = IF Stops(c, cmd) THEN Idle ELSE Within(c)
  OBVIOUS
<1>6. Submit(cmd, v.r) /\ Moves(c, place) /\ planned' = planned /\ begun' = begun
  BY <1>1, <1>3, <1>4, <1>5 DEF Send, Go, Moves
<1>7. /\ StreamGrows
      /\ IsPast(stream)' /\ begun' \in Nat /\ RowsOnRecord' /\ PlannedOnRecord' /\ ResultsWereSaid'
      /\ IsOk(cmd, v.r) => OnStream(Identity(v.r))'
  BY <1>2, <1>4, <1>6, SubmitStands
<1>8. IsPast(stream) /\ CallsFit /\ planned \subseteq planned'
  BY <1>6 DEF IInv
<1>9. CallFits(place)'
  <2>1. CASE place = Idle
    BY <2>1 DEF CallFits, Idle
  <2>2. CASE ~Stops(c, cmd)
    <3>1. place.at = v.then /\ place.on = v.r
      BY <1>1, <1>5, <2>2 DEF Within
    <3>2. v.then # "idle" /\ (v.then \in {"link", "plan"} => IsOk(cmd, v.r))
      BY <1>1, <2>2 DEF Stops
    <3>3. v.then \in {"link", "bridge", "plan"}
      BY <1>2, <3>2 DEF SendFits
    <3>4. CASE v.then = "link"
      <4>1. PICK a : v.r.kind = "selection" /\ v.r.data = <<"for", a>> /\ Is(stream, a, "assessment")
        BY <1>2, <3>4 DEF SendFits
      <4>2. OnStream(Identity(v.r))'
        BY <1>7, <3>2, <3>4
      <4>3. Named(stream, "selection", <<"for", a>>)' # {}
        <5>1. PICK r : r = v.r
          OBVIOUS
        <5>2. PICK s : s = stream'
          OBVIOUS
        <5>3. PICK i \in DOMAIN s : Identity(s[i]) = Identity(r)
          BY <4>2, <5>1, <5>2 DEF OnStream
        <5>4. s[i].kind = "selection" /\ s[i].data = <<"for", a>>
          BY <4>1, <5>1, <5>3, IdentityTells
        <5> QED
          BY <5>2, <5>3, <5>4 DEF Named, Of
      <4>4. Is(stream, a, "assessment")'
        BY <1>7, <1>8, <4>1, FactsStand
      <4> QED
        BY <3>1, <3>4, <4>1, <4>3, <4>4 DEF CallFits, SelectedFor
    <3>5. CASE v.then = "bridge"
      <4>1. CallsFor(v.r.on.assessment)
        BY <1>2, <3>5 DEF SendFits
      <4>2. CallsFor(v.r.on.assessment)'
        BY <1>7, <1>8, <4>1, FactsStand
      <4> QED
        BY <3>1, <3>5, <4>2 DEF CallFits
    <3>6. CASE v.then = "plan"
      <4>1. v.r.kind = "request"
        BY <1>2, <3>6 DEF SendFits
      <4>2. OnStream(Identity(v.r))'
        BY <1>7, <3>2, <3>6
      <4>3. RequestsOf(stream, v.r.on.assessment)' # {}
        <5>1. PICK r : r = v.r
          OBVIOUS
        <5>2. PICK s : s = stream'
          OBVIOUS
        <5>3. PICK i \in DOMAIN s : Identity(s[i]) = Identity(r)
          BY <4>2, <5>1, <5>2 DEF OnStream
        <5>4. s[i].kind = "request" /\ s[i].on.assessment = r.on.assessment
          BY <4>1, <5>1, <5>3, IdentityTells
        <5> QED
          BY <5>1, <5>2, <5>3, <5>4 DEF RequestsOf, Of
      <4> QED
        BY <3>1, <3>6, <4>3 DEF CallFits
    <3> QED
      BY <3>3, <3>4, <3>5, <3>6
  <2> QED
    BY <1>5, <2>1, <2>2
<1>10. CallsFit'
  BY <1>6, <1>7, <1>8, <1>9, CallerMoves
<1> QED
  BY <1>7, <1>10 DEF IInv

-----------------------------------------------------------------------------
(* The invariant of the whole.                                             *)

LEMMA BeginningStands ==
    ASSUME CycleAssumption, Init
    PROVE  IInv
<1>1. PICK b \in Beginnings :
        /\ rows = {} /\ stream = b.stream
        /\ begun = Len(b.stream) /\ limit = Len(b.stream) + b.room
        /\ call = [c \in Callers |-> Idle]
        /\ planned = {}
  BY DEF Init
<1>2. IsPast(stream) /\ begun \in Nat
  BY <1>1, PastShape DEF CycleAssumption
<1>3. RowsOnRecord /\ PlannedOnRecord
  BY <1>1 DEF RowsOnRecord, PlannedOnRecord
<1>4. CallsFit
  <2>1. \A c \in Callers : call[c] = Idle
    BY <1>1
  <2>2. call \in [Callers -> {call[c] : c \in Callers}]
    BY <1>1
  <2> QED
    BY <2>1, <2>2, IdleFits DEF CallsFit
<1>5. ResultsWereSaid
  BY <1>1 DEF CycleAssumption, ResultsWereSaid
<1> QED
  BY <1>2, <1>3, <1>4, <1>5 DEF IInv

(* Every step of every caller, and of other components, keeps the          *)
(* invariant.                                                              *)
LEMMA StepStands ==
    ASSUME IInv, [Next]_vars
    PROVE  IInv'
<1>1. CASE GoalChanges
  BY <1>1, GoalChangesStands
<1>2. ASSUME NEW c \in Callers, Step(c) PROVE IInv'
  <2>1. ASSUME NEW r, NEW tag, Look(c, r, tag) PROVE IInv'
    BY <2>1, LookStands
  <2>2. ASSUME NEW a \in Of(stream, "assessment"), Continue(c, a) PROVE IInv'
    BY <2>2, ContinueStands
  <2>3. CASE Send(c)
    BY <2>3, SendStands
  <2>4. CASE LinkUp(c)
    BY <2>4, LinkUpStands
  <2>5. CASE Bridge(c)
    BY <2>5, BridgeStands
  <2>6. CASE Plan(c)
    BY <2>6, PlanStands
  <2>7. CASE Stumble(c)
    BY <2>7, StumbleStands
  <2>8. CASE Die(c)
    BY <2>8, DieStands
  <2> QED
    BY <1>2, <2>1, <2>2, <2>3, <2>4, <2>5, <2>6, <2>7, <2>8 DEF Step
<1>3. CASE UNCHANGED vars
  <2>1. UNCHANGED <<log, planned, begun>> /\ UNCHANGED call
    BY <1>3 DEF vars
  <2>2. /\ IsPast(stream)' /\ begun' \in Nat /\ RowsOnRecord' /\ PlannedOnRecord' /\ ResultsWereSaid'
        /\ StreamGrows
    BY <2>1, QuietStands
  <2>3. IsPast(stream) /\ CallsFit /\ planned \subseteq planned'
    BY <2>1 DEF IInv
  <2>4. CallsFit'
    BY <2>1, <2>2, <2>3, CallersStay
  <2> QED
    BY <2>2, <2>4 DEF IInv
<1> QED
  BY <1>1, <1>2, <1>3 DEF Next

(* What the Mission holds came about by the rules, every caller relies on  *)
(* what is there, and the planner was asked, and its answers are recorded, *)
(* as the records say.                                                     *)
THEOREM CycleInvariant == Spec => []IInv
<1>1. Init => IInv
  BY CycleAssumption, BeginningStands
<1>2. IInv /\ [Next]_vars => IInv'
  BY StepStands
<1> QED
  BY <1>1, <1>2, PTL DEF Spec

-----------------------------------------------------------------------------
(* What the invariant comes to.                                           *)

(* A request rests on a link, and the link names the selection made for    *)
(* the same assessment.                                                    *)
LEMMA PlannerWasAsked ==
    ASSUME IInv
    PROVE  PlannerAskedOnRecord
<1> SUFFICES ASSUME NEW p \in planned
             PROVE  /\ Is(stream, p.request, "request")
                    /\ LET a == stream[p.request].on.assessment
                       IN  /\ stream[a].outcome = "SELECTION_REVISION_REQUIRED"
                           /\ Is(stream, stream[p.request].on.selection, "selection")
                           /\ stream[stream[p.request].on.selection].data = <<"for", a>>
  BY DEF PlannerAskedOnRecord
<1> DEFINE i == p.request
           a == stream[i].on.assessment
<1>1. Is(stream, i, "request") /\ IsPast(stream)
  BY DEF IInv, PlannedOnRecord
<1>2. i \in Of(stream, "request")
  BY <1>1 DEF Is, Of
<1>3. /\ stream[a].outcome = "SELECTION_REVISION_REQUIRED"
      /\ \E l \in Of(stream, "link") : /\ stream[l].on.assessment = a
                                       /\ stream[l].on.selection = stream[i].on.selection
  BY <1>1, <1>2, RequestsMay
<1>4. PICK l \in Of(stream, "link") : /\ stream[l].on.assessment = a
                                      /\ stream[l].on.selection = stream[i].on.selection
  BY <1>3
<1>5. stream[l].on.selection \in Named(stream, "selection", <<"for", stream[l].on.assessment>>)
  BY <1>1, LinksMay
<1>6. stream[i].on.selection \in Named(stream, "selection", <<"for", a>>)
  BY <1>4, <1>5
<1>7. Is(stream, stream[i].on.selection, "selection")
      /\ stream[stream[i].on.selection].data = <<"for", a>>
  BY <1>6 DEF Named, Of, Is
<1> QED
  BY <1>1, <1>3, <1>7

(* The reducer takes one result for a request; the rest is in the          *)
(* invariant.                                                              *)
LEMMA ResultsWereAnswered ==
    ASSUME IInv
    PROVE  ResultsAreAnswers
<1>1. IsPast(stream) /\ DOMAIN stream = 1..Len(stream) /\ Len(stream) \in Nat
  BY PastShape DEF IInv
<1>2. ASSUME NEW i \in Of(stream, "result")
      PROVE  ResultsOf(stream, stream[i].on.assessment) = {i}
  <2>1. ASSUME NEW j \in Of(stream, "result"), stream[j].on.assessment = stream[i].on.assessment
        PROVE  j = i
    <3>1. ~(j < i)
      BY <1>1, <2>1, ResultsMay
    <3>2. ~(i < j)
      BY <1>1, <2>1, ResultsMay
    <3>3. i \in Nat /\ j \in Nat
      BY <1>1 DEF Of
    <3> QED
      BY <3>1, <3>2, <3>3
  <2> QED
    BY <2>1 DEF ResultsOf
<1>3. ResultsWereSaid
  BY DEF IInv
<1> QED
  BY <1>2, <1>3 DEF ResultsAreAnswers, ResultsWereSaid, Answered

(* OneResultPerIntent: R45ResumeBridge and the handler of r4_5 never let   *)
(* two receipts of one intent report different results, whoever reports at *)
(* once.                                                                   *)
THEOREM ResultsAgree == Spec => []OneResultPerIntent
<1>1. IInv => OneResultPerIntent
  BY ReceiptsAgree DEF IInv
<1> QED
  BY <1>1, CycleInvariant, PTL

(* ResumesAreAuthorized: a receipt of r4_5 leads, record by record and     *)
(* each before the next, to an ELIGIBLE assessment under the gate that     *)
(* authorizes it.                                                          *)
THEOREM ResumesWereAuthorized == Spec => []ResumesAreAuthorized
<1>1. IInv => ResumesAreAuthorized
  BY ReceiptsAreBacked DEF IInv
<1> QED
  BY <1>1, CycleInvariant, PTL

(* NoRevival: for current_resolution of r4_5 no new record makes a         *)
(* readiness active again that was not, and a conflict ends by a           *)
(* disposition only.                                                       *)
THEOREM NothingRevives == Spec => []NoRevival
<1>1. IInv => NoRevival
  BY NothingIsRevived, PastShape DEF IInv
<1> QED
  BY <1>1, CycleInvariant, PTL

(* CampaignsDoNotFork: what r4_1 records as revisions of a campaign's      *)
(* selection, for whomever, is one line.                                   *)
THEOREM OneLine == Spec => []CampaignsDoNotFork
<1>1. IInv => CampaignsDoNotFork
  BY RevisionsAreOneLine DEF IInv
<1> QED
  BY <1>1, CycleInvariant, PTL

(* PlannerAskedOnRecord: continue_r2_bridge of r4_2 asks the planner only  *)
(* with its request on record, for an assessment that calls for it and the *)
(* selection made for that, from wherever an earlier attempt got.          *)
THEOREM AskedOnRecord == Spec => []PlannerAskedOnRecord
<1>1. IInv => PlannerAskedOnRecord
  BY PlannerWasAsked
<1> QED
  BY <1>1, CycleInvariant, PTL

(* ResultsAreAnswers: r4_2 records one result for a request, and says that *)
(* a plan was revised, or is to stay, only when the planner answered so,   *)
(* whatever fails between the two (continue_r2_bridge).                    *)
THEOREM PlannerSaidSo == Spec => []ResultsAreAnswers
<1>1. IInv => ResultsAreAnswers
  BY ResultsWereAnswered
<1> QED
  BY <1>1, CycleInvariant, PTL

(* FixesAreProven: a validation of r4_4 rests on detections at its target, *)
(* no two of which saw different digests last of one deployment, and       *)
(* completes with all cases run and the last answer of r3.                 *)
THEOREM FixesHold == Spec => []FixesAreProven
<1>1. IInv => FixesAreProven
  BY FixesWereProven DEF IInv
<1> QED
  BY <1>1, CycleInvariant, PTL

-----------------------------------------------------------------------------
(* The closed loop: the cycles a stream leads to, event by event.          *)

NoCycles == [c \in Cycles |-> NoCycle]

(* One event on the cycles.                                                *)
ReplayStep(cs, ev) ==
    IF cs = Broken \/ ~EventFits(cs[ev.body.cycle], ev) THEN Broken
    ELSE [cs EXCEPT ![ev.body.cycle] = ReduceCycle(@, ev)]

Unfolds(f, events) ==
    f = [n \in 0..Len(events) |-> IF n = 0 THEN NoCycles ELSE ReplayStep(f[n - 1], events[n])]

(* There is a function that unfolds as the replay does, ...                *)
LEMMA ReplayExists ==
    ASSUME NEW events, Len(events) \in Nat
    PROVE  \E f : Unfolds(f, events)
<1> DEFINE Good(n) == \E f : f = [k \in 0..n |-> IF k = 0 THEN NoCycles
                                                 ELSE ReplayStep(f[k - 1], events[k])]
           S == {n \in Nat : Good(n)}
<1>1. 0 \in S
  <2>1. [k \in 0..0 |-> NoCycles] = [k \in 0..0 |-> IF k = 0 THEN NoCycles
                                       ELSE ReplayStep([j \in 0..0 |-> NoCycles][k - 1], events[k])]
    OBVIOUS
  <2> QED
    BY <2>1
<1>2. ASSUME NEW n \in Nat, Good(n) PROVE Good(n + 1)
  <2>1. PICK f : f = [k \in 0..n |-> IF k = 0 THEN NoCycles
                                     ELSE ReplayStep(f[k - 1], events[k])]
    BY <1>2
  <2> DEFINE g == [k \in 0..(n + 1) |-> IF k <= n THEN f[k] ELSE ReplayStep(f[n], events[n + 1])]
  <2>2. g = [k \in 0..(n + 1) |-> IF k = 0 THEN NoCycles ELSE ReplayStep(g[k - 1], events[k])]
    <3>1. ASSUME NEW k \in 0..(n + 1)
          PROVE  g[k] = IF k = 0 THEN NoCycles ELSE ReplayStep(g[k - 1], events[k])
      <4>1. CASE k = 0
        BY <2>1, <4>1
      <4>2. CASE k \in 1..n
        <5>1. g[k] = f[k] /\ g[k - 1] = f[k - 1] /\ k \in 0..n
          BY <4>2
        <5> QED
          BY <2>1, <4>2, <5>1
      <4>3. CASE k = n + 1
        <5>1. g[k] = ReplayStep(f[n], events[n + 1]) /\ g[k - 1] = f[n]
          BY <4>3
        <5> QED
          BY <4>3, <5>1
      <4> QED
        BY <4>1, <4>2, <4>3
    <3> QED
      BY <3>1
  <2> HIDE DEF g
  <2> QED
    BY <2>2
<1>3. \A n \in Nat : n \in S => n + 1 \in S
  BY <1>2
<1>4. Nat \subseteq S
  <2> HIDE DEF S
  <2> QED
    BY <1>1, <1>3, NatSetInduction
<1> QED
  BY <1>4 DEF Unfolds

(* ... so the replay is one.                                               *)
LEMMA ReplayUnfolds ==
    ASSUME NEW events, Len(events) \in Nat
    PROVE  \E f : Unfolds(f, events) /\ Replay(events) = f[Len(events)]
<1> DEFINE h == CHOOSE f : Unfolds(f, events)
<1>1. Unfolds(h, events)
  BY ReplayExists
<1>2. Replay(events) = h[Len(events)]
  BY DEF Replay, Unfolds, ReplayStep, NoCycles
<1> QED
  BY <1>1, <1>2

(* Of no events, the replay knows no cycle.                                *)
LEMMA ReplayEmpty == Replay(<< >>) = NoCycles
<1>1. Len(<< >>) = 0
  OBVIOUS
<1>2. PICK f : Unfolds(f, << >>) /\ Replay(<< >>) = f[0]
  BY <1>1, ReplayUnfolds
<1> QED
  BY <1>1, <1>2 DEF Unfolds

(* The reducer makes of one event more one step more.                      *)
LEMMA ReplayAppended ==
    ASSUME NEW s, IsStream(s), NEW e
    PROVE  Replay(Append(s, e)) = ReplayStep(Replay(s), e)
<1> DEFINE N == Len(s)
           t == Append(s, e)
<1>1. N \in Nat /\ Len(t) = N + 1 /\ t[N + 1] = e /\ \A i \in 1..N : t[i] = s[i]
  BY StreamShape, AppendedStream
<1>2. PICK f : Unfolds(f, s) /\ Replay(s) = f[N]
  BY <1>1, ReplayUnfolds
<1> HIDE DEF N, t
<1>3. PICK g : Unfolds(g, t) /\ Replay(t) = g[Len(t)]
  <2>1. Len(t) \in Nat
    BY <1>1
  <2> QED
    BY <2>1, ReplayUnfolds
<1> DEFINE S == {n \in Nat : n <= N => f[n] = g[n]}
<1>4. \A n \in 0..N : f[n] = IF n = 0 THEN NoCycles ELSE ReplayStep(f[n - 1], s[n])
  BY <1>2 DEF Unfolds, N
<1>5. \A n \in 0..(N + 1) : g[n] = IF n = 0 THEN NoCycles ELSE ReplayStep(g[n - 1], t[n])
  BY <1>1, <1>3 DEF Unfolds
<1>6. 0 \in S
  BY <1>1, <1>4, <1>5
<1>7. ASSUME NEW n \in Nat, n \in S PROVE n + 1 \in S
  <2> SUFFICES ASSUME n + 1 <= N PROVE f[n + 1] = g[n + 1]
    OBVIOUS
  <2>1. f[n] = g[n] /\ n + 1 \in 0..N /\ n + 1 \in 0..(N + 1) /\ s[n + 1] = t[n + 1]
    BY <1>1, <1>7
  <2> QED
    BY <1>4, <1>5, <2>1
<1>8. Nat \subseteq S
  <2> HIDE DEF S
  <2> QED
    BY <1>6, <1>7, NatSetInduction
<1>9. f[N] = g[N] /\ N + 1 \in 0..(N + 1)
  BY <1>1, <1>8
<1> QED
  BY <1>1, <1>2, <1>3, <1>5, <1>9 DEF t

-----------------------------------------------------------------------------
(* The handlers.                                                           *)

(* A call leads to at most one event, and the event says what was called.  *)
EventOf(ask, ev) ==
    /\ ev.type = "cycle.closed" => ask.type = "close" /\ ev.body.cycle = ask.cycle
    /\ ev.type = "action.received" =>
          /\ ask.type = "receipt"
          /\ ev.body.cycle = ask.cycle /\ ev.body.operation = ask.operation
          /\ ev.body.result = ask.result

(* A handler proposes nothing, or one event about the cycle it was asked   *)
(* for that fits the cycle as it is.                                       *)
LEMMA FactsShape ==
    ASSUME NEW cs, NEW ask
    PROVE  \/ LoopFacts(cs, ask) = << >>
           \/ \E ev : /\ LoopFacts(cs, ask) = <<ev>>
                       /\ EventOf(ask, ev)
                       /\ ev.body.cycle = ask.cycle
                       /\ EventFits(cs[ask.cycle], ev)
<1> DEFINE cycle == cs[ask.cycle]
           Fine(facts) == facts = << >> \/ \E ev : /\ facts = <<ev>> /\ EventOf(ask, ev)
                                                    /\ ev.body.cycle = ask.cycle
                                                    /\ EventFits(cycle, ev)
<1>1. CASE ask.type = "register"
  <2>1. LoopFacts(cs, ask) = IF cycle = NoCycle
                          THEN << Event("cycle.registered", [cycle |-> ask.cycle]) >> ELSE << >>
    BY <1>1 DEF LoopFacts
  <2> QED
    BY <2>1 DEF Event, EventOf, EventFits
<1>2. CASE ask.type = "observe"
  <2>1. LoopFacts(cs, ask) = Observation(cycle, ask)
    BY <1>2 DEF LoopFacts
  <2> QED
    BY <2>1 DEF Observation, Open, Event, EventOf, EventFits
<1>3. CASE ask.type = "request"
  <2>1. LoopFacts(cs, ask) = Request(cycle, ask)
    BY <1>3 DEF LoopFacts
  <2> QED
    BY <2>1 DEF Request, Open, Event, EventOf, EventFits
<1>4. CASE ask.type = "receipt"
  <2>1. LoopFacts(cs, ask) = AuthorityReceipt(cycle, ask)
    BY <1>4 DEF LoopFacts
  <2> QED
    BY <1>4, <2>1 DEF AuthorityReceipt, Event, EventOf, EventFits
<1>5. CASE ask.type = "reentry"
  <2>1. LoopFacts(cs, ask) = Reentry(cycle, ask)
    BY <1>5 DEF LoopFacts
  <2> QED
    BY <2>1 DEF Reentry, Open, Event, EventOf, EventFits
<1>6. CASE ask.type = "waiting"
  <2>1. LoopFacts(cs, ask) = IF cycle # NoCycle
                          THEN << Event("cycle.waiting", [cycle |-> ask.cycle]) >> ELSE << >>
    BY <1>6 DEF LoopFacts
  <2> QED
    BY <2>1 DEF Event, EventOf, EventFits
<1>7. CASE ask.type = "close"
  <2>1. LoopFacts(cs, ask) = IF Open(cycle)
                          THEN << Event("cycle.closed", [cycle |-> ask.cycle]) >> ELSE << >>
    BY <1>7 DEF LoopFacts
  <2> QED
    BY <1>7, <2>1 DEF Open, Event, EventOf, EventFits
<1>8. CASE ask.type \notin {"register", "observe", "request", "receipt", "reentry", "waiting",
                            "close"}
  BY <1>8 DEF LoopFacts
<1> QED
  BY <1>1, <1>2, <1>3, <1>4, <1>5, <1>6, <1>7, <1>8

-----------------------------------------------------------------------------
(* The invariant.                                                          *)

(* The calls, and the seq a named one goes by.                             *)
CallsOK ==
    /\ calls = [p \in LoopCallers |-> calls[p]]
    /\ \A p \in LoopCallers :
          \/ calls[p] = NoCall
          \/ /\ calls[p] \in [pc : {"read", "send"}, call : {calls[p].call},
                              named : BOOLEAN, seq : 0..HeadSeq]
             /\ calls[p].named => calls[p].pc = "send"

(* A named command was accepted for an event that is in the stream.        *)
NamedRowsAreBehind ==
    \A row \in rows : row.command_id.given # NoId /\ row.answer.ok
                         => row.answer.last_seq \in 1..HeadSeq

EarnedAt(c, m) ==
    LET cycle == CyclesAt(m)[c]
    IN  /\ cycle # NoCycle /\ cycle.phase \in ClosablePhases
        /\ AnsweredWith(cycle, "R3_7", {"APPLIED"})
        /\ AnsweredWith(cycle, "R4_5", {"APPLIED"})
StillOpenAt(c, o, result, m) ==
    LET before == CyclesAt(m)[c].operations[o]
    IN  before.status \notin Final /\ ~Older(result, before)

(* A call that is under way was found in order at an instant that is past; *)
(* the instant is the one it names, if it names any.                       *)
Checked(x) ==
    /\ x.call.type = "close" =>
          /\ \E m \in 1..HeadSeq : EarnedAt(x.call.cycle, m)
          /\ x.named => EarnedAt(x.call.cycle, x.seq)
    /\ x.call.type = "receipt" /\ x.named =>
          StillOpenAt(x.call.cycle, x.call.operation, x.call.result, x.seq)
ChecksStand == \A p \in LoopCallers : calls[p] # NoCall => Checked(calls[p])

(* The reducer takes every event on the cycles the ones before it lead to. *)
EveryEventFits ==
    \A n \in 1..HeadSeq : EventFits(CyclesAt(n - 1)[stream[n].body.cycle], stream[n])

ClosureAt(n) ==
    stream[n].type = "cycle.closed" =>
        /\ \E m \in 1..(n - 1) : EarnedAt(stream[n].body.cycle, m)
        /\ NamedBy(n) => EarnedAt(stream[n].body.cycle, n - 1)
AnswerAt(n) ==
    stream[n].type = "action.received" /\ NamedBy(n) =>
        StillOpenAt(stream[n].body.cycle, stream[n].body.operation, stream[n].body.result, n - 1)

LInv ==
    /\ IsStream(stream)
    /\ CallsOK
    /\ NamedRowsAreBehind
    /\ ChecksStand
    /\ EveryEventFits
    /\ \A n \in 1..HeadSeq : ClosureAt(n) /\ AnswerAt(n)

(* The invariant says what the runs check.                                 *)
LEMMA LInvImplies == LInv => ClosuresWereEarned /\ FinalAnswersStand
BY DEF LInv, ClosuresWereEarned, FinalAnswersStand, ClosureAt, AnswerAt, EarnedAt, StillOpenAt

(* What was so of the first n events stays so.                             *)
LEMMA PastStands ==
    ASSUME IsStream(stream), stream' = stream \/ \E ev : stream' = Append(stream, ev),
           NEW h, h = HeadSeq
    PROVE  /\ IsStream(stream)' /\ h \in Nat /\ HeadSeq' \in {h, h + 1}
           /\ \A n \in 1..h : stream'[n] = stream[n]
           /\ \A n \in 0..h : CyclesAt(n)' = CyclesAt(n)
           /\ \A n \in 0..h : \A c : EarnedAt(c, n)' <=> EarnedAt(c, n)
           /\ \A n \in 0..h : \A c, o, result :
                 StillOpenAt(c, o, result, n)' <=> StillOpenAt(c, o, result, n)
           /\ \A x : x.seq \in 0..h /\ Checked(x) => Checked(x)'
<1>1. h \in Nat /\ h = Len(stream)
  BY StreamShape DEF HeadSeq
<1>2. /\ IsStream(stream') /\ Len(stream') \in {h, h + 1}
      /\ \A n \in 1..h : stream'[n] = stream[n]
      /\ \A n \in 0..h : SubSeq(stream', 1, n) = SubSeq(stream, 1, n)
  <2>1. CASE stream' = stream
    BY <1>1, <2>1
  <2>2. ASSUME NEW ev, stream' = Append(stream, ev)
        PROVE  /\ IsStream(stream') /\ Len(stream') \in {h, h + 1}
               /\ \A n \in 1..h : stream'[n] = stream[n]
               /\ \A n \in 0..h : SubSeq(stream', 1, n) = SubSeq(stream, 1, n)
    BY <1>1, <2>2, AppendedStream
  <2> QED
    BY <2>1, <2>2
<1>3. \A n \in 0..h : CyclesAt(n)' = CyclesAt(n)
  BY <1>2 DEF CyclesAt
<1>4. \A n \in 0..h : \A c : EarnedAt(c, n)' <=> EarnedAt(c, n)
  BY <1>3 DEF EarnedAt
<1>5. \A n \in 0..h : \A c, o, result :
          StillOpenAt(c, o, result, n)' <=> StillOpenAt(c, o, result, n)
  BY <1>3 DEF StillOpenAt
<1>6. HeadSeq' \in {h, h + 1}
  BY <1>2 DEF HeadSeq
<1>7. ASSUME NEW x, x.seq \in 0..h, Checked(x) PROVE Checked(x)'
  <2>1. x.call.type = "close" =>
           /\ \E m \in 1..h : EarnedAt(x.call.cycle, m)
           /\ x.named => EarnedAt(x.call.cycle, x.seq)
    BY <1>7 DEF Checked
  <2>2. x.call.type = "close" =>
           /\ \E m \in 1..HeadSeq' : EarnedAt(x.call.cycle, m)'
           /\ x.named => EarnedAt(x.call.cycle, x.seq)'
    BY <1>1, <1>4, <1>6, <1>7, <2>1
  <2>3. x.call.type = "receipt" /\ x.named =>
           StillOpenAt(x.call.cycle, x.call.operation, x.call.result, x.seq)'
    BY <1>5, <1>7 DEF Checked
  <2> QED
    BY <2>2, <2>3 DEF Checked
<1> QED
  BY <1>1, <1>2, <1>3, <1>4, <1>5, <1>6, <1>7

(* A step that leaves the log as it is.                                    *)
LEMMA QuietStep ==
    ASSUME LInv, UNCHANGED log
    PROVE  /\ IsStream(stream)' /\ HeadSeq' = HeadSeq /\ NamedRowsAreBehind' /\ EveryEventFits'
           /\ (\A n \in 1..HeadSeq : ClosureAt(n) /\ AnswerAt(n))'
<1>1. stream' = stream /\ rows' = rows /\ HeadSeq' = HeadSeq
  BY DEF log, HeadSeq
<1>2. NamedRowsAreBehind' /\ EveryEventFits'
  BY <1>1 DEF LInv, NamedRowsAreBehind, EveryEventFits, CyclesAt
<1>3. \A n : (ClosureAt(n)' <=> ClosureAt(n)) /\ (AnswerAt(n)' <=> AnswerAt(n))
  BY <1>1 DEF ClosureAt, AnswerAt, EarnedAt, StillOpenAt, CyclesAt, NamedBy
<1> QED
  BY <1>1, <1>2, <1>3 DEF LInv

-----------------------------------------------------------------------------
(* The steps.                                                              *)

(* The steps of a call: the cycle is read, ...                             *)
LEMMA ReadCycleInv ==
    ASSUME LInv, NEW p \in LoopCallers, ReadCycle(p)
    PROVE  LInv'
<1>0. PICK h : h = HeadSeq
  OBVIOUS
<1>1. PICK c \in Cycles :
         \E ask \in CallsOn(c, CyclesNow[c]), named \in BOOLEAN :
            /\ Sends(CyclesNow[c], ask)
            /\ calls' = [calls EXCEPT ![p] =
                  [pc |-> IF named THEN "send" ELSE "read", call |-> ask, named |-> named,
                   seq |-> IF named THEN h ELSE 0]]
  BY <1>0 DEF ReadCycle
<1>2. PICK ask \in CallsOn(c, CyclesNow[c]), named \in BOOLEAN :
         /\ Sends(CyclesNow[c], ask)
         /\ calls' = [calls EXCEPT ![p] =
               [pc |-> IF named THEN "send" ELSE "read", call |-> ask, named |-> named,
                seq |-> IF named THEN h ELSE 0]]
  BY <1>1
<1>3. UNCHANGED log /\ stream' = stream /\ IsStream(stream)
  BY DEF ReadCycle, log, LInv
<1>4. h \in Nat /\ HeadSeq' = h /\ \A x : x.seq \in 0..h /\ Checked(x) => Checked(x)'
  BY <1>0, <1>3, PastStands DEF HeadSeq
<1>5. PICK x : x = [pc |-> IF named THEN "send" ELSE "read", call |-> ask, named |-> named,
                    seq |-> IF named THEN h ELSE 0]
  OBVIOUS
<1>6. /\ calls' = [q \in LoopCallers |-> calls'[q]] /\ calls'[p] = x
      /\ \A q \in LoopCallers : q # p => calls'[q] = calls[q]
  BY <1>2, <1>5 DEF LInv, CallsOK
<1>7. x.seq \in 0..h
  BY <1>4, <1>5
<1>8. CallsOK'
  BY <1>0, <1>4, <1>5, <1>6, <1>7 DEF LInv, CallsOK
<1>9. CyclesNow = CyclesAt(h)
  BY <1>0, <1>3, StreamShape DEF CyclesNow, CyclesAt, HeadSeq
<1>10. Checked(x)
  <2>1. ASSUME ask.type = "close" PROVE EarnedAt(c, h) /\ h # 0 /\ ask.cycle = c
    <3>1. ask.cycle = c /\ CyclesNow[c] # NoCycle
      BY <2>1 DEF CallsOn
    <3>2. Closable(CyclesNow[c])
      BY <1>2, <2>1 DEF Sends
    <3>3. EarnedAt(c, h)
      BY <1>9, <3>1, <3>2 DEF EarnedAt, Closable, RequiredAuthorities
    <3>4. ASSUME h = 0 PROVE FALSE
      <4>1. stream = << >>
        BY <1>0, <1>3, <3>4, EmptyStream DEF HeadSeq
      <4> QED
        BY <3>1, <4>1, ReplayEmpty DEF CyclesNow, NoCycles
    <3> QED
      BY <3>1, <3>3, <3>4
  <2>2. ASSUME ask.type = "receipt"
        PROVE  StillOpenAt(ask.cycle, ask.operation, ask.result, h)
    <3>1. ask.cycle = c
      BY <2>2 DEF CallsOn
    <3>2. Acceptable(CyclesNow[c], ask.operation, ask.result)
      BY <1>2, <2>2 DEF Sends
    <3> QED
      BY <1>9, <3>1, <3>2 DEF StillOpenAt, Acceptable
  <2>3. x.call = ask /\ x.named = named /\ (named => x.seq = h)
    BY <1>5
  <2> QED
    BY <1>0, <1>4, <2>1, <2>2, <2>3 DEF Checked
<1>11. ChecksStand'
  <2> SUFFICES ASSUME NEW q \in LoopCallers, NEW y, y = calls'[q], y # NoCall
               PROVE  Checked(y)'
    BY DEF ChecksStand
  <2>1. CASE q = p
    BY <1>4, <1>6, <1>7, <1>10, <2>1
  <2>2. CASE q # p
    <3>1. y = calls[q] /\ y.seq \in 0..h /\ Checked(y)
      BY <1>0, <1>6, <2>2 DEF LInv, ChecksStand, CallsOK
    <3> QED
      BY <1>4, <3>1
  <2> QED
    BY <2>1, <2>2
<1> QED
  BY <1>3, <1>8, <1>11, QuietStep DEF LInv

(* ... then the head, ...                                                  *)
LEMMA ReadHeadInv ==
    ASSUME LInv, NEW p \in LoopCallers, ReadHead(p)
    PROVE  LInv'
<1>0. PICK h : h = HeadSeq
  OBVIOUS
<1>1. /\ calls[p].pc = "read"
      /\ calls' = [calls EXCEPT ![p].pc = "send", ![p].seq = h]
      /\ UNCHANGED log /\ stream' = stream /\ IsStream(stream)
  BY <1>0 DEF ReadHead, log, LInv
<1>2. h \in Nat /\ HeadSeq' = h /\ \A x : x.seq \in 0..h /\ Checked(x) => Checked(x)'
  BY <1>0, <1>1, PastStands DEF HeadSeq
<1>3. PICK r : r = calls[p]
  OBVIOUS
<1>4. PICK ask : r \in [pc : {"read"}, call : {ask}, named : {FALSE}, seq : 0..h]
  <2>1. PICK ask : ask = r.call
    OBVIOUS
  <2>2. r # NoCall /\ r.pc = "read"
    BY <1>1, <1>3 DEF NoCall
  <2>3. r \in [pc : {"read", "send"}, call : {ask}, named : BOOLEAN, seq : 0..h]
        /\ (r.named => r.pc = "send")
    BY <1>0, <1>3, <2>1, <2>2 DEF LInv, CallsOK
  <2> QED
    BY <2>2, <2>3
<1>5. PICK x : /\ x = [r EXCEPT !.pc = "send", !.seq = h]
               /\ x \in [pc : {"send"}, call : {ask}, named : {FALSE}, seq : {h}]
  <2>1. [r EXCEPT !.pc = "send", !.seq = h]
           \in [pc : {"send"}, call : {ask}, named : {FALSE}, seq : {h}]
    BY <1>4
  <2> QED
    BY <2>1
<1>6. /\ calls' = [q \in LoopCallers |-> calls'[q]] /\ calls'[p] = x
      /\ \A q \in LoopCallers : q # p => calls'[q] = calls[q]
  BY <1>1, <1>3, <1>5 DEF LInv, CallsOK
<1>7. CallsOK'
  <2> SUFFICES ASSUME NEW q \in LoopCallers, NEW y, y = calls'[q], y # NoCall
               PROVE  /\ y \in [pc : {"read", "send"}, call : {y.call},
                                named : BOOLEAN, seq : 0..h]
                      /\ y.named => y.pc = "send"
    BY <1>2, <1>6 DEF CallsOK
  <2>1. CASE q = p
    <3>1. y = x /\ h \in 0..h
      BY <1>2, <1>6, <2>1
    <3>2. y \in [pc : {"send"}, call : {ask}, named : {FALSE}, seq : {h}]
      BY <1>5, <3>1
    <3>3. y.call = ask /\ y.named = FALSE
      BY <3>2
    <3> QED
      BY <3>1, <3>2, <3>3
  <2>2. CASE q # p
    BY <1>0, <1>6, <2>2 DEF LInv, CallsOK
  <2> QED
    BY <2>1, <2>2
<1>8. x.seq \in 0..h /\ Checked(x)
  <2>1. Checked(r)
    <3>1. r # NoCall
      BY <1>4 DEF NoCall
    <3> QED
      BY <1>3, <3>1 DEF LInv, ChecksStand
  <2>2. x.call = r.call /\ x.named = FALSE /\ x.seq = h
    BY <1>4, <1>5
  <2> QED
    BY <1>2, <2>1, <2>2 DEF Checked
<1>9. ChecksStand'
  <2> SUFFICES ASSUME NEW q \in LoopCallers, NEW y, y = calls'[q], y # NoCall
               PROVE  Checked(y)'
    BY DEF ChecksStand
  <2>1. CASE q = p
    BY <1>2, <1>6, <1>8, <2>1
  <2>2. CASE q # p
    <3>1. y = calls[q] /\ y.seq \in 0..h /\ Checked(y)
      BY <1>0, <1>6, <2>2 DEF LInv, ChecksStand, CallsOK
    <3> QED
      BY <1>2, <3>1
  <2> QED
    BY <2>1, <2>2
<1> QED
  BY <1>1, <1>7, <1>9, QuietStep DEF LInv

(* ... and the command is sent, which is where the stream may grow.        *)
LEMMA SendInv ==
    ASSUME LInv, NEW p \in LoopCallers, LoopSend(p)
    PROVE  LInv'
<1>0. PICK h : h = HeadSeq
  OBVIOUS
<1>1. PICK x : x = calls[p]
  OBVIOUS
<1>2. PICK cmd : cmd = LoopCommand(x.call, x.named, x.seq)
  OBVIOUS
<1>3. /\ x.pc = "send" /\ Execute(cmd, LoopFacts(CyclesNow, x.call), "R4_8_REFUSED")
      /\ calls' = [calls EXCEPT ![p] = NoCall]
  BY <1>1, <1>2 DEF LoopSend
<1>4. /\ calls' = [q \in LoopCallers |-> calls'[q]] /\ calls'[p] = NoCall
      /\ \A q \in LoopCallers : q # p => calls'[q] = calls[q]
  BY <1>3 DEF LInv, CallsOK
<1>5. x.named \in BOOLEAN /\ x.seq \in 0..h /\ Checked(x)
  <2>1. x # NoCall
    BY <1>3 DEF NoCall
  <2> QED
    BY <1>0, <1>1, <2>1 DEF LInv, CallsOK, ChecksStand
<1>6. cmd.expected_seq = x.seq /\ (cmd.command_id.given # NoId => x.named)
  BY <1>2, <1>5 DEF LoopCommand, Command
<1>7. \/ UNCHANGED log
      \/ \E code : rows' = rows \cup {Row(cmd, Rejected(code))} /\ stream' = stream
      \/ \E ev : /\ cmd.expected_seq = h
                  /\ rows' = rows \cup {Row(cmd, Accepted(h + 1))}
                  /\ stream' = Append(stream, ev)
                  /\ EventOf(x.call, ev) /\ EventFits(CyclesNow[ev.body.cycle], ev)
  <2> DEFINE facts == LoopFacts(CyclesNow, x.call)
  <2>1. facts = << >> \/ \E ev : /\ facts = <<ev>> /\ EventOf(x.call, ev)
                                  /\ EventFits(CyclesNow[ev.body.cycle], ev)
    BY FactsShape
  <2>2. \A ev : stream \o <<ev>> = Append(stream, ev) /\ Len(<<ev>>) = 1
    BY AppendedStream DEF LInv
  <2> HIDE DEF facts
  <2>3. Execute(cmd, facts, "R4_8_REFUSED")
    BY <1>3 DEF facts
  <2> QED
    BY <1>0, <2>1, <2>2, <2>3, ExecuteOutcomes
<1>8. stream' = stream \/ \E ev : stream' = Append(stream, ev)
  BY <1>7 DEF log
<1>9. /\ h \in Nat /\ HeadSeq' \in {h, h + 1} /\ IsStream(stream)'
      /\ \A n \in 1..h : stream'[n] = stream[n]
      /\ \A n \in 0..h : CyclesAt(n)' = CyclesAt(n)
      /\ \A n \in 0..h : \A d : EarnedAt(d, n)' <=> EarnedAt(d, n)
      /\ \A n \in 0..h : \A d, o, result :
            StillOpenAt(d, o, result, n)' <=> StillOpenAt(d, o, result, n)
      /\ \A y : y.seq \in 0..h /\ Checked(y) => Checked(y)'
  BY <1>0, <1>8, PastStands DEF LInv
<1>10. CallsOK'
  BY <1>0, <1>4, <1>9 DEF LInv, CallsOK
<1>11. ChecksStand'
  <2> SUFFICES ASSUME NEW q \in LoopCallers, NEW y, y = calls'[q], y # NoCall
               PROVE  Checked(y)'
    BY DEF ChecksStand
  <2>1. y = calls[q] /\ y.seq \in 0..h /\ Checked(y)
    BY <1>0, <1>4 DEF LInv, ChecksStand, CallsOK
  <2> QED
    BY <1>9, <2>1
<1>12. CASE UNCHANGED log
  BY <1>10, <1>11, <1>12, QuietStep DEF LInv
<1>13. ASSUME NEW code, rows' = rows \cup {Row(cmd, Rejected(code))}, stream' = stream
       PROVE  LInv'
  <2>1. HeadSeq' = h
    BY <1>0, <1>13 DEF HeadSeq
  <2>2. \A n : NamedBy(n)' => NamedBy(n)
    BY <1>13 DEF NamedBy, Row, Accepted, Rejected
  <2>3. NamedRowsAreBehind'
    BY <1>0, <1>13, <2>1 DEF LInv, NamedRowsAreBehind, Row, Rejected
  <2>4. EveryEventFits'
    BY <1>0, <1>13, <2>1 DEF LInv, EveryEventFits, CyclesAt
  <2>5. \A n \in 1..h : ClosureAt(n)' /\ AnswerAt(n)'
    BY <1>0, <1>13, <2>2 DEF LInv, ClosureAt, AnswerAt, EarnedAt, StillOpenAt, CyclesAt
  <2> QED
    BY <1>9, <1>10, <1>11, <2>1, <2>3, <2>4, <2>5 DEF LInv
<1>14. ASSUME NEW ev, cmd.expected_seq = h,
              rows' = rows \cup {Row(cmd, Accepted(h + 1))},
              stream' = Append(stream, ev),
              EventOf(x.call, ev), EventFits(CyclesNow[ev.body.cycle], ev)
       PROVE  LInv'
  <2>1. HeadSeq' = h + 1 /\ stream'[h + 1] = ev
    BY <1>0, <1>14, AppendedStream DEF LInv, HeadSeq
  <2>2. CyclesNow = CyclesAt(h)
    BY <1>0, StreamShape DEF CyclesNow, CyclesAt, HeadSeq, LInv
  <2>3. x.seq = h
    BY <1>6, <1>14
  <2>4. \A row \in rows : row.command_id.given # NoId /\ row.answer.ok
                             => row.answer.last_seq \in 1..h
    BY <1>0 DEF LInv, NamedRowsAreBehind
  <2>5. \A row \in rows' :
           row \in rows \/ (row.command_id = cmd.command_id /\ row.answer = Accepted(h + 1))
    BY <1>14 DEF Row
  <2>6. NamedRowsAreBehind'
    BY <1>9, <2>1, <2>4, <2>5 DEF NamedRowsAreBehind, Accepted
  <2>7. \A n \in 1..h : NamedBy(n)' => NamedBy(n)
    BY <1>9, <2>5 DEF NamedBy, Accepted
  <2>8. NamedBy(h + 1)' => x.named
    <3> SUFFICES ASSUME NEW row \in rows', row.answer = Accepted(h + 1),
                        row.command_id.given # NoId
                 PROVE  x.named
      BY DEF NamedBy
    <3>1. row \notin rows
      BY <1>9, <2>4 DEF Accepted
    <3> QED
      BY <1>6, <2>5, <3>1
  <2>9. EveryEventFits'
    <3> SUFFICES ASSUME NEW n \in 1..(h + 1)
                 PROVE  EventFits(CyclesAt(n - 1)'[stream'[n].body.cycle], stream'[n])
      BY <2>1 DEF EveryEventFits
    <3>1. CASE n \in 1..h
      <4>1. stream'[n] = stream[n] /\ CyclesAt(n - 1)' = CyclesAt(n - 1)
        BY <1>9, <3>1
      <4> QED
        BY <1>0, <3>1, <4>1 DEF LInv, EveryEventFits
    <3>2. CASE n = h + 1
      <4>1. CyclesAt(h)' = CyclesNow /\ n - 1 = h
        BY <1>9, <2>2, <3>2
      <4> QED
        BY <1>14, <2>1, <3>2, <4>1
    <3> QED
      BY <1>9, <3>1, <3>2
  <2>10. ASSUME NEW n \in 1..h PROVE ClosureAt(n)' /\ AnswerAt(n)'
    <3>1. ClosureAt(n) /\ AnswerAt(n)
      BY <1>0 DEF LInv
    <3>2. stream'[n] = stream[n] /\ n - 1 \in 0..h /\ 1..(n - 1) \subseteq 0..h
      BY <1>9
    <3> QED
      BY <1>9, <2>7, <3>1, <3>2 DEF ClosureAt, AnswerAt
  <2>11. h + 1 - 1 = h /\ h \in 0..h /\ 1..h \subseteq 0..h
    BY <1>9
  <2>12. ClosureAt(h + 1)'
    <3> SUFFICES ASSUME ev.type = "cycle.closed"
                 PROVE  /\ \E m \in 1..h : EarnedAt(ev.body.cycle, m)'
                        /\ NamedBy(h + 1)' => EarnedAt(ev.body.cycle, h)'
      BY <2>1, <2>11 DEF ClosureAt
    <3>1. x.call.type = "close" /\ ev.body.cycle = x.call.cycle
      BY <1>14 DEF EventOf
    <3>2. (\E m \in 1..h : EarnedAt(x.call.cycle, m)) /\ (x.named => EarnedAt(x.call.cycle, h))
      BY <1>0, <1>5, <2>3, <3>1 DEF Checked
    <3> QED
      BY <1>9, <2>8, <2>11, <3>1, <3>2
  <2>13. AnswerAt(h + 1)'
    <3> SUFFICES ASSUME ev.type = "action.received", NamedBy(h + 1)'
                 PROVE  StillOpenAt(ev.body.cycle, ev.body.operation, ev.body.result, h)'
      BY <2>1, <2>11 DEF AnswerAt
    <3>1. /\ x.call.type = "receipt" /\ ev.body.cycle = x.call.cycle
          /\ ev.body.operation = x.call.operation /\ ev.body.result = x.call.result
      BY <1>14 DEF EventOf
    <3>2. StillOpenAt(x.call.cycle, x.call.operation, x.call.result, h)
      BY <1>5, <2>3, <2>8, <3>1 DEF Checked
    <3> QED
      BY <1>9, <2>11, <3>1, <3>2
  <2>14. \A n \in 1..(h + 1) : n \in 1..h \/ n = h + 1
    BY <1>9
  <2>15. (\A n \in 1..HeadSeq : ClosureAt(n) /\ AnswerAt(n))'
    BY <2>1, <2>10, <2>12, <2>13, <2>14
  <2> QED
    BY <1>9, <1>10, <1>11, <2>6, <2>9, <2>15 DEF LInv
<1> QED
  BY <1>7, <1>12, <1>13, <1>14

-----------------------------------------------------------------------------
(* The past: it is made by the handlers, and closes nothing.               *)

PastUnfolds(f) ==
    f = [n \in 0..Len(Past) |-> IF n = 0 THEN << >>
                                ELSE f[n - 1] \o LoopFacts(Replay(f[n - 1]), Past[n])]

(* The stream with which the log begins.                                   *)
LEMMA PastExists == \E f : PastUnfolds(f)
<1> DEFINE Good(n) == \E f : f = [k \in 0..n |-> IF k = 0 THEN << >>
                                 ELSE f[k - 1] \o LoopFacts(Replay(f[k - 1]), Past[k])]
           S == {n \in Nat : Good(n)}
<1>1. 0 \in S
  <2>1. [k \in 0..0 |-> << >>]
           = [k \in 0..0 |-> IF k = 0 THEN << >>
                ELSE [j \in 0..0 |-> << >>][k - 1] \o LoopFacts(Replay([j \in 0..0 |-> << >>][k - 1]), Past[k])]
    OBVIOUS
  <2> QED
    BY <2>1
<1>2. ASSUME NEW n \in Nat, Good(n) PROVE Good(n + 1)
  <2>1. PICK f : f = [k \in 0..n |-> IF k = 0 THEN << >>
                        ELSE f[k - 1] \o LoopFacts(Replay(f[k - 1]), Past[k])]
    BY <1>2
  <2> DEFINE g == [k \in 0..(n + 1) |-> IF k <= n THEN f[k]
                                        ELSE f[n] \o LoopFacts(Replay(f[n]), Past[n + 1])]
  <2>2. ASSUME NEW k \in 0..(n + 1)
        PROVE  g[k] = IF k = 0 THEN << >> ELSE g[k - 1] \o LoopFacts(Replay(g[k - 1]), Past[k])
    <3>1. CASE k = 0
      BY <2>1, <3>1
    <3>2. CASE k \in 1..n
      <4>1. g[k] = f[k] /\ g[k - 1] = f[k - 1] /\ k \in 0..n
        BY <3>2
      <4> QED
        BY <2>1, <3>2, <4>1
    <3>3. CASE k = n + 1
      <4>1. g[k] = f[n] \o LoopFacts(Replay(f[n]), Past[n + 1]) /\ g[k - 1] = f[n]
        BY <3>3
      <4> QED
        BY <3>3, <4>1
    <3> QED
      BY <3>1, <3>2, <3>3
  <2>3. g = [k \in 0..(n + 1) |-> IF k = 0 THEN << >>
               ELSE g[k - 1] \o LoopFacts(Replay(g[k - 1]), Past[k])]
    BY <2>2
  <2> HIDE DEF g
  <2> QED
    BY <2>3
<1>3. \A n \in Nat : n \in S => n + 1 \in S
  <2> HIDE DEF Good
  <2> QED
    BY <1>2
<1>4. Nat \subseteq S
  <2> HIDE DEF S
  <2> QED
    BY <1>1, <1>3, NatSetInduction
<1> QED
  BY <1>4, ClosedLoopAssumption DEF PastUnfolds

Sound(s) ==
    /\ IsStream(s)
    /\ \A n \in 1..Len(s) : /\ s[n].type # "cycle.closed"
                            /\ EventFits(Replay(SubSeq(s, 1, n - 1))[s[n].body.cycle], s[n])

(* It has the invariant, by the assumption on Past.                        *)
LEMMA PastIsSound == Sound(PastStream)
<1> DEFINE f == CHOOSE h : PastUnfolds(h)
           N == Len(Past)
           S == {n \in Nat : n <= N => Sound(f[n])}
<1>1. PastUnfolds(f) /\ N \in Nat
  BY PastExists, ClosedLoopAssumption
<1>2. PastStream = f[N]
  BY DEF PastStream, PastUnfolds
<1> HIDE DEF f
<1>3. 0 \in S
  <2>1. f[0] = << >>
    BY <1>1 DEF PastUnfolds
  <2>2. IsStream(<< >>)
    <3>1. << >> \in Seq({})
      OBVIOUS
    <3> QED
      BY <3>1 DEF IsStream
  <2>3. Len(<< >>) = 0 /\ \A n \in 1..0 : FALSE
    OBVIOUS
  <2>4. Sound(<< >>)
    BY <2>2, <2>3 DEF Sound
  <2> QED
    BY <2>1, <2>4
<1>4. ASSUME NEW n \in Nat, n \in S PROVE n + 1 \in S
  <2> SUFFICES ASSUME n + 1 <= N PROVE Sound(f[n + 1])
    OBVIOUS
  <2>1. PICK s : s = f[n]
    OBVIOUS
  <2>2. Sound(s) /\ f[n + 1] = s \o LoopFacts(Replay(s), Past[n + 1])
    <3>1. PICK m : m = n + 1
      OBVIOUS
    <3>2. \A k \in 0..N : f[k] = IF k = 0 THEN << >>
                                 ELSE f[k - 1] \o LoopFacts(Replay(f[k - 1]), Past[k])
      BY <1>1 DEF PastUnfolds
    <3>3. m \in 0..N /\ m # 0 /\ m - 1 = n /\ n <= N
      BY <1>1, <3>1
    <3>4. f[m] = f[m - 1] \o LoopFacts(Replay(f[m - 1]), Past[m])
      BY <3>2, <3>3
    <3> QED
      BY <1>4, <2>1, <3>1, <3>3, <3>4
  <2>3. n + 1 \in 1..N
    BY <1>1
  <2>4. CASE LoopFacts(Replay(s), Past[n + 1]) = << >>
    <3>1. PICK T : s \in Seq(T)
      BY <2>2 DEF Sound, IsStream
    <3>2. s \o << >> = s
      BY <3>1
    <3> QED
      BY <2>2, <2>4, <3>2
  <2>5. ASSUME NEW ev, LoopFacts(Replay(s), Past[n + 1]) = <<ev>>, EventOf(Past[n + 1], ev),
               EventFits(Replay(s)[ev.body.cycle], ev)
        PROVE  Sound(f[n + 1])
    <3>1. IsStream(s)
      BY <2>2 DEF Sound
    <3>2. PICK t : t = Append(s, ev)
      OBVIOUS
    <3>3. f[n + 1] = t
      BY <2>2, <2>5, <3>1, <3>2, AppendedStream
    <3>4. /\ IsStream(t) /\ Len(s) \in Nat /\ Len(t) = Len(s) + 1 /\ t[Len(s) + 1] = ev
          /\ \A k \in 1..Len(s) : t[k] = s[k]
          /\ \A k \in 0..Len(s) : SubSeq(t, 1, k) = SubSeq(s, 1, k)
          /\ SubSeq(s, 1, Len(s)) = s
      BY <3>1, <3>2, AppendedStream, StreamShape
    <3>5. ev.type # "cycle.closed"
      BY <2>3, <2>5, ClosedLoopAssumption DEF EventOf
    <3>6. ASSUME NEW k \in 1..Len(t)
          PROVE  /\ t[k].type # "cycle.closed"
                 /\ EventFits(Replay(SubSeq(t, 1, k - 1))[t[k].body.cycle], t[k])
      <4>1. CASE k \in 1..Len(s)
        <5>1. t[k] = s[k] /\ SubSeq(t, 1, k - 1) = SubSeq(s, 1, k - 1)
          BY <3>4, <4>1
        <5> QED
          BY <2>2, <4>1, <5>1 DEF Sound
      <4>2. CASE k = Len(s) + 1
        <5>1. t[k] = ev /\ SubSeq(t, 1, k - 1) = s
          BY <3>4, <4>2
        <5> QED
          BY <2>5, <3>5, <5>1
      <4> QED
        BY <3>4, <4>1, <4>2
    <3> QED
      BY <3>3, <3>4, <3>6 DEF Sound
  <2> QED
    BY <2>4, <2>5, FactsShape
<1>5. \A n \in Nat : n \in S => n + 1 \in S
  BY <1>4
<1>6. Nat \subseteq S
  <2> HIDE DEF S
  <2> QED
    BY <1>3, <1>5, NatSetInduction
<1> QED
  BY <1>1, <1>2, <1>6

(* The invariant at the start.                                             *)
LEMMA LoopInitInv == LoopInit => LInv
<1> SUFFICES ASSUME LoopInit PROVE LInv
  OBVIOUS
<1>1. Sound(stream) /\ rows = PastRows /\ calls = [p \in LoopCallers |-> NoCall]
  BY PastIsSound DEF LoopInit
<1>2. ASSUME NEW row \in rows PROVE row.command_id.given = NoId
  <2>1. PICK n \in 1..Len(Past) : row = Row(LoopCommand(Past[n], FALSE, n - 1), Accepted(n))
    BY <1>1 DEF PastRows
  <2>2. LoopCommand(Past[n], FALSE, n - 1).command_id.given = NoId
    BY DEF LoopCommand, Command
  <2> QED
    BY <2>1, <2>2 DEF Row
<1>3. CallsOK /\ ChecksStand
  BY <1>1 DEF CallsOK, ChecksStand
<1>4. NamedRowsAreBehind /\ \A n \in 1..HeadSeq : AnswerAt(n)
  BY <1>2 DEF NamedRowsAreBehind, AnswerAt, NamedBy
<1>5. EveryEventFits /\ \A n \in 1..HeadSeq : ClosureAt(n)
  BY <1>1 DEF Sound, EveryEventFits, ClosureAt, CyclesAt, HeadSeq
<1> QED
  BY <1>1, <1>3, <1>4, <1>5 DEF LInv, Sound

(* The invariant after a step.                                             *)
LEMMA LoopNextInv == LInv /\ [LoopNext]_<<log, calls>> => LInv'
<1> SUFFICES ASSUME LInv, [LoopNext]_<<log, calls>> PROVE LInv'
  OBVIOUS
<1>1. CASE LoopNext
  BY <1>1, ReadCycleInv, ReadHeadInv, SendInv DEF LoopNext
<1>2. CASE UNCHANGED <<log, calls>>
  <2>1. UNCHANGED log /\ calls' = calls /\ stream' = stream /\ IsStream(stream)
    BY <1>2 DEF log, LInv
  <2>2. CallsOK' /\ ChecksStand'
    BY <2>1 DEF LInv, CallsOK, ChecksStand, Checked, EarnedAt, StillOpenAt, CyclesAt, HeadSeq
  <2> QED
    BY <2>1, <2>2, QuietStep DEF LInv
<1> QED
  BY <1>1, <1>2

(* The inductive invariant holds for any callers, cycles and answers of    *)
(* the authorities.                                                        *)
THEOREM LoopInvariant == LoopSpec => []LInv
BY LoopInitInv, LoopNextInv, PTL DEF LoopSpec

(* ClosuresWereEarned: no cycle of r4_8 is closed without an instant at    *)
(* which close_cycle could find it ready and its authorities' answers      *)
(* APPLIED; if the caller names the seq it has read, that instant is the   *)
(* one before the closure.                                                 *)
THEOREM ClosuresEarned == LoopSpec => []ClosuresWereEarned
BY LoopInvariant, LInvImplies, PTL

(* FinalAnswersStand: an answer _record_receipt brings under the seq it    *)
(* has read finds the operation without a final answer or a later one.     *)
THEOREM FinalAnswersAreKept == LoopSpec => []FinalAnswersStand
BY LoopInvariant, LInvImplies, PTL

(* The reducer of r4_8 takes every event its handlers append, on the       *)
(* cycles it has made of the events before.                                *)
THEOREM ReducerTakesEveryEvent == LoopSpec => []EveryEventFits
BY LoopInvariant, PTL DEF LInv
=============================================================================
