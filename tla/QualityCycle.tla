----------------------------- MODULE QualityCycle -----------------------------
(***************************************************************************)
(* The services of the quality cycle at work on one Mission.  Each builds  *)
(* a record from what it read, looks whether the record is there already,  *)
(* reads the head and sends a command; in between others do the same.      *)
(* r4_2 goes on from an assessment by itself, in up to four commands and a *)
(* call of the planner, from wherever an earlier attempt got.              *)
(***************************************************************************)
EXTENDS MissionLog, ReleaseRules, ImpactRules, ValidationRules

CONSTANTS Callers,        \* processes that use the services
          Requests(_, _), \* the records asked for, from a read of the head
          Beginnings,     \* what the Mission may hold when it starts, and the
                          \* room for new events
          Tags, First,    \* command ids for one and the same record
          MaxRefusals     \* bound on refused commands


-----------------------------------------------------------------------------
(* Which component a record belongs to.                                    *)
Computed(s, r) ==
    IF r.kind \in CampaignKinds \cup ImpactKinds \cup FixKinds \cup ValidationKinds THEN r
    ELSE ReleaseComputed(s, r)
May(s, r) ==
    CASE r.kind \in CampaignKinds   -> CampaignMay(s, r)
      [] r.kind \in ImpactKinds     -> ImpactMay(s, r)
      [] r.kind \in FixKinds        -> FixMay(s, r)
      [] r.kind \in ValidationKinds -> ValidationMay(s, r)
      [] OTHER                      -> ReleaseMay(s, r)
Takes(s, f) ==
    CASE f.kind \in CampaignKinds   -> CampaignMay(s, f)
      [] f.kind \in ImpactKinds     -> ImpactTakes(s, f)
      [] f.kind \in FixKinds        -> FixTakes(s, f)
      [] f.kind \in ValidationKinds -> ValidationTakes(s, f)
      [] OTHER                      -> ReleaseTakes(s, f)
Identity(r) ==
    CASE r.kind \in CampaignKinds   -> CampaignIdentity(r)
      [] r.kind \in ImpactKinds     -> ImpactIdentity(r)
      [] r.kind \in FixKinds        -> FixIdentity(r)
      [] r.kind \in ValidationKinds -> ValidationIdentity(r)
      [] OTHER                      -> <<r.kind, ReleaseIdentity(r)>>

(* What the Mission holds when it starts came about by the same rules: a   *)
(* Goal and a defect are other components', a selection is linked for the  *)
(* assessment it was made for, and r2 is asked when that calls for it.     *)
(* No answer of the planner is among it.                                   *)
MayFollow(s, f) ==
    /\ f.kind \notin {"goal", "defect"} => May(s, f) /\ f = Computed(s, f) /\ Takes(s, f)
    /\ f.kind = "link" => f.on.selection \in Named(s, "selection", <<"for", f.on.assessment>>)
    /\ f.kind = "request" => s[f.on.assessment].outcome = "SELECTION_REVISION_REQUIRED"
IsPast(s) ==
    /\ s \in Seq({s[i] : i \in DOMAIN s})
    /\ \A i \in DOMAIN s : MayFollow(SubSeq(s, 1, i - 1), s[i])

(* What is said of a plan on the word of the planner only.                 *)
PlannersOwn == {"R2_REVISION_LINKED", "R2_NO_CHANGE"}

ASSUME CycleAssumption ==
    /\ First \in Tags /\ MaxRefusals \in Nat
    /\ \A b \in Beginnings :
          /\ IsPast(b.stream) /\ b.room \in Nat
          /\ \A i \in Of(b.stream, "result") : b.stream[i].outcome \notin PlannersOwn

-----------------------------------------------------------------------------
VARIABLES call,           \* what each caller is doing
          planned,        \* history: for which request the planner was called,
                          \* and its answers
          begun, limit    \* the length of the stream in the beginning, and its bound

vars == <<log, call, planned, begun, limit>>

Idle == [at |-> "idle"]

(* Who looks first whether the record is there, and whether it is stale,   *)
(* or its defect confirmed.  Some r4_2 records of its own accord only.     *)
OnRecord(r) == {i \in Of(stream, r.kind) : Identity(stream[i]) = Identity(r)}
OwnKinds == {"link", "request", "result"}
LooksFirst(r) ==
    r.kind \notin CampaignKinds \cup (ImpactKinds \ {"trigger"}) \cup {"supersession"}
Sensible(r) ==
    /\ r.kind \notin OwnKinds
    /\ LooksFirst(r) => OnRecord(r) = {}
    /\ r.kind = "trigger" => ~IsStale(stream, r)
    /\ r.kind = "lifecycle" => Confirmed(stream, r.on.defect)

(* Only some take a command id from the caller.                            *)
TagsOf(r) ==
    IF r.kind \in ImpactKinds \cup (ValidationKinds \ {"supersession"}) THEN {First} ELSE Tags

-----------------------------------------------------------------------------
Envelope(r, tag, seq) == Command(<<Identity(r), tag>>, Identity(r), seq, r)

(* The bus reduces what the handler proposes before it stores it: what the *)
(* reducer refuses is raised, and leaves no trace.                         *)
IsRaised(cmd, r) ==
    /\ Known(cmd) \cup KeyOwners(cmd) = {} /\ cmd.expected_seq = HeadSeq
    /\ May(stream, r) /\ ~Takes(stream, Computed(stream, r))
Facts(r) == IF May(stream, r) THEN << Computed(stream, r) >> ELSE << >>
Submit(cmd, r) ==
    IF IsRaised(cmd, r) THEN UNCHANGED log ELSE Execute(cmd, Facts(r), "REFUSED")
IsOk(cmd, r) == ~IsRaised(cmd, r) /\ Answer(cmd, Facts(r), "REFUSED").ok

Init ==
    \E b \in Beginnings :
        /\ rows = {} /\ stream = b.stream
        /\ begun = Len(b.stream) /\ limit = Len(b.stream) + b.room
        /\ call = [c \in Callers |-> Idle]
        /\ planned = {}

Refused == {row \in rows : ~row.answer.ok}
Room == HeadSeq < limit
Go(c, place) == call' = [call EXCEPT ![c] = place]

(* To send r, after the head was read at some moment from here on; "then"  *)
(* is where the caller goes on.                                            *)
Sending(r, tag, then, head) == [at |-> "send", r |-> r, tag |-> tag, then |-> then, since |-> head]
Within(c) == [at |-> call[c].then, on |-> call[c].r]

(* A record that is there already is answered with no command: DUPLICATE,  *)
(* or an identity conflict when it differs in what its identity leaves out.*)
(* A second command id is for a record whose first command was refused.    *)
Look(c, r, tag) ==
    /\ call[c] = Idle /\ Room
    /\ Sensible(r) /\ tag \in TagsOf(r)
    /\ tag # First => \E row \in Refused : row.command_id = <<Identity(r), First>>
    /\ Go(c, Sending(r, tag, "idle", HeadSeq))
    /\ UNCHANGED <<log, planned, begun, limit>>

(* Fault: a refused request is gone on from too.                           *)
StopsWhenRaised(c, cmd) == call[c].then = "idle" \/ IsRaised(cmd, call[c].r)

(* A selection, and a request to the planner, are gone on from when they   *)
(* were answered as applied, a link whatever its answer.                   *)
Stops(c, cmd) ==
    \/ call[c].then = "idle"
    \/ IsRaised(cmd, call[c].r)
    \/ call[c].then \in {"link", "plan"} /\ ~IsOk(cmd, call[c].r)

Send(c) ==
    /\ call[c].at = "send"
    /\ \E seq \in call[c].since..HeadSeq :
          LET cmd == Envelope(call[c].r, call[c].tag, seq)
          IN  /\ Submit(cmd, call[c].r)
              /\ Go(c, IF Stops(c, cmd) THEN Idle ELSE Within(c))
    /\ HeadSeq' <= limit /\ Cardinality(Refused') <= MaxRefusals
    /\ UNCHANGED <<planned, begun, limit>>

Die(c) ==
    /\ call[c] # Idle
    /\ Go(c, Idle)
    /\ UNCHANGED <<log, planned, begun, limit>>

-----------------------------------------------------------------------------
(* continue_selection_handoff and continue_r2_bridge of an assessment.     *)
Linked(a) == {i \in Of(stream, "link") : stream[i].on.assessment = a}
TheOne(set) == IF set = {} THEN 0 ELSE CHOOSE i \in set : TRUE
OwnSelection(a) == Selection(<<"for", a>>, stream[a].on.campaign, CurrentSelection(stream, stream[a].on.campaign))
ToBridge(a) == IF stream[a].outcome = "SELECTION_REVISION_REQUIRED" THEN "bridge" ELSE "idle"

Continue(c, a) ==
    /\ call[c] = Idle /\ Room
    /\ stream[a].outcome # "NO_MATERIAL_IMPACT"
    /\ \/ /\ Linked(a) = {} /\ Is(stream, stream[a].on.campaign, "campaign")
          /\ Go(c, Sending(OwnSelection(a), First, "link", HeadSeq))
       \/ /\ Linked(a) # {} /\ ToBridge(a) = "bridge"
          /\ Go(c, [at |-> "bridge", on |-> stream[TheOne(Linked(a))]])
    /\ UNCHANGED <<log, planned, begun, limit>>

LinkUp(c) ==
    /\ call[c].at = "link"
    /\ LET a == call[c].on.data[2]
       IN  Go(c, Sending(Link(a, stream[a].on.campaign, TheOne(Named(stream, "selection", <<"for", a>>))),
                         First, ToBridge(a), HeadSeq))
    /\ UNCHANGED <<log, planned, begun, limit>>

(* The Goal that is active, 0 for none.                                    *)
ActiveGoal ==
    LET goals == {i \in Of(stream, "goal") : \A j \in Of(stream, "goal") : j <= i}
    IN  IF \E i \in goals : stream[i].data = "active" THEN TheOne(goals) ELSE 0

(* What is recorded when there is no active Goal to plan for.              *)
WithoutGoal == "R2_REJECTED"

(* Fault: what failed counts as a plan that is to stay as it is.           *)
UnansweredNoChange == "R2_NO_CHANGE"

(* What is recorded when the planner cannot be asked, or does not answer.  *)
Unanswered == "R2_UNAVAILABLE"

(* The input of the planner is given by the caller, or built from the      *)
(* active Goal.  A request found on record is asked again.                 *)
Bridge(c) ==
    /\ call[c].at = "bridge"
    /\ \E given \in {0} \cup Of(stream, "goal") :
       LET a     == call[c].on.on.assessment
           prior == TheOne(RequestsOf(stream, a))
           input == IF given = 0 THEN ActiveGoal ELSE given
           Result(answer) == Sending(BridgeResult(a, stream[prior].on.input, answer), First, "idle", HeadSeq)
           asked == BridgeRequest(a, call[c].on.on.selection, input)
       IN  \/ /\ prior = 0 /\ input = 0
              /\ Go(c, Idle)
           \/ /\ prior = 0 /\ input # 0
              /\ Go(c, Sending(asked, First, "plan", HeadSeq))
           \/ /\ prior # 0 /\ ResultsOf(stream, a) # {}
              /\ Go(c, Idle)
           \/ /\ prior # 0 /\ ResultsOf(stream, a) = {}
              /\ Go(c, IF given \notin {0, stream[prior].on.input} THEN Result("R2_RESULT_CONFLICT")
                       ELSE IF input = 0 THEN Result(WithoutGoal)
                       ELSE [at |-> "plan", on |-> asked])
    /\ UNCHANGED <<log, planned, begun, limit>>

(* The planner is asked, and its answer is to be recorded.                 *)
Plan(c) ==
    /\ call[c].at = "plan"
    /\ \E answer \in PlannersOwn \cup {"R2_REJECTED", Unanswered} :
       LET a       == call[c].on.on.assessment
           request == TheOne(RequestsOf(stream, a))
       IN  /\ planned' = planned \cup {[request |-> request, answer |-> answer]}
           /\ Go(c, Sending(BridgeResult(a, stream[request].on.input, answer), First, "idle", HeadSeq))
    /\ UNCHANGED <<log, begun, limit>>

(* Something is raised once the request is at hand: the input given cannot *)
(* be read, or is refused, or the head or the state cannot be read.  It is *)
(* recorded as an answer, though the planner was not asked, and maybe      *)
(* before the request is on record.                                        *)
Stumble(c) ==
    LET a == call[c].on.on.assessment
        Raised(request, answers) ==
            \E answer \in answers :
                Go(c, Sending(BridgeResult(request.on.assessment, request.on.input, answer),
                              First, "idle", HeadSeq))
    IN  /\ \/ /\ call[c].at = "send" /\ call[c].then = "plan"
              /\ Raised(call[c].r, {Unanswered})
           \/ /\ call[c].at = "plan"
              /\ Raised(stream[TheOne(RequestsOf(stream, a))], {Unanswered})
           \/ /\ call[c].at = "bridge"
              /\ RequestsOf(stream, a) # {} /\ ResultsOf(stream, a) = {}
              /\ Raised(stream[TheOne(RequestsOf(stream, a))], {WithoutGoal, Unanswered})
        /\ UNCHANGED <<log, planned, begun, limit>>

(* Other components revise the Goal.                                       *)
GoalChanges ==
    /\ Room /\ Of(stream, "goal") # {}
    /\ \E state \in {"active", "over"} : stream' = Append(stream, Record("goal", [none |-> 0], state, "none", "none", 0))
    /\ UNCHANGED <<rows, call, planned, begun, limit>>

Step(c) ==
    \/ \E r \in Requests(stream, begun), tag \in Tags : Look(c, r, tag)
    \/ \E a \in Of(stream, "assessment") : Continue(c, a)
    \/ Send(c) \/ LinkUp(c) \/ Bridge(c) \/ Plan(c) \/ Stumble(c) \/ Die(c)

Next == GoalChanges \/ \E c \in Callers : Step(c)
Spec == Init /\ [][Next]_vars

-----------------------------------------------------------------------------
Prefix(n) == SubSeq(stream, 1, n)

(* However many report the result of one resumption, and whatever they     *)
(* found when they looked, the receipts of an intent agree on the result:  *)
(* a later read of it never has to choose.                                 *)
OneResultPerIntent ==
    \A i, j \in Of(stream, "receipt") :
        stream[i].on.intent = stream[j].on.intent => stream[i].data = stream[j].data

(* A resumption reported by R2 goes back, link by link, to an assessment   *)
(* that found it ELIGIBLE under the very gate that authorizes it, each     *)
(* link recorded before the next.                                          *)
ResumesAreAuthorized ==
    \A i \in Of(stream, "receipt") :
        LET t == stream[i].on.intent
            e == stream[t].on.eligibility
        IN  /\ Is(Prefix(i - 1), t, "intent")
            /\ Is(Prefix(t - 1), e, "eligibility")
            /\ stream[e].outcome = "ELIGIBLE"
            /\ stream[i].by = stream[e].by /\ stream[e].by # "none"
            /\ Is(Prefix(e - 1), stream[e].on.wait, "wait")
            /\ Is(Prefix(e - 1), stream[e].on.readiness, "readiness")

(* A readiness that was revoked, superseded or found stale is never the    *)
(* current one again, and a conflict ends by a disposition only.           *)
NoRevival ==
    LET before == Prefix(HeadSeq - 1)
    IN  HeadSeq > begun =>
        /\ Active(stream) \subseteq Active(before) \cup {HeadSeq}
        /\ Resolution(before) = "CONFLICT" /\ Resolution(stream) # "CONFLICT"
              => stream[HeadSeq].kind = "disposition"

(* Whoever revises what a campaign selects, by hand or for an assessment,  *)
(* at once with others or again after a crash: its revisions are one line, *)
(* each superseding the one recorded last before it.                       *)
CampaignsDoNotFork ==
    \A i, j \in Of(stream, "selection") :
        /\ stream[i].on.campaign = stream[j].on.campaign
        /\ i < j /\ \A k \in RevisionsOf(stream, stream[j].on.campaign) : ~(i < k /\ k < j)
        => stream[j].on.supersedes = i

(* The planner is never asked to revise the plan unless its request was on *)
(* record by then, for an assessment that calls for it, and naming the     *)
(* selection that was revised for that very assessment.                    *)
PlannerAskedOnRecord ==
    \A p \in planned :
        /\ Is(stream, p.request, "request")
        /\ LET a == stream[p.request].on.assessment
           IN  /\ stream[a].outcome = "SELECTION_REVISION_REQUIRED"
               /\ Is(stream, stream[p.request].on.selection, "selection")
               /\ stream[stream[p.request].on.selection].data = <<"for", a>>

(* A request has one result, however many callers ask the planner for it,  *)
(* and whatever fails on the way: a plan counts as revised, or as one that *)
(* is to stay, only when the planner said so to that request.  That it is  *)
(* unavailable, or refuses, may be recorded without asking it.             *)
ResultsAreAnswers ==
    \A i \in Of(stream, "result") :
        /\ ResultsOf(stream, stream[i].on.assessment) = {i}
        /\ stream[i].outcome \in PlannersOwn =>
              \E p \in planned : /\ p.request \in RequestsOf(stream, stream[i].on.assessment)
                                 /\ p.answer = stream[i].outcome

(* A detection that a cycle rests on was made at the target of the cycle,  *)
(* of a fix that belongs to the lifecycle of a confirmed defect.           *)
DetectedAtTarget(c) ==
    LET d == stream[c].on.detection
    IN  /\ Is(Prefix(c - 1), d, "detection")
        /\ stream[d].outcome = "DETECTED" /\ stream[c].data.at \in Pairs(Sightings[stream[d].data].saw)
        /\ stream[stream[d].on.fix].on.lifecycle = stream[d].on.lifecycle
        /\ Confirmed(stream, stream[stream[d].on.lifecycle].on.defect)

(* The answer of r3 is to what it was asked last before, under that name.  *)
AnswersLastAsked(h) ==
    \E i \in Of(Prefix(h - 1), "handoff") :
        /\ stream[i].data[1] = stream[h].data[1] /\ stream[i].outcome = "REQUESTED"
        /\ stream[i].by = stream[h].by
        /\ \A j \in Of(Prefix(h - 1), "handoff") :
              j > i /\ stream[j].data[1] = stream[h].data[1] => stream[j].outcome # "REQUESTED"

(* However many callers validate a fix at once, and whatever they do over: *)
(* a cycle opened on what is on record rests on a detection of the         *)
(* defect's own fix where it is validated, no two on detections that saw   *)
(* different digests last of one deployment, and when the validation       *)
(* counts as complete, all cases chosen last were completed, and r3 has    *)
(* answered what it was asked last.                                        *)
FixesAreProven ==
    LET Opened == {c \in Of(stream, "cycle") : stream[c].by = "record"}
        Complete == {c \in Of(stream, "cycle") :
                        OperationalState(stream, c) = "POST_FIX_VALIDATION_COMPLETE"}
        SawLast(c) == LastPairs(Sightings[stream[stream[c].on.detection].data].saw)
    IN  /\ \A c \in Opened : DetectedAtTarget(c)
        /\ \A c, d \in Opened :
              stream[c].on.detection # stream[d].on.detection => ~Disagree(SawLast(c), SawLast(d))
        /\ \A c \in Complete :
              LET w == CurrentWorkset(stream, c)
              IN  /\ Closings[stream[ClosureOf(stream, w)].data[2]].completed
                        = Worksets[stream[w].data].cases
                  /\ AnswersLastAsked(HandoffOf(stream, c))
=============================================================================
