------------------------------ MODULE ImpactRules -----------------------------
(***************************************************************************)
(* r4_2: triggers from watched sources, the assessment of their impact,    *)
(* the selection revision made for it, and the request to the planner of   *)
(* R2 to revise the plan.                                                  *)
(***************************************************************************)
EXTENDS CampaignRules

CONSTANTS Sources,      \* by the name of an observation: what its source says
          Findings      \* by the name of an assessment: what it looked at, and
                        \* the classes of what it found there

ImpactKinds == {"trigger", "assessment", "link", "request", "result"}

(* _source_position: the revision, then the cursor, which is compared as   *)
(* text: here its digits.                                                  *)
Precedes(a, b) ==
    \/ Len(a) < Len(b) /\ \A i \in DOMAIN a : a[i] = b[i]
    \/ \E i \in DOMAIN a \cap DOMAIN b : a[i] < b[i] /\ \A j \in 1..(i - 1) : a[j] = b[j]
PositionBefore(a, b) ==
    \/ a.revision < b.revision
    \/ a.revision = b.revision /\ Precedes(a.cursor, b.cursor)

(* build_impact_assessment; a finding is affected, unaffected, unknown     *)
(* (unmapped ones too) or blocked.                                         *)
DecisionRules ==
    << [on |-> {"blocked"},  gives |-> "BLOCKED"],
       [on |-> {"unknown"},  gives |-> "INCONCLUSIVE"],
       [on |-> {"affected"}, gives |-> "SELECTION_REVISION_REQUIRED"] >>
Decision(data) ==
    IF Findings[data].classes = {} THEN "BLOCKED"
    ELSE FirstRule(DecisionRules, Findings[data].classes, "NO_MATERIAL_IMPACT")

Trigger(data) == Record("trigger", [none |-> 0], data, "none", "none", 0)
Assessment(triggers, campaign, data) ==
    Record("assessment", [triggers |-> triggers, campaign |-> campaign], data, "none", Decision(data), 0)
Link(assessment, campaign, selection) ==
    Record("link", [assessment |-> assessment, campaign |-> campaign, selection |-> selection],
           "none", "none", "none", 0)
(* The intent and the receipt R2_REQUESTED; "input" is the Goal the input  *)
(* of the planner was built from.                                          *)
BridgeRequest(assessment, selection, input) ==
    Record("request", [assessment |-> assessment, selection |-> selection, input |-> input],
           "none", "none", "R2_REQUESTED", 0)
(* The receipt again, with the answer: it is told by the assessment, as    *)
(* the selection revised for it has one id, and repeats the input.         *)
BridgeResult(assessment, input, answer) ==
    Record("result", [assessment |-> assessment, input |-> input], "none", "none", answer, 0)

(* What ids are computed from, and so command ids and idempotency keys:    *)
(* not the classes of findings.                                            *)
ImpactIdentity(r) ==
    CASE r.kind = "trigger"    -> <<r.kind, Sources[r.data].identity>>
      [] r.kind = "assessment" -> <<r.kind, r.on, Findings[r.data].refs>>
      [] r.kind = "link"       -> <<r.kind, r.on.assessment>>
      [] r.kind = "request"    -> <<r.kind, r.on.assessment, r.on.selection>>
      [] r.kind = "result"     -> <<r.kind, r.on.assessment>>

(* The service refuses what is older than the newest of its source.        *)
IsStale(s, r) ==
    /\ Sources[r.data].eligible
    /\ \E i \in Of(s, "trigger") :
          /\ Sources[s[i].data].from = Sources[r.data].from
          /\ PositionBefore(Sources[r.data].position, Sources[s[i].data].position)

RequestsOf(s, assessment) == {i \in Of(s, "request") : s[i].on.assessment = assessment}
ResultsOf(s, assessment) == {i \in Of(s, "result") : s[i].on.assessment = assessment}

(* The handler only looks for what a command adds to.                      *)
ImpactMay(s, r) ==
    CASE r.kind \in {"trigger", "assessment"} -> TRUE
      [] r.kind = "link"    -> Is(s, r.on.assessment, "assessment")
      [] r.kind = "request" -> TRUE
      [] r.kind = "result"  -> RequestsOf(s, r.on.assessment) # {}

(* The reducer: one of each, the campaign of the assessment, the selection *)
(* that is linked, one result for a request.                               *)
ImpactTakes(s, f) ==
    /\ f.kind # "result" => \A i \in Of(s, f.kind) : ImpactIdentity(s[i]) # ImpactIdentity(f)
    /\ CASE f.kind = "trigger"    -> TRUE
         [] f.kind = "assessment" -> \A i \in f.on.triggers : Is(s, i, "trigger")
         [] f.kind = "link"       -> f.on.campaign = s[f.on.assessment].on.campaign
         [] f.kind = "request"    ->
               /\ Is(s, f.on.assessment, "assessment")
               /\ \E i \in Of(s, "link") : /\ s[i].on.assessment = f.on.assessment
                                           /\ s[i].on.selection = f.on.selection
               /\ RequestsOf(s, f.on.assessment) = {}
         [] f.kind = "result"     ->
               /\ ResultsOf(s, f.on.assessment) = {}
               /\ \E i \in RequestsOf(s, f.on.assessment) : s[i].on.input = f.on.input
=============================================================================
