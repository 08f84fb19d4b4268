------------------------------- MODULE FixRules -------------------------------
(***************************************************************************)
(* r4_3: the life of a confirmed defect: the fixes linked to it, and where *)
(* they were detected.  What its handlers propose and its reducer takes.   *)
(*                                                                         *)
(* A "defect" is an assessment of r3_6, which records it as confirmed or   *)
(* not.  The status derived for a lifecycle decides nothing and is left    *)
(* out, as are branches.                                                   *)
(***************************************************************************)
EXTENDS QualityRecords

CONSTANTS Claims,      \* by the name of a fix: the candidates and sources it is
                       \* linked "to", the "scopes" it covers, the <<deployment,
                       \* digest>> pairs "deployed" by it, and in which "places"
          Sightings    \* by the name of an observation: its "scope", the outcomes
                       \* its evidence "supports", the pairs it "saw", in their
                       \* order, in which "places", and whether its evidence is "firm": names what
                       \* was seen, and is no person's word

FixKinds == {"lifecycle", "fix", "ask", "detection"}

Lifecycle(defect, version, campaigns, data) ==
    Record("lifecycle", [defect |-> defect, version |-> version, campaigns |-> campaigns],
           data, "none", "none", 0)
Fix(lifecycle, supersedes, data, actor) ==
    Record("fix", [lifecycle |-> lifecycle, supersedes |-> supersedes], data, actor, "none", 0)
Ask(name, lifecycle, fix, campaign) ==
    Record("ask", [lifecycle |-> lifecycle, fix |-> fix, campaign |-> campaign], name, "none", "none", 0)
Detection(lifecycle, fix, campaign, data, outcome) ==
    Record("detection", [lifecycle |-> lifecycle, fix |-> fix, campaign |-> campaign],
           data, "none", outcome, 0)

(* What ids are computed from: not the ratings of a defect, nor who linked *)
(* a fix and what it replaces.  The id of a request is its caller's.       *)
FixIdentity(r) ==
    CASE r.kind = "lifecycle" -> <<r.kind, r.on>>
      [] r.kind = "fix"       -> <<r.kind, r.on.lifecycle, r.data>>
      [] r.kind = "ask"       -> <<r.kind, r.data>>
      [] r.kind = "detection" -> <<r.kind, r>>

Confirmed(s, defect) == Is(s, defect, "defect") /\ s[defect].data = "confirmed"

(* Two sets of pairs that give one deployment different digests.           *)
Disagree(a, b) == \E p \in a, q \in b : p[1] = q[1] /\ p[2] # q[2]

(* The pairs that were seen, and of each deployment the last of them.      *)
Pairs(saw) == {saw[i] : i \in DOMAIN saw}
LastPairs(saw) ==
    {saw[i] : i \in {j \in DOMAIN saw : \A k \in DOMAIN saw : j < k => saw[k][1] # saw[j][1]}}

(* validate_detection_rules: the evidence supports the outcome, and what   *)
(* is said to be DETECTED lies within what the fix claims.                 *)
FollowsRules(s, r) ==
    /\ r.outcome \in Sightings[r.data].supports
    /\ r.outcome = "DETECTED" =>
          LET seen    == Sightings[r.data]
              claimed == Claims[s[r.on.fix].data]
          IN  /\ seen.scope \in claimed.scopes
              /\ ~Disagree(Pairs(seen.saw), claimed.deployed)
              /\ claimed.places # {} => seen.places \subseteq claimed.places

OnDeployment(s) == {i \in Of(s, "detection") : Sightings[s[i].data].scope = "DEPLOYMENT"}

(* Compared is what each saw last of a deployment, whatever it saw before. *)
Contradicts(s, r) ==
    /\ r.outcome = "DETECTED" /\ Sightings[r.data].scope = "DEPLOYMENT"
    /\ \E i \in OnDeployment(s) :
          Disagree(LastPairs(Sightings[s[i].data].saw), LastPairs(Sightings[r.data].saw))

(* The handler does not ask whose fix it is.                               *)
AboutFix(s, r) ==
    /\ Is(s, r.on.lifecycle, "lifecycle") /\ Is(s, r.on.fix, "fix")
    /\ r.on.campaign \in s[r.on.lifecycle].on.campaigns

FixIsNew(s, r) == \A i \in Of(s, r.kind) : FixIdentity(s[i]) # FixIdentity(r)

FixMay(s, r) ==
    /\ CASE r.kind = "lifecycle" ->
               /\ Confirmed(s, r.on.defect) /\ Is(s, r.on.version, "version")
               /\ r.on.campaigns # {} /\ \A i \in r.on.campaigns : Is(s, i, "campaign")
         [] r.kind = "fix"       ->
               /\ Is(s, r.on.lifecycle, "lifecycle") /\ Claims[r.data].to # {}
               /\ r.on.supersedes # 0 =>
                     Is(s, r.on.supersedes, "fix") /\ s[r.on.supersedes].on.lifecycle = r.on.lifecycle
         [] r.kind = "ask"       -> AboutFix(s, r)
         [] r.kind = "detection" -> AboutFix(s, r) /\ FollowsRules(s, r) /\ ~Contradicts(s, r)
    /\ FixIsNew(s, r)

(* The reducer does, and applies the rules once more.                      *)
OfLifecycle(s, f) ==
    /\ Is(s, f.on.lifecycle, "lifecycle") /\ Is(s, f.on.fix, "fix")
    /\ s[f.on.fix].on.lifecycle = f.on.lifecycle

FixTakes(s, f) ==
    /\ CASE f.kind = "lifecycle" -> TRUE
         [] f.kind = "fix"       -> Is(s, f.on.lifecycle, "lifecycle")
         [] f.kind = "ask"       -> OfLifecycle(s, f)
         [] f.kind = "detection" -> OfLifecycle(s, f) /\ FollowsRules(s, f)
    /\ FixIsNew(s, f)
=============================================================================
