---------------------------- MODULE MCQualityCycle ----------------------------
(* A release that may be resumed, from any point of its way.               *)
EXTENDS QualityCycle, TLC

CONSTANTS c1, c2

MCTroubles ==
    [clean |-> {}, late |-> {"stale"}, risky |-> {"remaining_risk"}, waiting |-> {"pending"},
     none |-> {}, yes |-> {}, no |-> {}, revoke |-> {"revoked"}, replace |-> {"superseded"},
     note |-> {}, quota |-> {"no_quota_fact"}]
MCLinkage ==
    [allow |-> [decision |-> "ALLOW", continuation |-> "READY"],
     deny  |-> [decision |-> "DENY", continuation |-> "READY"]]
Gates == DOMAIN MCLinkage

(* An intent says it read no further than the first record, whatever it    *)
(* names.                                                                  *)
(*                                                                         *)
(* What is asked for when the Mission began with the first b records of    *)
(* the way: the next steps of it.                                          *)
Kinds == [b \in 0..7 |->
    CASE b < 2 -> {"risk", "readiness"}
      [] b = 2 -> {"readiness", "wait", "disposition"}
      [] b = 3 -> {"wake", "eligibility", "disposition"}
      [] b = 4 -> {"wake", "eligibility"}
      [] b = 5 -> {"eligibility", "intent", "disposition"}
      [] OTHER -> {"intent", "receipt", "disposition"}]

ReleaseRequests(s, n) ==
    LET Seen(kind) == Of(s, kind)
    IN  [risk |-> {Risk(d, "guess", n) : d \in {"clean", "risky"}},
         readiness |-> {Readiness(i, d, g, "READY", n) :
            i \in Seen("risk"), d \in {"clean", "late"}, g \in {"allow"}},
         wait |-> {Wait(i, j, d, n) :
            i \in Seen("readiness"), j \in Seen("risk"), d \in {"clean"}},
         wake |-> {Wake(i, j, n) : i \in Seen("wait"), j \in {0, n}},
         eligibility |-> {Eligibility(i, j, k, d, g, "ELIGIBLE", n) :
            i \in Seen("readiness"), j \in Seen("wait"), k \in Seen("wake") \cup {0},
            d \in {"clean", "waiting"}, g \in {"allow", "none"}},
         intent |-> UNION {{ResumeIntent(i, j, k, p, g, 1) :
            j \in Seen("readiness"), k \in Seen("wait"), p \in Seen("intent") \cup {0},
            g \in Gates} : i \in Seen("eligibility")},
         receipt |-> UNION {{Receipt(i, d, g, BridgeStatus(s, p, d, "APPLIED"), n) :
            d \in {"yes", "no"}, g \in Gates, p \in {q \in Seen("receipt") : s[q].on.intent = i} \cup {0}} :
            i \in Seen("intent")},
         disposition |-> {Disposition(i, d, n) :
            i \in Seen("readiness"), d \in {"revoke", "replace", "note"}}]

Way ==
    << [Risk("clean", "guess", 0) EXCEPT !.outcome = "WITHIN_POLICY"],
       Readiness(1, "clean", "allow", "READY", 1),
       Wait(2, 1, "clean", 2),
       Wake(3, 3, 3),
       Eligibility(2, 3, 4, "clean", "allow", "ELIGIBLE", 4),
       ResumeIntent(5, 2, 3, 0, "allow", 5),
       Receipt(6, "yes", "allow", "APPLIED", 6) >>

-----------------------------------------------------------------------------
(* A campaign, and what its sources say about it.                          *)
MCSources ==
    [t9  |-> [identity |-> "i9", from |-> "repo", eligible |-> TRUE, position |-> [revision |-> 1, cursor |-> <<9>>]],
     t9b |-> [identity |-> "i9", from |-> "repo", eligible |-> TRUE, position |-> [revision |-> 1, cursor |-> <<9>>]],
     t10 |-> [identity |-> "i10", from |-> "repo", eligible |-> TRUE, position |-> [revision |-> 1, cursor |-> <<1, 0>>]]]
MCFindings ==
    [hit  |-> [refs |-> "r", classes |-> {"affected", "unaffected"}],
     vague |-> [refs |-> "r", classes |-> {"affected", "unknown"}],
     miss |-> [refs |-> "q", classes |-> {"unaffected"}]]

Ground == << Record("goal", [none |-> 0], "active", "none", "none", 0),
             Version(<<"v", 1>>, 0), Campaign(<<"c", 1>>, 2, "key") >>
Found(classes) == Ground \o << Trigger("t9"), Assessment({4}, 3, classes) >>
Selected == Ground \o << Selection(<<"s", 0>>, 3, 0) >>
Asked == Found("hit") \o << Selection(<<"for", 5>>, 3, 0), Link(5, 3, 6), BridgeRequest(5, 6, 1) >>

ByHand(s) == {Selection(<<"s", n>>, 3, i) : n \in 1..2, i \in Of(s, "selection") \cup {0}}
CampaignRequests(s) ==
    LET Seen(kind) == Of(s, kind) \cup {0}
    IN  {Version(<<"v", 2>>, i) : i \in Seen("version")} \cup {Version(<<"v", 1>>, 0)}
        \cup {Campaign(<<"c", n>>, i, k) : n \in 1..2, i \in Of(s, "version"), k \in {"key", "other"}}
        \cup {Campaign(<<"c", 2>>, 0, "other")}
        \cup ByHand(s)
ImpactRequests(s) ==
    {Trigger(d) : d \in DOMAIN MCSources}
    \cup {Assessment({i}, 3, d) : i \in Of(s, "trigger"), d \in DOMAIN MCFindings}

-----------------------------------------------------------------------------
(* A confirmed defect, its fix, and what is done to prove it.              *)
MCClaims ==
    [patch |-> [to |-> {"candidate"}, scopes |-> {"SOURCE", "DEPLOYMENT"},
                deployed |-> {<<"live", "new">>}, places |-> {"lab"}],
     loose |-> [to |-> {"commit"}, scopes |-> {"DEPLOYMENT"},
                deployed |-> {<<"spare", "new">>}, places |-> {}],
     blank |-> [to |-> {}, scopes |-> {"SOURCE"}, deployed |-> {}, places |-> {}]]
Sighting(scope, supports, pairs, place, firm) ==
    [scope |-> scope, supports |-> supports, saw |-> pairs, places |-> {place}, firm |-> firm]
MCSightings ==
    [there |-> Sighting("DEPLOYMENT", {"DETECTED"}, << <<"live", "new">> >>, "lab", TRUE),
     other |-> Sighting("DEPLOYMENT", {"DETECTED"}, << <<"live", "old">> >>, "lab", TRUE),
     both  |-> Sighting("DEPLOYMENT", {"DETECTED"}, << <<"live", "old">>, <<"live", "new">> >>, "lab", TRUE),
     else  |-> Sighting("DEPLOYMENT", {"DETECTED", "NOT_DETECTED"}, << <<"spare", "new">> >>, "field", TRUE),
     told  |-> Sighting("DEPLOYMENT", {"DETECTED"}, << <<"live", "new">> >>, "lab", FALSE),
     built |-> Sighting("SOURCE", {"DETECTED"}, << >>, "lab", TRUE)]
MCWorksets ==
    [chosen |-> [cases |-> {"a", "b"}, complete |-> TRUE, open |-> {}],
     partly |-> [cases |-> {"a"}, complete |-> FALSE, open |-> {"unknown"}],
     silent |-> [cases |-> {"a"}, complete |-> FALSE, open |-> {}]]
MCClosings ==
    [all  |-> [selected |-> {"a", "b"}, completed |-> {"a", "b"}, troubles |-> {}],
     some |-> [selected |-> {"a", "b"}, completed |-> {"a"}, troubles |-> {"pending"}],
     one  |-> [selected |-> {"a"}, completed |-> {"a"}, troubles |-> {}]]

Confirm == << Record("defect", [none |-> 0], "confirmed", "none", "none", 0),
              Record("defect", [none |-> 0], "suspected", "none", "none", 0),
              Version(<<"v", 1>>, 0), Campaign(<<"c", 1>>, 3, "key"), Campaign(<<"c", 2>>, 3, "other") >>
Fixed == Confirm \o << Lifecycle(1, 3, {4}, "high"), Lifecycle(1, 3, {4, 5}, "high"),
                       Fix(6, 0, "patch", "me"), Fix(7, 0, "loose", "me") >>
Target == [at |-> <<"live", "new">>, place |-> "lab"]
Former == [Target EXCEPT !.at = <<"live", "old">>]
Seen1 == Fixed \o << Detection(6, 8, 4, "there", "DETECTED") >>
Opened1 == Seen1 \o << Cycle(10, 0, Target, "record") >>
Judged1 == Opened1 \o << Validation("x", 11, "whole", "PASS"), Workset(11, "chosen") >>
Requested1 == << Handoff("h", 11, 13, "in1", "none", "REQUESTED") >>
Closed1 == Judged1 \o << Closure("y", 13, 11, "all", "PASS") >>

FixRequests(s) ==
    {Lifecycle(i, 3, {4}, d) : i \in {1, 2}, d \in {"high", "low"}}
    \cup {Fix(i, 0, d, "me") : i \in Of(s, "lifecycle"), d \in {"patch", "blank"}}
DetectionRequests(s) ==
    {Ask("q", 6, i, 4) : i \in {8, 9}}
    \cup {Fix(6, i, "loose", "me") : i \in {8, 9}}
    \cup {Detection(6, 8, 4, d, "DETECTED") : d \in DOMAIN MCSightings \ {"both", "told"}}
    \cup {Detection(6, 8, 5, "there", "DETECTED"), Detection(6, 9, 4, "there", "DETECTED"),
          Detection(7, 9, 5, "other", "DETECTED"), Detection(7, 9, 5, "else", "NOT_DETECTED")}
    \cup {Cycle(i, 0, Target, "record") : i \in Of(s, "detection")}
OpeningRequests(s) ==
    {Cycle(i, 0, Target, b) : i \in Of(s, "detection") \cup {0}, b \in {"record", "declared"}}
    \cup {Cycle(10, 0, Former, b) : b \in {"record", "supplied"}}
    \cup {Detection(7, 9, 5, d, "DETECTED") : d \in {"other", "both", "told"}}
CycleRequests(s) ==
    {Workset(11, d) : d \in DOMAIN MCWorksets}
    \cup {Validation("x", 11, e, o) : e \in {"whole", "part"}, o \in {"PASS", "INCOMPLETE"}}
    \cup {ExecutionLinkage("e", 11, i, "PENDING") : i \in Of(s, "workset") \cup {0}}
    \cup {Supersession(11, "again"), Cycle(10, 11, Target, "record"), Detection(7, 9, 5, "both", "DETECTED")}
    \cup {Cycle(i, 0, Former, "record") : i \in Of(s, "detection") \ {10}}
ClosingRequests(s) ==
    {Closure("z", i, 11, d, o) : i \in Of(s, "workset"), d \in DOMAIN MCClosings, o \in {"PASS"}}
    \cup {Handoff("h", 11, 13, n, "none", o) : n \in {"in1", "in2"}, o \in {"REQUESTED", "ACKNOWLEDGED"}}
    \cup {Closure("z", 13, 11, "some", "FAIL"), Closure("z", 13, 11, "some", "INCOMPLETE"), Workset(11, "partly"), Supersession(13, "again")}

(* What is asked for from each beginning, by its length.                   *)
ValidationRequests(s, b) ==
    CASE b = Len(Confirm) -> FixRequests(s)
      [] b = Len(Fixed)   -> DetectionRequests(s)
      [] b = Len(Seen1)   -> OpeningRequests(s)
      [] b = Len(Opened1) -> CycleRequests(s)
      [] OTHER            -> ClosingRequests(s)

MCRequests(s, b) ==
    IF s = << >> \/ s[1].kind \notin {"goal", "defect"}
    THEN UNION {ReleaseRequests(s, Len(s))[k] : k \in Kinds[b]}
    ELSE IF s[1].kind = "defect" THEN ValidationRequests(s, b)
    ELSE IF b = Len(Ground) THEN CampaignRequests(s) \cup ImpactRequests(s)
    ELSE IF b = Len(Selected) THEN ByHand(s)
    ELSE IF b = Len(Found("hit")) THEN {Selection(<<"s", 1>>, 3, i) : i \in Of(s, "selection") \cup {0}}
    ELSE {}

MCBeginnings ==
    {[stream |-> SubSeq(Way, 1, n), room |-> 2] : n \in 0..Len(Way)}
    \cup {[stream |-> Ground, room |-> 2], [stream |-> Selected, room |-> 2],
          [stream |-> Found("hit"), room |-> 4],
          [stream |-> Found("vague"), room |-> 3], [stream |-> Asked, room |-> 2]}
    \cup {[stream |-> w, room |-> 2] : w \in {Confirm, Fixed, Seen1, Opened1, Judged1 \o Requested1,
                                              Closed1, Closed1 \o Requested1}}
MCSymmetry == Permutations(Callers)
=============================================================================
