---------------------------- MODULE ValidationRules ----------------------------
(***************************************************************************)
(* r4_4: what is validated after a fix was detected, in cycles: the cycle, *)
(* the regression cases chosen for it, what was executed, the assessment   *)
(* and the closure, and the handoff of all that to r3.  What its handlers  *)
(* propose and its reducer takes.                                          *)
(*                                                                         *)
(* The scope a cycle shares with what belongs to it is left out, as is the *)
(* tracking state of a workset, which nothing moves.                       *)
(***************************************************************************)
EXTENDS FixRules

CONSTANTS Worksets,     \* by the name of a workset: its "cases", whether the choice
                        \* is "complete", and the scope it leaves "open"
          Closings      \* by the name of a result: the cases it was "selected" for
                        \* and "completed", and the "troubles" that are left

ValidationKinds ==
    {"cycle", "workset", "linkage", "validation", "closure", "handoff", "supersession"}

(* target: the deployment "at" which to validate, and in which "place".    *)
(* by: where the detection comes from: "record" names the one of r4_3,     *)
(* "supplied" comes with the request, "declared" stands for none.          *)
Cycle(detection, supersedes, target, by) ==
    Record("cycle", [detection |-> detection, supersedes |-> supersedes], target, by, "none", 0)
Workset(cycle, data)             == Record("workset", [cycle |-> cycle], data, "none", "none", 0)
ExecutionLinkage(name, cycle, workset, status) ==
    Record("linkage", [cycle |-> cycle, workset |-> workset], name, "none", status, 0)
Validation(name, cycle, evidence, outcome) ==
    Record("validation", [cycle |-> cycle], <<name, evidence>>, "none", outcome, 0)
Closure(name, workset, cycle, result, outcome) ==
    Record("closure", [workset |-> workset, cycle |-> cycle], <<name, result>>, "none", outcome, 0)
Handoff(name, cycle, workset, input, decision, status) ==
    Record("handoff", [cycle |-> cycle, workset |-> workset], <<name, decision>>, input, status, 0)
Supersession(operation, with)    ==
    Record("supersession", [operation |-> operation], with, "none", "none", 0)

(* A linkage, an assessment and a closure have the id their caller gives.  *)
ValidationIdentity(r) ==
    CASE r.kind \in {"cycle", "workset"}       -> <<r.kind, r>>
      [] r.kind = "linkage"                    -> <<r.kind, r.data>>
      [] r.kind \in {"validation", "closure"}  -> <<r.kind, r.data[1]>>
      [] r.kind = "handoff"                    -> <<r.kind, r.data, r.by, r.outcome>>
      [] r.kind = "supersession"               -> <<r.kind, r.on>>

IsSuperseded(s, ref) == \E i \in Of(s, "supersession") : s[i].on.operation = ref
Latest(refs) == IF refs = {} THEN 0 ELSE CHOOSE i \in refs : \A j \in refs : j <= i

-----------------------------------------------------------------------------
(* admission_ready: detected where it is to be validated.                  *)
Ready(s, detection, target) ==
    LET seen == Sightings[s[detection].data]
    IN  /\ s[detection].outcome = "DETECTED" /\ seen.scope = "DEPLOYMENT"
        /\ seen.firm /\ target.at \in Pairs(seen.saw) /\ target.place \in seen.places

(* What a request supplies takes the place of what is on record.           *)
Admitted(s, r) ==
    \/ r.by = "supplied"
    \/ r.by # "supplied" /\ Is(s, r.on.detection, "detection") /\ Ready(s, r.on.detection, r.data)
    \/ r.by = "declared" /\ ~Is(s, r.on.detection, "detection")

CanPass(r) ==
    LET of == Closings[r.data[2]]
    IN  of.completed = of.selected /\ of.troubles = {}

(* The cycle of a closure is not compared with that of its workset.        *)
ClosureMay(s, r) ==
    /\ Is(s, r.on.workset, "workset") /\ Is(s, r.on.cycle, "cycle")
    /\ Closings[r.data[2]].selected = Worksets[s[r.on.workset].data].cases
    /\ r.outcome = "PASS" => CanPass(r)

LastAsked(s, name) == Latest({i \in Of(s, "handoff") : s[i].data[1] = name})

(* Fault: whatever input was asked about.                                  *)
HandoffMayForAnyInput(s, r) ==
    /\ Is(s, r.on.cycle, "cycle") /\ Is(s, r.on.workset, "workset")
    /\ r.outcome # "REQUESTED" => LastAsked(s, r.data[1]) # 0

(* An answer is to the request that is on record last, by its input.       *)
HandoffMay(s, r) ==
    /\ Is(s, r.on.cycle, "cycle") /\ Is(s, r.on.workset, "workset")
    /\ r.outcome # "REQUESTED" =>
          LastAsked(s, r.data[1]) # 0 /\ s[LastAsked(s, r.data[1])].by = r.by

ValidationIsNew(s, r) == \A i \in Of(s, r.kind) : ValidationIdentity(s[i]) # ValidationIdentity(r)

ValidationMay(s, r) ==
    /\ CASE r.kind = "cycle"        -> Admitted(s, r)
         [] r.kind = "workset"      ->
               /\ Is(s, r.on.cycle, "cycle")
               /\ Worksets[r.data].complete \/ Worksets[r.data].open # {}
         [] r.kind = "linkage"      ->
               /\ Is(s, r.on.cycle, "cycle")
               /\ r.on.workset = 0 \/ Is(s, r.on.workset, "workset")
         [] r.kind = "validation"   ->
               /\ Is(s, r.on.cycle, "cycle")
               /\ r.outcome = "PASS" => r.data[2] = "whole"
         [] r.kind = "closure"      -> ClosureMay(s, r)
         [] r.kind = "handoff"      -> HandoffMay(s, r)
         [] r.kind = "supersession" ->
               Is(s, r.on.operation, "cycle") \/ Is(s, r.on.operation, "workset")
    /\ ValidationIsNew(s, r)

ValidationTakes(s, f) ==
    CASE f.kind = "cycle"        -> ValidationIsNew(s, f)
      [] f.kind \in {"workset", "linkage"} -> Is(s, f.on.cycle, "cycle") /\ ValidationIsNew(s, f)
      [] f.kind = "validation"   ->
            /\ Is(s, f.on.cycle, "cycle") /\ ValidationIsNew(s, f)
            /\ f.outcome = "PASS" => f.data[2] = "whole"
      [] f.kind = "closure"      ->
            /\ Is(s, f.on.workset, "workset") /\ ValidationIsNew(s, f)
            /\ f.outcome = "PASS" => CanPass(f)
      [] f.kind = "handoff"      ->
            Is(s, f.on.cycle, "cycle") /\ Is(s, f.on.workset, "workset") /\ ValidationIsNew(s, f)
      [] f.kind = "supersession" -> \A i \in Of(s, "supersession") : s[i] # f

-----------------------------------------------------------------------------
(* derive_operational_state of a cycle.                                    *)
CurrentWorkset(s, c) ==
    Latest({i \in Of(s, "workset") : s[i].on.cycle = c /\ ~IsSuperseded(s, i)})
ClosureOf(s, w) == Latest({i \in Of(s, "closure") : s[i].on.workset = w})
ValidationOf(s, c) == Latest({i \in Of(s, "validation") : s[i].on.cycle = c})
HandoffOf(s, c) == Latest({i \in Of(s, "handoff") : s[i].on.cycle = c})

Judged == [FAIL |-> "VALIDATION_FAILED", BLOCKED |-> "VALIDATION_BLOCKED",
           CONFLICT |-> "VALIDATION_BLOCKED", INCOMPLETE |-> "INCOMPLETE"]
Regressed == [FAIL |-> "REGRESSION_FAILED", BLOCKED |-> "VALIDATION_BLOCKED",
              CONFLICT |-> "VALIDATION_BLOCKED"]

OperationalState(s, c) ==
    LET v == ValidationOf(s, c)
        w == CurrentWorkset(s, c)
        l == ClosureOf(s, w)
        h == HandoffOf(s, c)
    IN  IF IsSuperseded(s, c) THEN "SUPERSEDED"
        ELSE IF v # 0 /\ s[v].outcome \in DOMAIN Judged THEN Judged[s[v].outcome]
        ELSE IF v = 0 THEN IF w = 0 THEN "VALIDATION_PENDING" ELSE "REGRESSION_PENDING"
        ELSE IF l # 0 /\ s[l].outcome \in DOMAIN Regressed THEN Regressed[s[l].outcome]
        ELSE IF l # 0 /\ h # 0 /\ s[l].outcome = "PASS" /\ s[h].outcome = "ACKNOWLEDGED"
             THEN "POST_FIX_VALIDATION_COMPLETE"
        ELSE "REGRESSION_PENDING"
=============================================================================
