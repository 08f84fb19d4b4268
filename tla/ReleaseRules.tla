----------------------------- MODULE ReleaseRules -----------------------------
(***************************************************************************)
(* r4_5: release risk, readiness, waits, wake-ups, and the resumption of a *)
(* release by R2.  What its handlers propose and its reducer takes, as     *)
(* operators on the stream s.                                              *)
(*                                                                         *)
(* One release scope.  Policies, targets and texts are left out.           *)
(***************************************************************************)
EXTENDS QualityRecords, FiniteSets

CONSTANTS Troubles,   \* by the name of a payload: what is wrong in it
          Linkage     \* by the name of a gate: its decision and continuation

(* _risk_outcome.  A field validation that FAILED is no trouble here.      *)
RiskRules ==
    << [on |-> {"conflict"},               gives |-> "CONFLICT"],
       [on |-> {"stale"},                  gives |-> "STALE"],
       [on |-> {"unavailable", "blocked"}, gives |-> "BLOCKED"],
       [on |-> {"unvalidated", "unknown"}, gives |-> "INCOMPLETE"],
       [on |-> {"remaining_risk"},         gives |-> "RISK_PRESENT"] >>
RiskOutcome(r) == FirstRule(RiskRules, Troubles[r.data], "WITHIN_POLICY")

(* _readiness_verdict.  A stale source also makes the lifecycle STALE.     *)
VerdictRules ==
    << [on |-> {"conflict"},                                  gives |-> "BLOCKED"],
       [on |-> {"unavailable", "not_allowed", "not_ready"},   gives |-> "WAITING"],
       [on |-> {"blocker", "risk_blocked"},                   gives |-> "BLOCKED"],
       [on |-> {"stale", "unvalidated", "risk"},              gives |-> "NOT_READY"] >>
GateTroubles(gate) ==
    (IF Linkage[gate].decision # "ALLOW" THEN {"not_allowed"} ELSE {})
    \cup (IF Linkage[gate].continuation # "READY" THEN {"not_ready"} ELSE {})
RiskTroubles(s, r) ==
    CASE s[r.on.risk].outcome = "WITHIN_POLICY" -> {}
      [] s[r.on.risk].outcome = "BLOCKED"       -> {"risk_blocked"}
      [] OTHER                                  -> {"risk"}
Verdict(s, r) ==
    FirstRule(VerdictRules, Troubles[r.data] \cup GateTroubles(r.by) \cup RiskTroubles(s, r), "READY")

(* _eligibility_outcome, from what the caller says of the source.          *)
EligibilityRules ==
    << [on |-> {"conflict"},                              gives |-> "CONFLICT"],
       [on |-> {"stale"},                                 gives |-> "STALE"],
       [on |-> {"blocked", "no_gate", "wrong_mission"},   gives |-> "BLOCKED"],
       [on |-> {"pending", "denied", "no_upstream", "not_continued", "seq_moved"},
                                                          gives |-> "NOT_ELIGIBLE"] >>
EligibilityOutcome(r) ==
    FirstRule(EligibilityRules,
              Troubles[r.data] \cup (IF r.by = "none" THEN {"no_gate"} ELSE {}), "ELIGIBLE")

-----------------------------------------------------------------------------
(* The records.  A receipt names its authorization again.                  *)
Risk(data, asked, n)             == Record("risk", [none |-> 0], data, "none", asked, n)
Readiness(risk, data, gate, asked, n) ==
    Record("readiness", [risk |-> risk], data, gate, asked, n)
Wait(readiness, risk, data, n)   ==
    Record("wait", [readiness |-> readiness, risk |-> risk], data, "none", "CURRENT", n)
Wake(wait, source, n)            ==
    Record("wake", [wait |-> wait, source |-> source], "none", "none", "none", n)
Eligibility(readiness, wait, wake, data, gate, asked, n) ==
    Record("eligibility", [readiness |-> readiness, wait |-> wait, wake |-> wake],
           data, gate, asked, n)
ResumeIntent(eligibility, readiness, wait, supersedes, gate, n) ==
    Record("intent", [eligibility |-> eligibility, readiness |-> readiness, wait |-> wait,
                      supersedes |-> supersedes], "none", gate, "none", n)
Receipt(intent, result, gate, status, n) ==
    Record("receipt", [intent |-> intent], result, gate, status, n)
Disposition(readiness, data, n)  ==
    Record("disposition", [readiness |-> readiness], data, "none", "none", n)

(* What an identity is computed from: not the outcome, but the status of a *)
(* receipt, and the cursor of an eligibility.                              *)
ReleaseIdentity(r) ==
    Record(r.kind, r.on, r.data, r.by, IF r.kind = "receipt" THEN r.outcome ELSE "any",
           IF r.kind = "eligibility" THEN r.as_of ELSE 0)

-----------------------------------------------------------------------------
(* The handler: what each command asks of the state.  A record it names    *)
(* must be there, and may be newer than the cursor it says it read at.     *)
ReadinessMay(s, r) == Is(s, r.on.risk, "risk")

WaitMay(s, r) ==
    /\ Is(s, r.on.readiness, "readiness")
    /\ Is(s, r.on.risk, "risk")
    /\ "no_quota_fact" \notin Troubles[r.data]

(* A wake-up says at which cursor its source is, not before the cursor its *)
(* wait was opened at, and not after its own.                              *)
WakeMay(s, r) ==
    /\ Is(s, r.on.wait, "wait")
    /\ r.on.source <= r.as_of
    /\ r.on.source >= s[r.on.wait].as_of

EligibilityMay(s, r) ==
    /\ Is(s, r.on.readiness, "readiness")
    /\ Is(s, r.on.wait, "wait")
    /\ r.on.wake = 0 \/ Is(s, r.on.wake, "wake")

(* Fault: any gate may authorize.                                          *)
IntentMayByAnyGate(s, r) ==
    /\ Is(s, r.on.eligibility, "eligibility")
    /\ Is(s, r.on.readiness, "readiness")
    /\ Is(s, r.on.wait, "wait")
    /\ s[r.on.eligibility].outcome = "ELIGIBLE"
    /\ r.on.supersedes = 0 \/ Is(s, r.on.supersedes, "intent")

(* The authorization is the gate the eligibility was assessed with.        *)
IntentMay(s, r) ==
    /\ Is(s, r.on.eligibility, "eligibility")
    /\ Is(s, r.on.readiness, "readiness")
    /\ Is(s, r.on.wait, "wait")
    /\ s[r.on.eligibility].outcome = "ELIGIBLE"
    /\ r.by = s[r.on.eligibility].by
    /\ r.on.supersedes = 0 \/ Is(s, r.on.supersedes, "intent")

ReceiptsFor(s, intent) == {i \in Of(s, "receipt") : s[i].on.intent = intent}
Contradicted(s, r) == \E i \in ReceiptsFor(s, r.on.intent) : s[i].data # r.data

ReceiptMay(s, r) ==
    /\ Is(s, r.on.intent, "intent")
    /\ r.by = s[r.on.intent].by

DispositionMay(s, r) == Is(s, r.on.readiness, "readiness")

(* A receipt that contradicts an earlier one is changed to call for        *)
(* reconciliation.  Its identity is computed again with the new status,    *)
(* and is refused when that is not the identity it came with.              *)
ReleaseComputed(s, r) ==
    LET Being(outcome) == Record(r.kind, r.on, r.data, r.by, outcome, r.as_of)
    IN  CASE r.kind = "risk"        -> Being(RiskOutcome(r))
          [] r.kind = "readiness"   -> Being(Verdict(s, r))
          [] r.kind = "eligibility" -> Being(EligibilityOutcome(r))
          [] r.kind = "receipt"     -> IF Contradicted(s, r) THEN Being("RECONCILIATION_REQUIRED") ELSE r
          [] OTHER                  -> r

ReleaseMay(s, r) ==
    /\ CASE r.kind = "risk"        -> TRUE
         [] r.kind = "readiness"   -> ReadinessMay(s, r)
         [] r.kind = "wait"        -> WaitMay(s, r)
         [] r.kind = "wake"        -> WakeMay(s, r)
         [] r.kind = "eligibility" -> EligibilityMay(s, r)
         [] r.kind = "intent"      -> IntentMay(s, r)
         [] r.kind = "receipt"     -> ReceiptMay(s, r)
         [] r.kind = "disposition" -> DispositionMay(s, r)
    /\ ReleaseIdentity(ReleaseComputed(s, r)) = ReleaseIdentity(r)
    /\ \A i \in Of(s, r.kind) : ReleaseIdentity(s[i]) # ReleaseIdentity(r)

-----------------------------------------------------------------------------
(* Fault: the status is not looked at.                                     *)
ReceiptStandsAnyhow(s, f) == Is(s, f.on.intent, "intent")

(* The reducer, which looks at the lineage once more.                      *)
ReceiptStands(s, f) ==
    /\ Is(s, f.on.intent, "intent")
    /\ f.outcome = "RECONCILIATION_REQUIRED" =>
          \E i \in ReceiptsFor(s, f.on.intent) : s[i].data = f.data

ReleaseTakes(s, f) ==
    /\ CASE f.kind = "risk"        -> TRUE
         [] f.kind = "readiness"   -> Is(s, f.on.risk, "risk")
         [] f.kind = "wait"        -> Is(s, f.on.readiness, "readiness") /\ Is(s, f.on.risk, "risk")
         [] f.kind = "wake"        -> Is(s, f.on.wait, "wait")
         [] f.kind = "eligibility" -> /\ Is(s, f.on.readiness, "readiness") /\ Is(s, f.on.wait, "wait")
                                      /\ f.on.wake = 0 \/ Is(s, f.on.wake, "wake")
         [] f.kind = "intent"      -> /\ Is(s, f.on.eligibility, "eligibility")
                                      /\ Is(s, f.on.readiness, "readiness") /\ Is(s, f.on.wait, "wait")
                                      /\ s[f.on.eligibility].outcome = "ELIGIBLE"
         [] f.kind = "receipt"     -> ReceiptStands(s, f)
         [] f.kind = "disposition" -> Is(s, f.on.readiness, "readiness")
    /\ \A i \in Of(s, f.kind) : ReleaseIdentity(s[i]) # ReleaseIdentity(f)

-----------------------------------------------------------------------------
(* Fault: the last word on a readiness counts alone.                       *)
DisposedOfLast(s, troubles) ==
    {s[i].on.readiness : i \in {j \in Of(s, "disposition") :
        /\ Troubles[s[j].data] \cap troubles # {}
        /\ \A k \in Of(s, "disposition") : k > j => s[k].on.readiness # s[j].on.readiness}}

(* current_resolution of the scope.                                        *)
DisposedOf(s, troubles) ==
    {s[i].on.readiness : i \in {j \in Of(s, "disposition") : Troubles[s[j].data] \cap troubles # {}}}

Active(s) ==
    {i \in Of(s, "readiness") : /\ "stale" \notin Troubles[s[i].data]
                                /\ i \notin DisposedOf(s, {"revoked", "superseded"})}

One(set) == \E i \in set : set = {i}
WaitsOn(s, i) == {w \in Of(s, "wait") : s[w].on.readiness = i}
AssessedOn(s, i) ==
    {e \in Of(s, "eligibility") : s[e].on.readiness = i /\ s[e].on.wait \in WaitsOn(s, i)}
DisposedOn(s, i) == {d \in Of(s, "disposition") : s[d].on.readiness = i}

(* Eligibilities are looked at only when there is one wait.                *)
InConflict(s, i) ==
    \/ Cardinality(WaitsOn(s, i)) > 1
    \/ One(WaitsOn(s, i)) /\ Cardinality(AssessedOn(s, i)) > 1
    \/ Cardinality(DisposedOn(s, i)) > 1

Resolution(s) ==
    CASE Of(s, "readiness") = {}        -> "UNKNOWN"
      [] Cardinality(Active(s)) > 1     -> "CONFLICT"
      [] Cardinality(Active(s)) = 1     -> IF \E i \in Active(s) : InConflict(s, i)
                                           THEN "CONFLICT" ELSE "CURRENT"
      [] Of(s, "readiness") # {} /\ Active(s) = {} ->
            IF DisposedOf(s, {"revoked"}) # {} THEN "REVOKED"
            ELSE IF DisposedOf(s, {"superseded"}) # {} THEN "SUPERSEDED" ELSE "STALE"

-----------------------------------------------------------------------------
(* R45ResumeBridge: the status of the answer of R2.                        *)
(* prior: the receipt the caller found for the intent, 0 for none.         *)
BridgeStatus(s, prior, result, status) ==
    CASE prior = 0                                 -> status
      [] prior # 0 /\ s[prior].data = result        -> "DUPLICATE"
      [] prior # 0 /\ s[prior].data # result        -> "RECONCILIATION_REQUIRED"
=============================================================================
