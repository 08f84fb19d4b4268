----------------------------- MODULE MCClosedLoop -----------------------------
(* Two callers on one cycle that only lacks the answer of R4_5.            *)
EXTENDS ClosedLoop

CONSTANTS c1, a1, p1, p2, q1

MCResult(outcome, revision) ==
    [outcome |-> outcome, revision |-> revision, authority_id |-> a1]
MCResults ==
    {MCResult("APPLIED", 9), MCResult("REJECTED", 10), MCResult("UNKNOWN", NoRevision)}

(* The texts "9" and "10".                                                 *)
MCTextBefore(a, b) == a = 10 /\ b = 9

MCOperation(authority) ==
    [phase |-> "READINESS_OBSERVED", revision |-> 1, authority |-> authority, request |-> q1]
MCPast ==
    << [type |-> "register", cycle |-> c1],
       [type |-> "observe", cycle |-> c1, phase |-> "READINESS_OBSERVED", authority |-> "R4_5"],
       [type |-> "request", cycle |-> c1, operation |-> MCOperation("R3_7")],
       [type |-> "receipt", cycle |-> c1, operation |-> MCOperation("R3_7"),
        result |-> MCResult("APPLIED", 9)],
       [type |-> "request", cycle |-> c1, operation |-> MCOperation("R4_5")] >>
MCPastRegistered == << [type |-> "register", cycle |-> c1] >>
MCSymmetry == Permutations(LoopCallers)
=============================================================================
