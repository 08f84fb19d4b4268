---------------------------- MODULE MCToolExecution ----------------------------
(* ToolExecution on one execution that may be carried out and one whose    *)
(* adapter is refused, with retries, stale requests and conflicting keys.  *)
EXTENDS ToolExecution, TLC

CONSTANTS x1, x2, k1, a1, a2, o1, b1, b2, v1, v2

Req(id, key, seq, x) ==
    [command_id |-> id, idempotency_key |-> key, expected_seq |-> seq, tool_execution_id |-> x]
Rec(id, seq, x, rid, obs) ==
    [command_id |-> id, idempotency_key |-> NoKey, expected_seq |-> seq,
     tool_execution_id |-> x, reconciliation_id |-> rid, observation |-> obs]
Evi(id, seq, x, fact) ==
    [command_id |-> id, idempotency_key |-> NoKey, expected_seq |-> seq,
     tool_execution_id |-> x, evidence_id |-> "e", fact_seq |-> fact]

(* The same request under two command_ids, one of them through the bridge; *)
(* a second execution that reuses command_id and key, at a seq that may be *)
(* stale.                                                                  *)
MCRequests == { Req(a1, k1, 0, x1), Req(a1, k1, 1, x2) }
MCBridgeRequests == { Req(a2, k1, 0, x1) }
MCReconciles == { Rec(b1, 1, x1, "r1", "CONFIRMED"), Rec(b2, 2, x1, "r1", "REJECTED") }
MCOutcomes == { [command_id |-> o1, idempotency_key |-> NoKey, expected_seq |-> 1,
                 tool_execution_id |-> x1, observation |-> "CONFIRMED"] }
MCEvidence == { Evi(v1, 2, x1, 2), Evi(v2, 3, x1, 2) }

MCSymmetry == Permutations(Callers)
=============================================================================
