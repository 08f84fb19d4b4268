---------------------------- MODULE MCDispatchLoop ----------------------------
(* Three Tasks, the third behind the first; Human Gates on the first.      *)
EXTENDS DispatchLoop

CONSTANTS t1, t2, t3

MCOrder == << t1, t2, t3 >>
MCBefore == {<<t1, t3>>}

(* A question that is answered with nothing to do or with a new Plan, or   *)
(* refused.                                                                *)
MCAllowed == [open |-> {<<"APPROVED", "NONE">>, <<"APPROVED", "PLAN_REVISION">>, <<"REJECTED", "BLOCK">>}]

MCOtherEvents ==
    {<<"attempt.started", t1>>, <<"attempt.resumed", t1>>, <<"SUCCEEDED", t1>>,
     <<"FAILED", t1>>, <<"plan.revised", t1>>}
=============================================================================
