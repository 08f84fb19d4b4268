------------------------------ MODULE MCHumanGate ------------------------------
(* Two people and two gates on one lineage.                                *)
EXTENDS HumanGate

CONSTANTS t1, p1, p2, g1, g2

(* A question in time, to be answered with nothing to do, to be continued  *)
(* by a resumed Attempt or a new Plan, or to be refused.                   *)
MCAllowed == [timed |-> {<<"APPROVED", "NONE">>, <<"APPROVED", "RESUME_EXECUTION">>, <<"REJECTED", "BLOCK">>}]

MCOtherEvents == {<<"attempt.resumed", t1>>}
MCOtherMay(type, l) == \A i \in 1..HeadSeq : stream[i].type # type
MCCanOpen(l) == TRUE
MCSymmetry == Permutations({p1, p2}) \cup Permutations({g1, g2})
=============================================================================
