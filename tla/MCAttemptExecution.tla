-------------------------- MODULE MCAttemptExecution --------------------------
(* Two callers that work on one Task in two Sessions.                      *)
EXTENDS AttemptExecution, TLC

CONSTANTS c1, c2, t1, a1, a2, s1, s2, r1, p1, p2

MCSymmetry == Permutations(Callers) \cup Permutations(Attempts)
              \cup Permutations(Sessions) \cup Permutations(Providers)
=============================================================================
