-------------------------- MODULE MCSessionRotation --------------------------
(* SessionRotation for TLC. Callers are interchangeable: no action compares *)
(* them with anything but themselves.                                       *)
EXTENDS SessionRotation, TLC

CallersAlike == Permutations(Callers)
=============================================================================
