----------------------------- MODULE MCGrantBroker -----------------------------
(* Instances of GrantBroker for TLC: grants, artifacts and requests are     *)
(* interchangeable.                                                         *)
EXTENDS GrantBroker, TLC

Symmetry == Permutations(Grant) \cup Permutations(Proof) \cup Permutations(Request)
=============================================================================
