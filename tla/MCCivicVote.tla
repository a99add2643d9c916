------------------------------ MODULE MCCivicVote ------------------------------
(* Instances of CivicVote for TLC: people, sessions, roots and delegations  *)
(* are interchangeable.                                                     *)
EXTENDS CivicVote, TLC

CONSTANTS u1, u2

\* A community's cabildeo, and a vote of its members under the same URI.
MCSubject == {<<"cabildeo", u1>>, <<"community_proposal", u1>>}

Symmetry == Permutations(Person) \cup Permutations(Session)
            \cup Permutations(Root) \cup Permutations(Delegation)
=============================================================================
