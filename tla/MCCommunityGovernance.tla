----------------------- MODULE MCCommunityGovernance -----------------------
(* Small instances of CommunityGovernance for TLC.                         *)
EXTENDS CommunityGovernance, TLC

\* People, actions and requests are interchangeable: no definition picks one.
Symmetry == Permutations(Did) \cup Permutations(ActionId) \cup Permutations(Request)
=============================================================================
