------------------------- MODULE MCCredentialIssuance -------------------------
(* Instances of CredentialIssuance for TLC: ids, keys and commitments are   *)
(* interchangeable.                                                         *)
EXTENDS CredentialIssuance, TLC

Symmetry == Permutations(Binding) \cup Permutations(Key)
            \cup Permutations(Commitment) \cup Permutations(Enrollment)
            \cup Permutations(Request)
=============================================================================
