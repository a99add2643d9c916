------------------------------ MODULE MCSignIn ------------------------------
(* Instances of SignIn for TLC: identities, ids and requests are            *)
(* interchangeable.                                                         *)
EXTENDS SignIn, TLC

Symmetry == Permutations(Did) \cup Permutations(Attempt)
            \cup Permutations(Session) \cup Permutations(Code)
            \cup Permutations(Token) \cup Permutations(Request)
=============================================================================
