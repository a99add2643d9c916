\* One direct verification.
CONSTANTS
    Grant = {g1}
    DirectVerify = DirectVerify
    Proof = {p1}
    Request = {r1}
    Kinds = {"party_affiliation"}
    MaxClaims = 1
    NoGrant = NoGrant
SPECIFICATION Spec
INVARIANTS
    DirectVerifyIsStored
CHECK_DEADLOCK FALSE
