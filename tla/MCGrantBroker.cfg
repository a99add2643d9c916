\* A grant of up to two claims of every kind of contract, and two requests:
\* two approvals race with each other and with revocations, with artifacts
\* enough for both.
CONSTANTS
    Grant = {g1}
    DirectVerify = DirectVerify
    Proof = {p1, p2, p3, p4}
    Request = {r1, r2}
    Kinds = {"identity_verification", "party_affiliation", "backup_coverage"}
    MaxClaims = 2
    NoGrant = NoGrant
SPECIFICATION Spec
SYMMETRY Symmetry
INVARIANTS
    TypeOK
    OnlyApprovedGrantsAreProven
    ApprovedGrantsListTheirProofs
PROPERTIES
    RevocationIsFinal
\* The pools of grants and artifacts run out.
CHECK_DEADLOCK FALSE
