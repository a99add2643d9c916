\* Two requests that may present one commitment, two bindings, three challenges.
CONSTANTS
    Binding = {b1, b2}
    Key = {k1, k2}
    Commitment = {m1}
    Enrollment = {e1, e2}
    Request = {r1, r2}
    MaxChallenge = 3
    NoBinding = NoBinding
    NoKey = NoKey
    NoCommitment = NoCommitment
    NoEnrollment = NoEnrollment
SPECIFICATION Spec
SYMMETRY Symmetry
INVARIANTS
    TypeOK
    ChallengeUsedOnce
    MailboxHoldsOwnKey
    OneActivePerCommitment
PROPERTIES
    RelayIsMailbox
\* Bindings, enrollments and challenges run out.
CHECK_DEADLOCK FALSE
