\* One issuance through one wallet, which may decline while it runs.
CONSTANTS
    Binding = {b1}
    Key = {k1}
    Commitment = {m1}
    Enrollment = {e1}
    Request = {r1}
    MaxChallenge = 2
    NoBinding = NoBinding
    NoKey = NoKey
    NoCommitment = NoCommitment
    NoEnrollment = NoEnrollment
SPECIFICATION Spec
PROPERTIES
    DeliveredCredentialsWait
CHECK_DEADLOCK FALSE
