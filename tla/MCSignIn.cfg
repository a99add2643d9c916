\* Two attempts, so that two first sign-ins of one person race; two codes;
\* three tokens, so that a bundle can be rotated twice.
CONSTANTS
    Did = {d1}
    Attempt = {a1, a2}
    Session = {s1, s2}
    Code = {c1, c2}
    Token = {t1, t2, t3}
    Request = {r1, r2}
    NoDid = NoDid
    NoAttempt = NoAttempt
    NoToken = NoToken
SPECIFICATION Spec
SYMMETRY Symmetry
INVARIANTS
    TypeOK
    OneBundlePerAttempt
    OneSessionPerDid
    ReplacedIsRevoked
PROPERTIES
    AttemptsSettleOnce
    RetirementIsFinal
\* The pools of attempts, codes and tokens run out.
CHECK_DEADLOCK FALSE
