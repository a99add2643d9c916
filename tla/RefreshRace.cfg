\* One person signed in once, whose app sends two refreshes of one token.
CONSTANTS
    Did = {d1}
    Attempt = {a1}
    Session = {s1}
    Code = {c1}
    Token = {t1, t2, t3}
    Request = {r1, r2}
    NoDid = NoDid
    NoAttempt = NoAttempt
    NoToken = NoToken
SPECIFICATION Spec
INVARIANTS
    RotatedOnce
CHECK_DEADLOCK FALSE
