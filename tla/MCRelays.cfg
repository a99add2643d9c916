\* Two keys and two actions on three challenges; three signature requests of
\* two sessions, which may have two pending; one identity request and one
\* credential; an address that asks for two categories, of which three refusals
\* are an alert.
CONSTANTS
    Session = {s1, s2}
    Key = {key1, key2}
    Action = {follow, post}
    Nonce = {n1, n2, n3}
    Challenge = {c1}
    Jti = {jti1, jti2}
    SignId = {i1, i2, i3}
    Request = {r1}
    Credential = {cred1}
    Element = {age, curp}
    Linkable = {curp}
    Address = {address1}
    Category = {read, vote}
    MaxPending = 2
    Lifetime = 1
    MaxAge = 1
    Limit = 2
    Window = 3
    AlertAt = 3
    MaxEvents = 3
    None = None
SPECIFICATION Spec
INVARIANTS
    TypeOK
    ProofSpentOnce
    OneAnswer
PROPERTIES
    PresentationIsMailbox
    CanAskAgain
\* Everything may have been asked for, answered and read.
CHECK_DEADLOCK FALSE
