\* Two people in two sessions and three enrollments, so that a person enrolls
\* twice and a session changes hands; the second URI is what a delegation may
\* be limited to; a spare root.
CONSTANTS
    Person = {p1, p2}
    Session = {s1, s2}
    Root = {root1, root2, root3}
    Delegation = {d1}
    u1 = u1
    u2 = u2
    Uri = {u1, u2}
    CommunityUri = {u1}
    Subject <- MCSubject
    MaxEnrollments = 3
    NoPerson = NoPerson
SPECIFICATION Spec
SYMMETRY Symmetry
INVARIANTS
    TypeOK
    CountedWasAuthorised
PROPERTIES
    OnePersonOneVote
    NothingNewOnceRevoked
\* Enrollments and delegations are used up.
CHECK_DEADLOCK FALSE
