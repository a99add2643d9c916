\* Four people, so that one administrator can be removed; two actions and two
\* vote requests, so that two removals can race, and a third vote on a low
\* impact action can be in flight while the action is executed.
CONSTANTS
    Did = {d1, d2, d3, d4}
    ActionId = {a1, a2}
    Request = {r1, r2}
    Types = {"admin_add", "admin_remove", "blog_post"}
    NoDid = NoDid
    NoAction = NoAction
SPECIFICATION Spec
SYMMETRY Symmetry
INVARIANTS
    TypeOK
    ActiveHasQuorum
    OutcomeMatchesVotes
    ExecutionsBounded
    ApprovedHasExecutor
PROPERTIES
    VotesFinal
    AdminChangesNeedGovernance
\* A server with no request in flight and every action decided may rest.
CHECK_DEADLOCK FALSE
