\* A community of three administrators publishes a post with two approvals
\* while the third vote is still being verified.
CONSTANTS
    Did = {d1, d2, d3}
    ActionId = {a1}
    Request = {r1, r2}
    Types = {"blog_post"}
    NoDid = NoDid
    NoAction = NoAction
SPECIFICATION Spec
PROPERTIES
    VotesOnlyWhilePending
CHECK_DEADLOCK FALSE
