\* One speaker, who makes a burner speak while the process dies.
CONSTANTS
    Components = {"identities"}
    Did = {}
    Request = {}
    Commitment = {}
    Community = {}
    Session = {}
    Profile = {}
    Post = {post1, post2}
    Speaker = {speaker1}
    MaxIdentities = 2
    Burner = {}
    Entry = {}
    MaxResponses = 0
    None = None
SPECIFICATION Spec
INVARIANTS
    ArchivedOnceSpoken
\* A server all of whose posts are linked may rest.
CHECK_DEADLOCK FALSE
