\* Two people and two handlers of memberships; a proof sent by two handlers for
\* two communities; a speaker with three profiles in the course of time, a deed
\* of each kind and one more post, and three identities; two sessions that
\* follow each other's profiles, and a burner; one entry of Pajareo, with as
\* many responses as sessions.
CONSTANTS
    Components = {"memberships", "nullifiers", "karma", "identities", "follows", "pajareo"}
    Did = {did1, did2}
    Request = {r1, r2}
    Commitment = {commitment1, commitment2}
    Community = {c1, c2}
    Session = {s1, s2}
    Profile = {anon1, anon2, anon3}
    Post = {post1, post2}
    Speaker = {speaker1}
    MaxIdentities = 3
    Burner = {burner1}
    Entry = {entry1}
    MaxResponses = 2
    None = None
SPECIFICATION Spec
SYMMETRY Symmetry
INVARIANTS
    TypeOK
    MembersAsked
    AcceptedOnce
    KarmaIsEarned
    BurnersSpeakOnce
    ContactWasAskedFor
    FollowersAreOthers
    CountersTellRows
\* Every commitment may be revoked with its nullifiers used up, and every entry
\* of Pajareo have all its supports, reports and responses.
CHECK_DEADLOCK FALSE
