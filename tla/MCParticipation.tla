---------------------------- MODULE MCParticipation ----------------------------
(***************************************************************************)
(* Taking part in communities, by name or anonymously: memberships,        *)
(* nullifiers of zero-knowledge proofs, the karma of anonymous profiles,   *)
(* the identities of sessions with their posts and private contacts, who   *)
(* follows whom, and the entries of Pajareo.  The components share no row  *)
(* that one reads and another changes (karma reads memberships, and Karma  *)
(* lets them change at any time), so that interleaving them would show     *)
(* nothing: each behaviour is one of one component, chosen at the start.   *)
(***************************************************************************)
EXTENDS Naturals, FiniteSets, TLC

CONSTANTS Components,  \* the components an instance looks at
          Did, Request, Commitment, Community, Session, Profile, Post,
          Speaker, MaxIdentities, Burner, Entry, MaxResponses, None

VARIABLES component,
          memberships, admins, requests, asked,
          artifacts, nullifiers, zkRequests, accepted,
          profiles, karma, revelations, deeds, joined, done,
          identities, profile, posts, germ, spoken, escaped, consented,
          owner, cards, follows, former,
          entries, linked, supports, reports, responses, missed

Members == INSTANCE Memberships WITH NoDid <- None
Zk == INSTANCE ZkNullifiers WITH NoCommitment <- None, requests <- zkRequests

\* A vote, a credential and a post.
Deed == {<<"civic_vote_cast", "vote">>, <<"ine_credential_issued", "ine">>} \cup
        {<<"anonymous_post_linked", p>> : p \in Post}
Awards == INSTANCE Karma WITH Session <- Speaker

Identities == INSTANCE AnonymousIdentities WITH Session <- Speaker
Followers == INSTANCE AnonymousFollows
Voices == INSTANCE Pajareo

AllComponents == {"memberships", "nullifiers", "karma", "identities", "follows", "pajareo"}

\* The bounds suit each of the components.
ASSUME ConstantsAssumption ==
    /\ Components \subseteq AllComponents
    /\ Members!DidAssumption
    /\ Zk!CommitmentAssumption
    /\ Awards!KarmaAssumption
    /\ Identities!IdentityAssumption
    /\ Followers!FollowAssumption
    /\ Voices!PajareoAssumption

mvars == <<memberships, admins, requests, asked>>
zvars == <<artifacts, nullifiers, zkRequests, accepted>>
kvars == <<profiles, karma, revelations, deeds, joined, done>>
avars == <<identities, profile, posts, germ, spoken, escaped, consented>>
fvars == <<owner, cards, follows, former>>
pvars == <<entries, linked, supports, reports, responses, missed>>
vars == <<component, mvars, zvars, kvars, avars, fvars, pvars>>

Init ==
    /\ component \in Components
    /\ Members!Init /\ Zk!Init /\ Awards!Init
    /\ Identities!Init /\ Followers!Init /\ Voices!Init

Next ==
    \/ /\ component = "memberships"
       /\ Members!Next
       /\ UNCHANGED <<component, zvars, kvars, avars, fvars, pvars>>
    \/ /\ component = "nullifiers"
       /\ Zk!Next
       /\ UNCHANGED <<component, mvars, kvars, avars, fvars, pvars>>
    \/ /\ component = "karma"
       /\ Awards!Next
       /\ UNCHANGED <<component, mvars, zvars, avars, fvars, pvars>>
    \/ /\ component = "identities"
       /\ Identities!Next
       /\ UNCHANGED <<component, mvars, zvars, kvars, fvars, pvars>>
    \/ /\ component = "follows"
       /\ Followers!Next
       /\ UNCHANGED <<component, mvars, zvars, kvars, avars, pvars>>
    \/ /\ component = "pajareo"
       /\ Voices!Next
       /\ UNCHANGED <<component, mvars, zvars, kvars, avars, fvars>>

Spec == Init /\ [][Next]_vars

TypeOK ==
    /\ Members!TypeOK /\ Zk!TypeOK /\ Awards!TypeOK
    /\ Identities!TypeOK /\ Followers!TypeOK /\ Voices!TypeOK

\* The properties of the components, which state them.
MembersAsked == Members!MembersAsked
AcceptedOnce == Zk!AcceptedOnce
KarmaIsEarned == Awards!KarmaIsEarned
BurnersSpeakOnce == Identities!BurnersSpeakOnce
ArchivedOnceSpoken == Identities!ArchivedOnceSpoken
ContactWasAskedFor == Identities!ContactWasAskedFor
FollowersAreOthers == Followers!FollowersAreOthers
CountersTellRows == Voices!CountersTellRows

\* Posts are linked, and set, but never compared.
Symmetry == Permutations(Post)
=============================================================================
