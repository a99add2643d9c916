--------------------------- MODULE AnonymousFollows ---------------------------
(***************************************************************************)
(* Who follows which anonymous voice.  Only the profile of a session can   *)
(* be followed; a request names it by its id or by that of its card, the   *)
(* identity it is folded into once somebody asks for it.  A card outlives  *)
(* its profile and is then an isolated identity like any burner.           *)
(***************************************************************************)
EXTENDS Naturals, FiniteSets

CONSTANTS Session,  \* sessions
          Profile,  \* ids of anonymous profiles (a bound)
          Burner,   \* ids of identities that are no profile's card
          None      \* JavaScript undefined

\* What an instance must satisfy.
FollowAssumption ==
    None \notin Session \cup Profile \cup Burner

VARIABLES
    owner,    \* anonymous_profiles: the session of each profile
    cards,    \* profiles, past or present, whose card exists
    follows,  \* anonymous_follows
    former    \* history: the session a profile belonged to

fvars == <<owner, cards, follows, former>>

----------------------------------------------------------------------------
\* What a request may name.
Target == ({"profile", "card"} \X Profile) \cup ({"burner"} \X Burner)

HasProfile(s) == \E p \in Profile : owner[p] = s

\* The profiles a target leads to: one, or none for a burner, a card that lost
\* its profile, or an id nothing has (resolveFollowTarget).
Resolve(t) ==
    {p \in Profile : /\ owner[p] # None
                     /\ t[2] = p
                     /\ t[1] = "profile" \/ (t[1] = "card" /\ p \in cards)}

----------------------------------------------------------------------------
Init ==
    /\ owner = [p \in Profile |-> None]
    /\ cards = {}
    /\ follows = {}
    /\ former = [p \in Profile |-> None]

EnableProfile(s, p) ==
    /\ ~HasProfile(s)
    /\ former[p] = None
    /\ owner' = [owner EXCEPT ![p] = s]
    /\ former' = [former EXCEPT ![p] = s]
    /\ UNCHANGED <<cards, follows>>

\* Its followers go with it; whom the session follows stays.
DisableProfile(p) ==
    /\ owner[p] # None
    /\ owner' = [owner EXCEPT ![p] = None]
    /\ follows' = {f \in follows : f.voice # p}
    /\ UNCHANGED <<cards, former>>

FoldCard(p) ==
    /\ owner[p] # None
    /\ cards' = cards \cup {p}
    /\ UNCHANGED <<owner, follows, former>>

\* Mutant of OwnVoice: a profile is recognised by the id in the request.
OwnVoiceById(s, t, p) == t[1] = "profile" /\ owner[p] = s

OwnVoice(s, t, p) == owner[p] = s

Follow(s, t) ==
    \E p \in Resolve(t) :
        /\ HasProfile(s)
        /\ ~OwnVoice(s, t, p)
        /\ follows' = follows \cup {[follower |-> s, voice |-> p]}
        /\ UNCHANGED <<owner, cards, former>>

Unfollow(s, t) ==
    \E p \in Resolve(t) :
        /\ follows' = follows \ {[follower |-> s, voice |-> p]}
        /\ UNCHANGED <<owner, cards, former>>

Next ==
    \/ \E s \in Session, p \in Profile : EnableProfile(s, p)
    \/ \E p \in Profile : DisableProfile(p) \/ FoldCard(p)
    \/ \E s \in Session, t \in Target : Follow(s, t) \/ Unfollow(s, t)

Spec == Init /\ [][Next]_fvars

----------------------------------------------------------------------------
(* Properties.                                                             *)

\* Rows have the shape the code gives them.
TypeOK ==
    /\ owner \in [Profile -> Session \cup {None}]
    /\ cards \subseteq Profile
    /\ follows \subseteq [follower: Session, voice: Profile]
    /\ former \in [Profile -> Session \cup {None}]

\* What is followed is a voice that exists and is somebody else's, whatever id
\* it was named by and however profiles came and went since: nobody raises the
\* count of their own followers (followAnonymousProfile).
FollowersAreOthers ==
    \A f \in follows : owner[f.voice] # None /\ owner[f.voice] # f.follower
=============================================================================
