--------------------------------- MODULE Karma ---------------------------------
(***************************************************************************)
(* Karma of anonymous profiles.  A client reports a deed; the server looks *)
(* up whether this session did it and what it is worth, and stores it at   *)
(* most once for each profile, whatever community the client names.  A     *)
(* profile may be disabled, which takes its karma with it, and enabled     *)
(* again.  Every handler is one step.                                      *)
(***************************************************************************)
EXTENDS Naturals, FiniteSets

CONSTANTS Session,    \* sessions
          Profile,    \* ids of anonymous profiles (a bound)
          Community,  \* communities
          Deed,       \* reportable deeds: an action type and its subject
          None        \* JavaScript undefined, and null in a column

ActionType == {"civic_vote_cast", "ine_credential_issued", "anonymous_post_linked"}

\* What an instance must satisfy.
KarmaAssumption ==
    /\ None \notin Profile \cup Community
    /\ \A d \in Deed : d[1] \in ActionType

VARIABLES
    profiles,     \* anonymous_profiles: the profile of each session
    karma,        \* karma
    revelations,  \* karma_revelation
    deeds,        \* what the tables of the other components say a session did
    joined,       \* communities a session is an active member of
    done          \* history: everything a session ever did

kvars == <<profiles, karma, revelations, deeds, joined, done>>

----------------------------------------------------------------------------
Points(action) == CASE action = "civic_vote_cast" -> 2
                    [] action = "ine_credential_issued" -> 10
                    [] action = "anonymous_post_linked" -> 1

KarmaRow == [profile: Profile, deed: Deed, community: Community \cup {None},
             points: 1..10]
Revelation == [global: BOOLEAN, communities: SUBSET Community]
Hidden == [global |-> FALSE, communities |-> {}]

KarmaOf(p) == {k \in karma : k.profile = p}

\* The points of rows, and what deeds are worth, counted one by one: a sum of
\* points without recursion.
Total(rows) == Cardinality({x \in rows \X (1..10) : x[2] <= x[1].points})
Worth(S) == Cardinality({x \in S \X (1..10) : x[2] <= Points(x[1][1])})

----------------------------------------------------------------------------
Init ==
    /\ profiles = [s \in Session |-> None]
    /\ karma = {}
    /\ revelations = [p \in Profile |-> Hidden]
    /\ deeds = [s \in Session |-> {}]
    /\ joined = [s \in Session |-> {}]
    /\ done = [s \in Session |-> {}]

\* A vote is cast, a post is linked, a credential is issued.
Do(s, d) ==
    /\ deeds' = [deeds EXCEPT ![s] = @ \cup {d}]
    /\ done' = [done EXCEPT ![s] = @ \cup {d}]
    /\ UNCHANGED <<profiles, karma, revelations, joined>>

\* A credential is revoked; a vote stays the person's, whatever becomes of it.
LoseCredential(s) ==
    /\ deeds' = [deeds EXCEPT ![s] = {d \in @ : d[1] # "ine_credential_issued"}]
    /\ UNCHANGED <<profiles, karma, revelations, joined, done>>

ChangeMembership(s, c) ==
    /\ \/ joined' = [joined EXCEPT ![s] = @ \cup {c}]
       \/ joined' = [joined EXCEPT ![s] = @ \ {c}]
    /\ UNCHANGED <<profiles, karma, revelations, deeds, done>>

\* createAnonymousProfile; p is a fresh id.
EnableProfile(s, p) ==
    /\ profiles[s] = None
    /\ \A t \in Session : profiles[t] # p
    /\ profiles' = [profiles EXCEPT ![s] = p]
    /\ UNCHANGED <<karma, revelations, deeds, joined, done>>

\* Mutant of Cascade: rows outlive the profile they are of.
CascadeNone(p) == UNCHANGED <<karma, revelations>>

\* Foreign keys delete the karma and the revelation of a profile with it.
Cascade(p) ==
    /\ karma' = karma \ KarmaOf(p)
    /\ revelations' = [revelations EXCEPT ![p] = Hidden]

DisableProfile(s) ==
    /\ profiles[s] # None
    /\ Cascade(profiles[s])
    /\ profiles' = [profiles EXCEPT ![s] = None]
    /\ UNCHANGED <<deeds, joined, done>>

\* Mutant of Awarded: the same deed counts again for another community.
AwardedForCommunity(p, d, c) == \E k \in KarmaOf(p) : k.deed = d /\ k.community = c

\* The unique index: profile, action and subject.
Awarded(p, d, c) == \E k \in KarmaOf(p) : k.deed = d

Earn(s, d, c) ==
    LET p == profiles[s] IN
    /\ p # None
    /\ c # None => c \in joined[s]
    /\ d \in deeds[s]
    /\ ~Awarded(p, d, c)
    /\ karma' = karma \cup
           {[profile |-> p, deed |-> d, community |-> c, points |-> Points(d[1])]}
    /\ UNCHANGED <<profiles, revelations, deeds, joined, done>>

\* What the request leaves out is hidden again.
UpdateRevelation(s, revelation) ==
    /\ profiles[s] # None
    /\ revelations' = [revelations EXCEPT ![profiles[s]] = revelation]
    /\ UNCHANGED <<profiles, karma, deeds, joined, done>>

Next ==
    \/ \E s \in Session, d \in Deed : Do(s, d)
    \/ \E s \in Session : LoseCredential(s) \/ DisableProfile(s)
    \/ \E s \in Session, c \in Community : ChangeMembership(s, c)
    \/ \E s \in Session, p \in Profile : EnableProfile(s, p)
    \/ \E s \in Session, d \in Deed, c \in Community \cup {None} : Earn(s, d, c)
    \/ \E s \in Session, revelation \in Revelation : UpdateRevelation(s, revelation)

Spec == Init /\ [][Next]_kvars

----------------------------------------------------------------------------
(* Properties.                                                             *)

\* Rows have the shape the code gives them.
TypeOK ==
    /\ profiles \in [Session -> Profile \cup {None}]
    /\ karma \subseteq KarmaRow
    /\ revelations \in [Profile -> Revelation]
    /\ deeds \in [Session -> SUBSET Deed]
    /\ joined \in [Session -> SUBSET Community]
    /\ done \in [Session -> SUBSET Deed]

\* A profile has no more karma than what its session did is worth, each deed
\* once, however the session reports it and for whatever communities, and
\* however often it disables its profile and enables one again, since a
\* disabled profile leaves nothing behind (earn, karma_unique_action).
KarmaIsEarned ==
    /\ \A s \in Session : profiles[s] # None =>
           Total(KarmaOf(profiles[s])) <= Worth(done[s])
    /\ \A p \in Profile : (\A s \in Session : profiles[s] # p) =>
           KarmaOf(p) = {} /\ revelations[p] = Hidden
=============================================================================
