-------------------------- MODULE AnonymousIdentities --------------------------
(***************************************************************************)
(* The anonymous identities of sessions: a main voice, the card of the     *)
(* session's profile, and burners; the posts linked to them; and the       *)
(* private contact (Germ) an identity may offer under its posts.  An       *)
(* identity may be set to burn: it is archived once it has spoken, and a   *)
(* fresh one takes its place.                                              *)
(*                                                                         *)
(* Handlers are synchronous, but what they store is not in a transaction:  *)
(* the process may die between two statements.  Trust in devices, and the  *)
(* proof of a key that a request may carry, are left out: they refuse a    *)
(* request and change nothing.                                             *)
(***************************************************************************)
EXTENDS Naturals, Sequences, FiniteSets

CONSTANTS Session,        \* sessions
          Post,           \* URIs of posts
          MaxIdentities   \* identities of all sessions (a bound)

\* What an instance must satisfy.
IdentityAssumption == MaxIdentities \in Nat

VARIABLES
    identities,  \* anonymous_identities, in order of creation
    profile,     \* the identity that is the card of a session's profile, or 0
    posts,       \* anonymous_identity_posts
    germ,        \* anonymous_dm_connections: the state of an identity's contact
    spoken,      \* history: posts made by an identity that was to burn for
                 \* them, and was not taken up again since it was archived
    escaped,     \* history: those among them that it outlived, the process
                 \* having died before it was archived
    consented    \* history: posts whose owner last asked for private replies

avars == <<identities, profile, posts, germ, spoken, escaped, consented>>

----------------------------------------------------------------------------
(* Rows.                                                                   *)

Identity == 1..MaxIdentities

\* A card has the age of its profile, and exists once somebody asks for it:
\* until then it is unfolded.
IdentityRow == [session: Session, status: {"unfolded", "active", "archived"},
                burn: BOOLEAN]

PostRow == [identity: Identity, replies: BOOLEAN]
NoPost == [identity |-> 0, replies |-> FALSE]

Fresh(s, burn) == [session |-> s, status |-> "active", burn |-> burn]

\* The identities of a session among rows.
Of(s, rows) == {i \in DOMAIN rows : rows[i].session = s /\ rows[i].status # "unfolded"}
PostsOf(i) == {p \in Post : posts[p].identity = i}
Oldest(S) == CHOOSE i \in S : \A j \in S : i <= j

\* ensureDefaultAnonymousIdentity: the rows with the default identity, and
\* which one it is.
WithDefault(s) ==
    IF profile[s] # 0
    THEN IF identities[profile[s]].status = "unfolded"
         THEN [identities EXCEPT ![profile[s]].status = "active"]
         ELSE identities
    ELSE IF Of(s, identities) = {} THEN Append(identities, Fresh(s, FALSE))
         ELSE identities
Default(s, rows) == IF profile[s] # 0 THEN profile[s] ELSE Oldest(Of(s, rows))

\* Whether a private reply to a post is offered (resolveAnonymousContact).
Contactable(p) ==
    /\ posts[p].replies
    /\ identities[posts[p].identity].status = "active"
    /\ germ[posts[p].identity] = "active"

----------------------------------------------------------------------------
Init ==
    /\ identities = <<>>
    /\ profile = [s \in Session |-> 0]
    /\ posts = [p \in Post |-> NoPost]
    /\ germ = [i \in Identity |-> "none"]
    /\ spoken = {}
    /\ escaped = {}
    /\ consented = {}

\* enableAnonymous, and the end of an enrollment.
EnableProfile(s) ==
    /\ profile[s] = 0
    /\ Len(identities) < MaxIdentities
    /\ identities' = Append(identities, [Fresh(s, FALSE) EXCEPT !.status = "unfolded"])
    /\ profile' = [profile EXCEPT ![s] = Len(identities) + 1]
    /\ UNCHANGED <<posts, germ, spoken, escaped, consented>>

\* The card of a deleted profile stays, as one more identity.
DisableProfile(s) ==
    /\ profile[s] # 0
    /\ profile' = [profile EXCEPT ![s] = 0]
    /\ UNCHANGED <<identities, posts, germ, spoken, escaped, consented>>

\* Listing, and every request for the default identity that is then refused.
EnsureDefault(s) ==
    /\ Len(WithDefault(s)) <= MaxIdentities
    /\ identities' = WithDefault(s)
    /\ UNCHANGED <<profile, posts, germ, spoken, escaped, consented>>

CreateIdentity(s, burn) ==
    /\ Len(identities) < MaxIdentities
    /\ identities' = Append(identities, Fresh(s, burn))
    /\ UNCHANGED <<profile, posts, germ, spoken, escaped, consented>>

UpdateIdentity(s, i, status, burn) ==
    /\ i \in Of(s, identities)
    /\ identities' = [identities EXCEPT ![i].status = status, ![i].burn = burn]
    /\ IF identities[i].status = "archived" /\ status = "active"
       THEN spoken' = spoken \ PostsOf(i) /\ escaped' = escaped \ PostsOf(i)
       ELSE UNCHANGED <<spoken, escaped>>
    /\ UNCHANGED <<profile, posts, germ, consented>>

\* Mutant of Burn: the fresh identity is made, the one that spoke stays.
BurnNothing(rows, i) == Append(rows, Fresh(rows[i].session, TRUE))

\* An identity that burns is archived and replaced.
Burn(rows, i) ==
    Append([rows EXCEPT ![i].status = "archived"], Fresh(rows[i].session, TRUE))

\* A post that is linked already changes nothing, or is refused.
LinkPost(s, chosen, p) ==
    LET rows == IF chosen = 0 THEN WithDefault(s) ELSE identities
        i == IF chosen = 0 THEN Default(s, rows) ELSE chosen
    IN
    /\ Len(rows) <= MaxIdentities
    /\ i \in Of(s, rows)
    /\ rows[i].status = "active"
    /\ posts[p] = NoPost
    /\ posts' = [posts EXCEPT ![p] = [identity |-> i, replies |-> FALSE]]
    /\ IF rows[i].burn
       THEN /\ Len(rows) < MaxIdentities
            /\ identities' = Burn(rows, i)
            /\ spoken' = spoken \cup {p}
       ELSE identities' = rows /\ UNCHANGED spoken
    /\ UNCHANGED <<profile, germ, escaped, consented>>

\* The process dies with a burner's post stored, before the burner is archived
\* or before the fresh one is made.
CrashInLinkPost(s, i, p, archived) ==
    /\ i \in Of(s, identities)
    /\ identities[i].status = "active"
    /\ identities[i].burn
    /\ posts[p] = NoPost
    /\ posts' = [posts EXCEPT ![p] = [identity |-> i, replies |-> FALSE]]
    /\ spoken' = spoken \cup {p}
    /\ IF archived
       THEN identities' = [identities EXCEPT ![i].status = "archived"] /\ UNCHANGED escaped
       ELSE UNCHANGED identities /\ escaped' = escaped \cup {p}
    /\ UNCHANGED <<profile, germ, consented>>

\* updateAnonymousPostDmPolicy; an archived identity's post keeps its policy.
SetReplies(s, p, on) ==
    LET i == posts[p].identity IN
    /\ i \in Of(s, identities)
    /\ identities[i].status = "active"
    /\ on => germ[i] = "active"
    /\ posts' = [posts EXCEPT ![p].replies = on]
    /\ consented' = IF on THEN consented \cup {p} ELSE consented \ {p}
    /\ UNCHANGED <<identities, profile, germ, spoken, escaped>>

LinkGerm(s, i) ==
    /\ i \in Of(s, identities)
    /\ identities[i].status = "active"
    /\ germ' = [germ EXCEPT ![i] = "active"]
    /\ UNCHANGED <<identities, profile, posts, spoken, escaped, consented>>

\* Mutant of Silenced: only the contact is revoked.
SilencedNone(i) == posts

\* Every post of the identity is closed to private replies.
Silenced(i) ==
    [p \in Post |-> IF p \in PostsOf(i) THEN [posts[p] EXCEPT !.replies = FALSE]
                    ELSE posts[p]]

UnlinkGerm(s, i) ==
    /\ i \in Of(s, identities)
    /\ germ[i] = "active"
    /\ germ' = [germ EXCEPT ![i] = "revoked"]
    /\ posts' = Silenced(i)
    /\ consented' = consented \ PostsOf(i)
    /\ UNCHANGED <<identities, profile, spoken, escaped>>

\* The process dies between the two statements.
CrashInUnlink(s, i) ==
    /\ i \in Of(s, identities)
    /\ germ[i] = "active"
    /\ germ' = [germ EXCEPT ![i] = "revoked"]
    /\ UNCHANGED <<identities, profile, posts, spoken, escaped, consented>>

Next == \E s \in Session :
    \/ EnableProfile(s) \/ DisableProfile(s) \/ EnsureDefault(s)
    \/ \E burn \in BOOLEAN : CreateIdentity(s, burn)
    \/ \E i \in Identity, status \in {"active", "archived"}, burn \in BOOLEAN :
          UpdateIdentity(s, i, status, burn)
    \/ \E chosen \in Identity \cup {0}, p \in Post : LinkPost(s, chosen, p)
    \/ \E i \in Identity, p \in Post, archived \in BOOLEAN :
          CrashInLinkPost(s, i, p, archived)
    \/ \E p \in Post, on \in BOOLEAN : SetReplies(s, p, on)
    \/ \E i \in Identity : LinkGerm(s, i) \/ UnlinkGerm(s, i) \/ CrashInUnlink(s, i)

Spec == Init /\ [][Next]_avars

----------------------------------------------------------------------------
(* Properties.                                                             *)

\* Rows have the shape the code gives them.
TypeOK ==
    /\ identities \in Seq(IdentityRow) /\ Len(identities) <= MaxIdentities
    /\ profile \in [Session -> Identity \cup {0}]
    /\ posts \in [Post -> PostRow \cup {NoPost}]
    /\ germ \in [Identity -> {"none", "active", "revoked"}]
    /\ spoken \subseteq Post /\ escaped \subseteq spoken
    /\ consented \subseteq Post

\* An identity that burns speaks once, which is what burning is for: of two
\* posts it makes, one is of a request that died before the identity was
\* archived.  Nothing else but its owner, who may take up an archived identity
\* again, lets it make a second one (linkAnonymousPost).
BurnersSpeakOnce ==
    \A p, q \in spoken :
        posts[p].identity = posts[q].identity => p = q \/ p \in escaped \/ q \in escaped

\* What a comment of the code says of an identity that burns: it is archived
\* once it has spoken (linkAnonymousPost).
ArchivedOnceSpoken ==
    \A p \in spoken : identities[posts[p].identity].status = "archived"

\* A post offers private replies only if its owner asked for them since a
\* request to unlink the contact last succeeded, also when the identity was
\* archived and taken up again, or the contact linked again, in between
\* (unlinkGermContact, updateAnonymousPostDmPolicy).
ContactWasAskedFor ==
    \A p \in Post : posts[p] # NoPost /\ Contactable(p) => p \in consented
=============================================================================
