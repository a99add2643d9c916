------------------------------- MODULE CivicVote -------------------------------
(***************************************************************************)
(* Civic votes and delegation.  A session enrolls a person; the key of the *)
(* enrollment leads to the person's root, and the root and the subject to  *)
(* a nullifier, the only name under which a ballot is counted.  A ballot   *)
(* is counted on a proof issued to the voter, or on a delegation that the  *)
(* one who counts turns into a nullifier.                                  *)
(*                                                                         *)
(* A person may enroll again in other sessions and with another            *)
(* commitment, and revoke enrollments, and one session may have enrolled   *)
(* two people.  All handlers are synchronous: each is one step.  What a    *)
(* proof binds beside the nullifier (the author and the choice) is left    *)
(* out, and the secret that authenticates proofs is configured.            *)
(***************************************************************************)
EXTENDS Naturals, Sequences, FiniteSets

CONSTANTS Person,          \* people; the CURP of a credential names one
          Session,         \* sessions, one for each account
          Root,            \* ids of person roots (a bound)
          Delegation,      \* ids of delegation grants (a bound)
          Uri,             \* subjects put to the vote
          CommunityUri,    \* subjects in the repository of a known community
          Subject,         \* what can be voted on: a subject type and a URI
          MaxEnrollments,  \* enrollments of all sessions (a bound)
          NoPerson         \* JavaScript undefined

SubjectType == {"cabildeo", "policy", "matter", "governance", "raq_axis",
                "raq_proposal", "community_proposal", "community_deliberation",
                "open_question_reply"}

ASSUME ConstantsAssumption ==
    /\ NoPerson \notin Person
    /\ CommunityUri \subseteq Uri
    /\ Subject \subseteq SubjectType \X Uri
    /\ MaxEnrollments \in Nat
    /\ IsFiniteSet(Root)

VARIABLES
    enrollments,  \* proof_artifacts of each session's enrollments, in order
    members,      \* community_memberships: sessions of active members
    roots,        \* person_roots: the key each root is filed under
    nullifiers,   \* civic_vote_nullifiers
    delegations,  \* civic_delegation_grants, with what their proof binds
    counted       \* history: the nullifiers accepted on each subject, and the
                  \* person behind each

vars == <<enrollments, members, roots, nullifiers, delegations, counted>>

----------------------------------------------------------------------------
(* Rows.                                                                   *)

\* Mutant of PersonKey: the key depends on the session that enrolls.
PersonKeyPerSession(p, s) == <<p, s>>

\* The key is derived from the CURP alone.
PersonKey(p, s) == p
PersonKeys == {PersonKey(p, s) : p \in Person, s \in Session}

\* ended: revoked or expired, for good.
EnrollmentStatus == {"active", "suspended", "ended"}
Enrollment == [person: Person, key: PersonKeys, status: EnrollmentStatus]

\* scope: the cabildeo an active delegation is for, or the string "passive".
\* person: who delegated, history.
DelegationRow == [root: Root, person: Person, scope: Uri \cup {"passive"}]
NoDelegation == [root |-> "none", person |-> NoPerson, scope |-> "none"]

EnrollmentsMade == UNION {{s} \X DOMAIN enrollments[s] : s \in Session}

Max(S) == CHOOSE n \in S : \A k \in S : k <= n

\* Mutant of Usable: the artifact's status is not looked at.
UsableAnyStatus(s) == DOMAIN enrollments[s]

Usable(s) == {i \in DOMAIN enrollments[s] : enrollments[s][i].status = "active"}

\* The enrollment that speaks for a session: the latest one that is active.
Credential(s) == enrollments[s][Max(Usable(s))]

RootsOf(key) == {r \in Root : roots[r] = key}

\* computeVoteNullifier: the hash of the root and the subject.
VoteNullifier(r, subject) == <<r, subject>>

----------------------------------------------------------------------------
Init ==
    /\ enrollments = [s \in Session |-> <<>>]
    /\ members = {}
    /\ roots = [r \in Root |-> NoPerson]
    /\ nullifiers = {}
    /\ delegations = [d \in Delegation |-> NoDelegation]
    /\ counted = [subject \in Subject |-> {}]

\* Storing a verified INE credential, under a commitment of its own.
Enroll(s, p) ==
    /\ Cardinality(EnrollmentsMade) < MaxEnrollments
    /\ enrollments' = [enrollments EXCEPT ![s] = Append(@,
           [person |-> p, key |-> PersonKey(p, s), status |-> "active"])]
    /\ UNCHANGED <<members, roots, nullifiers, delegations, counted>>

Transitions == {<<"active", "suspended">>, <<"active", "ended">>,
                <<"suspended", "active">>, <<"suspended", "ended">>}

ChangeStatus(s, i, status) ==
    /\ <<enrollments[s][i].status, status>> \in Transitions
    /\ enrollments' = [enrollments EXCEPT ![s][i].status = status]
    /\ UNCHANGED <<members, roots, nullifiers, delegations, counted>>

\* A membership is approved or left.
ChangeMembership(s) ==
    /\ \/ members' = members \cup {s}
       \/ members' = members \ {s}
    /\ UNCHANGED <<enrollments, roots, nullifiers, delegations, counted>>

\* resolvePersonRoot: r is the root filed under the session's credential, or a
\* new one; an update of person_roots.
ResolveRoot(s, r) ==
    /\ Usable(s) # {}
    /\ LET key == Credential(s).key IN
       \/ /\ r \in RootsOf(key)
          /\ UNCHANGED roots
       \/ /\ RootsOf(key) = {}
          /\ roots[r] = NoPerson
          /\ roots' = [roots EXCEPT ![r] = key]

\* Community votes are for active members, where the community is known here.
MayVoteOn(s, subject) ==
    /\ subject[1] \in {"community_proposal", "community_deliberation"}
    /\ subject[2] \in CommunityUri
    => s \in members

\* A proof for one more option, signal or account is issued on the row there is.
IssueProof(s, subject, r) ==
    /\ MayVoteOn(s, subject)
    /\ ResolveRoot(s, r)
    /\ nullifiers' = nullifiers \cup
           {[root |-> r, subject |-> subject, person |-> Credential(s).person]}
    /\ UNCHANGED <<enrollments, members, delegations, counted>>

\* The server's verdict on a proof it issued; only cabildeo and policy proofs
\* are authenticated, so only those can be put to it.
VerifyProof(n) ==
    /\ n.subject[1] \in {"cabildeo", "policy"}
    /\ counted' = [counted EXCEPT ![n.subject] = @ \cup
           {[nullifier |-> VoteNullifier(n.root, n.subject), person |-> n.person]}]
    /\ UNCHANGED <<enrollments, members, roots, nullifiers, delegations>>

IssueDelegation(s, d, scope, r) ==
    /\ delegations[d] = NoDelegation
    /\ ResolveRoot(s, r)
    /\ delegations' = [delegations EXCEPT ![d] =
           [root |-> r, person |-> Credential(s).person, scope |-> scope]]
    /\ UNCHANGED <<enrollments, members, nullifiers, counted>>

\* Mutant of InScope: an active delegation is good for every subject.
InScopeAlways(d, uri) == TRUE

InScope(d, uri) == delegations[d].scope \in {"passive", uri}

\* Mutant of DelegatedNullifier: it names the grant instead of the person.
DelegatedNullifierOfGrant(d, subject) == VoteNullifier(d, subject)

DelegatedNullifier(d, subject) == VoteNullifier(delegations[d].root, subject)

\* The resolver of the tally asks for the nullifier behind a delegation.  Its
\* subject is always taken for a cabildeo, and no row is stored.
ResolveDelegation(d, uri) ==
    /\ delegations[d] # NoDelegation
    /\ InScope(d, uri)
    /\ LET subject == <<"cabildeo", uri>> IN
       /\ subject \in Subject
       /\ counted' = [counted EXCEPT ![subject] = @ \cup
              {[nullifier |-> DelegatedNullifier(d, subject),
                person |-> delegations[d].person]}]
    /\ UNCHANGED <<enrollments, members, roots, nullifiers, delegations>>

Next ==
    \/ \E s \in Session, p \in Person : Enroll(s, p)
    \/ \E s \in Session : \E i \in DOMAIN enrollments[s], status \in EnrollmentStatus :
          ChangeStatus(s, i, status)
    \/ \E s \in Session : ChangeMembership(s)
    \/ \E s \in Session, subject \in Subject, r \in Root : IssueProof(s, subject, r)
    \/ \E n \in nullifiers : VerifyProof(n)
    \/ \E s \in Session, d \in Delegation, scope \in Uri \cup {"passive"}, r \in Root :
          IssueDelegation(s, d, scope, r)
    \/ \E d \in Delegation, uri \in Uri : ResolveDelegation(d, uri)

Spec == Init /\ [][Next]_vars

----------------------------------------------------------------------------
(* Properties.                                                             *)

\* Every row has the shape of the code's.
TypeOK ==
    /\ enrollments \in [Session -> Seq(Enrollment)]
    /\ members \subseteq Session
    /\ roots \in [Root -> PersonKeys \cup {NoPerson}]
    /\ nullifiers \subseteq [root: Root, subject: Subject, person: Person]
    /\ delegations \in [Delegation -> DelegationRow \cup {NoDelegation}]
    /\ counted \in [Subject -> SUBSET [nullifier: Root \X Subject, person: Person]]

\* The people whose identity was verified in some session.
Verified == {p \in Person : \E s \in Session : \E i \in DOMAIN enrollments[s] :
                              enrollments[s][i].person = p}

\* However often and in however many sessions people enroll, revoke, vote and
\* delegate, what is counted is one ballot for each person.
Tally == INSTANCE OnePersonOneVote WITH
            verified <- Verified,
            voters <- [subject \in Subject |->
                          {c.person : c \in counted[subject]}],
            ballots <- [subject \in Subject |->
                          Cardinality({c.nullifier : c \in counted[subject]})]
OnePersonOneVote == Tally!Spec

\* A person has one root, whatever credential leads to it: the rows of
\* person_roots and of nullifiers agree about who is who (resolvePersonRoot).
OneRootPerPerson ==
    \A m, n \in nullifiers : (m.person = n.person) <=> (m.root = n.root)

\* What is counted for a person on a cabildeo was put to the vote by that
\* person: as a proof for it, as a delegation for that very cabildeo, or as a
\* passive one (verifyCivicDelegationProof).
Authorised(p, subject) ==
    \/ \E n \in nullifiers : n.subject = subject /\ n.person = p
    \/ \E d \in Delegation : /\ delegations[d].person = p
                             /\ delegations[d].scope \in {"passive", subject[2]}
CountedWasAuthorised ==
    \A subject \in Subject : \A c \in counted[subject] : Authorised(c.person, subject)

\* Once every enrollment of a person is revoked, suspended or expired, that
\* person gets no further ballot or delegation, in no session, whoever else
\* the session has enrolled since (issueCivicVoteProof, resolvePersonRoot).
Enrolled(p) == \E s \in Session : \E i \in DOMAIN enrollments[s] :
                  enrollments[s][i].person = p /\ enrollments[s][i].status = "active"
NothingNewOnceRevoked ==
    [][/\ \A n \in nullifiers' \ nullifiers : Enrolled(n.person)
       /\ \A d \in Delegation : delegations'[d] # delegations[d]
                                 => Enrolled(delegations'[d].person)]_vars
=============================================================================
