------------------------------ MODULE GrantBroker ------------------------------
(***************************************************************************)
(* The grants of one session: an app asks for claims, the person approves, *)
(* every claim is verified and becomes a proof artifact, and the grant or  *)
(* one of its artifacts is revoked later.                                  *)
(*                                                                         *)
(* An approval awaits the verification of each claim, and stores what it   *)
(* has verified before it awaits the next; the grant's status is read only *)
(* at the start.  Nothing of it is in a transaction.                       *)
(***************************************************************************)
EXTENDS Naturals, Sequences, FiniteSets

CONSTANTS Grant,     \* ids of requested grants
          DirectVerify,  \* the grant id a direct verification stores under
          Proof,     \* ids of proof artifacts
          Request,   \* requests the server can hold at once (a bound)
          Kinds,     \* record types of the claims asked for in this instance
          MaxClaims, \* claims of one grant, 20 in the code (a bound)
          NoGrant    \* JavaScript undefined

RecordType == {"identity_verification", "public_figure_attestation",
               "party_affiliation", "age_eligibility", "backup_coverage"}

ASSUME ConstantsAssumption ==
    /\ DirectVerify \notin Grant
    /\ NoGrant \notin Grant \cup {DirectVerify}
    /\ Kinds \subseteq RecordType
    /\ MaxClaims \in Nat \ {0}

VARIABLES
    grants,      \* grants: status, requested claims and listed artifacts
    artifacts,   \* proof_artifacts
    requests,    \* approvals and direct verifications being handled
    interrupted, \* history: grants whose approval or revocation a crash cut short
    refused      \* history: a foreign key refused what a handler stored

vars == <<grants, artifacts, requests, interrupted, refused>>

----------------------------------------------------------------------------
(* Rows and requests.                                                      *)

GrantId == Grant \cup {DirectVerify}
SeqUpTo(S, n) == UNION {[1..k -> S] : k \in 0..n}

GrantRow == [status: {"none", "pending", "approved", "revoked"},
             claims: SeqUpTo(Kinds, MaxClaims), proofs: SeqUpTo(Proof, MaxClaims)]
NoGrantRow == [status |-> "none", claims |-> <<>>, proofs |-> <<>>]

ArtifactStatus == {"active", "suspended", "expired", "revoked"}
Artifact == [status: ArtifactStatus, grant: GrantId, kind: Kinds]
NoArtifact == [status |-> "none", grant |-> NoGrant, kind |-> "none"]

\* made: the artifacts an approval has stored so far.
NoRequest == [pc |-> "idle", grant |-> NoGrant, made |-> <<>>]
PendingRequest == [pc: {"approving"}, grant: Grant, made: SeqUpTo(Proof, MaxClaims)]
                  \cup [pc: {"verifying"}, grant: {NoGrant}, made: {<<>>}]

End(r) == requests' = [requests EXCEPT ![r] = NoRequest]
Approving == {requests[r].grant : r \in {s \in Request : requests[s].pc = "approving"}}
ProofsOf(g) == {p \in Proof : artifacts[p].grant = g}

\* proof_artifacts.grant_id references grants.id.
ForeignKeyHolds(g) == grants[g].status # "none"

\* Mutant of FreshArtifact: the status is left to the schema's default.
FreshArtifactDefault(g, k) == [status |-> "pending", grant |-> g, kind |-> k]

FreshArtifact(g, k) == [status |-> "active", grant |-> g, kind |-> k]

\* A row inserted under a grant.
Insert(p, g, k) ==
    /\ artifacts[p] = NoArtifact
    /\ ForeignKeyHolds(g)
    /\ artifacts' = [artifacts EXCEPT ![p] = FreshArtifact(g, k)]

----------------------------------------------------------------------------
Init ==
    /\ grants = [g \in GrantId |-> NoGrantRow]
    /\ artifacts = [p \in Proof |-> NoArtifact]
    /\ requests = [r \in Request |-> NoRequest]
    /\ interrupted = {}
    /\ refused = FALSE

RequestGrant(g, claims) ==
    /\ grants[g] = NoGrantRow
    /\ grants' = [grants EXCEPT ![g] =
           [status |-> "pending", claims |-> claims, proofs |-> <<>>]]
    /\ UNCHANGED <<artifacts, requests, interrupted, refused>>

----------------------------------------------------------------------------
(* Approving a grant.                                                      *)

BeginApproval(r, g) ==
    /\ requests[r] = NoRequest
    /\ grants[g].status = "pending"
    /\ requests' = [requests EXCEPT ![r] =
           [pc |-> "approving", grant |-> g, made |-> <<>>]]
    /\ UNCHANGED <<grants, artifacts, interrupted, refused>>

\* The claim an approval is verifying, and whether it is the last one.
CurrentClaim(q) == grants[q.grant].claims[Len(q.made) + 1]
AtLastClaim(q) == Len(q.made) + 1 = Len(grants[q.grant].claims)

\* A claim that is not the last is verified and stored.
StoreClaim(r, p) ==
    LET q == requests[r] IN
    /\ q.pc = "approving"
    /\ ~AtLastClaim(q)
    /\ Insert(p, q.grant, CurrentClaim(q))
    /\ requests' = [requests EXCEPT ![r].made = Append(@, p)]
    /\ UNCHANGED <<grants, interrupted, refused>>

\* Mutant of Approved: the artifact of the last claim is not listed.
ApprovedShort(row, made, p) == [row EXCEPT !.status = "approved", !.proofs = made]

\* A grant after the final UPDATE, which asks nothing of its status.
Approved(row, made, p) ==
    [row EXCEPT !.status = "approved", !.proofs = Append(made, p)]

\* The last claim is verified and stored, and the grant approved in that turn.
FinishApproval(r, p) ==
    LET q == requests[r] IN
    /\ q.pc = "approving"
    /\ AtLastClaim(q)
    /\ Insert(p, q.grant, CurrentClaim(q))
    /\ grants' = [grants EXCEPT ![q.grant] = Approved(@, q.made, p)]
    /\ End(r)
    /\ UNCHANGED <<interrupted, refused>>

----------------------------------------------------------------------------
(* A direct verification stores its artifact under a grant id that names   *)
(* no grant.                                                               *)

BeginDirectVerify(r) ==
    /\ requests[r] = NoRequest
    /\ requests' = [requests EXCEPT ![r].pc = "verifying"]
    /\ UNCHANGED <<grants, artifacts, interrupted, refused>>

FinishDirectVerify(r, p, k) ==
    /\ requests[r].pc = "verifying"
    /\ artifacts[p] = NoArtifact
    /\ refused' = (refused \/ ~ForeignKeyHolds(DirectVerify))
    /\ artifacts' = IF ForeignKeyHolds(DirectVerify)
                    THEN [artifacts EXCEPT ![p] = FreshArtifact(DirectVerify, k)]
                    ELSE artifacts
    /\ End(r)
    /\ UNCHANGED <<grants, interrupted>>

----------------------------------------------------------------------------
(* Revoking.                                                               *)

\* Mutant of RevokedProofs: only the artifacts the grant lists are revoked.
RevokedProofsListed(g) ==
    [p \in Proof |-> IF \E i \in DOMAIN grants[g].proofs : grants[g].proofs[i] = p
                     THEN [artifacts[p] EXCEPT !.status = "revoked"] ELSE artifacts[p]]

\* Every artifact stored under the grant, whatever its status, is revoked.
RevokedProofs(g) ==
    [p \in Proof |-> IF p \in ProofsOf(g)
                     THEN [artifacts[p] EXCEPT !.status = "revoked"] ELSE artifacts[p]]

\* A grant is revoked whatever its status.
RevokeGrant(g) ==
    /\ grants[g].status # "none"
    /\ grants' = [grants EXCEPT ![g].status = "revoked"]
    /\ artifacts' = RevokedProofs(g)
    /\ UNCHANGED <<requests, interrupted, refused>>

AllowedTransitions(k) ==
    CASE k = "identity_verification" ->
           {<<"active", "suspended">>, <<"active", "revoked">>, <<"active", "expired">>,
            <<"suspended", "active">>, <<"suspended", "revoked">>}
      [] k = "backup_coverage" -> {<<"active", "expired">>}
      [] OTHER -> {<<"active", "revoked">>, <<"active", "expired">>}

\* Mutant of ValidTransition: an artifact expires from whatever state it is in.
ValidTransitionLate(from, to, k) ==
    from = to \/ to = "expired" \/ <<from, to>> \in AllowedTransitions(k)

ValidTransition(from, to, k) == from = to \/ <<from, to>> \in AllowedTransitions(k)

\* One artifact is revoked or suspended by its owner; the target is checked
\* against the contract only, so that it may be any status.
RevokeArtifact(p, target) ==
    /\ artifacts[p] # NoArtifact
    /\ artifacts[p].status # target
    /\ ValidTransition(artifacts[p].status, target, artifacts[p].kind)
    /\ artifacts' = [artifacts EXCEPT ![p].status = target]
    /\ UNCHANGED <<grants, requests, interrupted, refused>>

----------------------------------------------------------------------------
(* The process dies.                                                       *)

Crash ==
    /\ requests' = [r \in Request |-> NoRequest]
    /\ interrupted' = interrupted \cup Approving
    /\ UNCHANGED <<grants, artifacts, refused>>

\* It dies between the last artifact and the grant's UPDATE.
CrashBeforeApproval(r, p) ==
    LET q == requests[r] IN
    /\ q.pc = "approving"
    /\ AtLastClaim(q)
    /\ Insert(p, q.grant, CurrentClaim(q))
    /\ requests' = [s \in Request |-> NoRequest]
    /\ interrupted' = interrupted \cup Approving
    /\ UNCHANGED <<grants, refused>>

\* It dies between the two UPDATEs of a revocation.
CrashInRevocation(g) ==
    /\ grants[g].status # "none"
    /\ grants' = [grants EXCEPT ![g].status = "revoked"]
    /\ requests' = [s \in Request |-> NoRequest]
    /\ interrupted' = interrupted \cup Approving \cup {g}
    /\ UNCHANGED <<artifacts, refused>>

----------------------------------------------------------------------------
Next ==
    \/ \E g \in Grant, claims \in SeqUpTo(Kinds, MaxClaims) \ {<<>>} :
          RequestGrant(g, claims)
    \/ \E r \in Request, g \in Grant : BeginApproval(r, g)
    \/ \E r \in Request, p \in Proof : StoreClaim(r, p)
    \/ \E r \in Request, p \in Proof : FinishApproval(r, p)
    \/ \E r \in Request : BeginDirectVerify(r)
    \/ \E r \in Request, p \in Proof, k \in Kinds : FinishDirectVerify(r, p, k)
    \/ \E g \in Grant : RevokeGrant(g)
    \/ \E p \in Proof, target \in ArtifactStatus : RevokeArtifact(p, target)
    \/ Crash
    \/ \E r \in Request, p \in Proof : CrashBeforeApproval(r, p)
    \/ \E g \in Grant : CrashInRevocation(g)

Spec == Init /\ [][Next]_vars

----------------------------------------------------------------------------
(* Properties.                                                             *)

\* Every row and request has the shape the code gives it.
TypeOK ==
    /\ grants \in [GrantId -> GrantRow]
    /\ artifacts \in [Proof -> Artifact \cup {NoArtifact}]
    /\ requests \in [Request -> PendingRequest \cup {NoRequest}]
    /\ interrupted \subseteq Grant
    /\ refused \in BOOLEAN

\* A grant that is pending or revoked has no artifact its app could still rely
\* on, unless an approval of it is under way or a crash cut one short: also
\* when the grant was revoked and approved side by side, several times.
OnlyApprovedGrantsAreProven ==
    \A g \in Grant :
        /\ grants[g].status \in {"pending", "revoked"}
        /\ g \notin Approving \cup interrupted
        => \A p \in ProofsOf(g) : artifacts[p].status \notin {"active", "suspended"}

\* An approved grant lists one artifact for each claim that was asked for, in
\* order and of its kind, and they are its own, although two approvals of it
\* may have stored artifacts in turns (approveGrant).
ApprovedGrantsListTheirProofs ==
    \A g \in Grant : grants[g].status = "approved" =>
        LET row == grants[g] IN
        /\ Len(row.proofs) = Len(row.claims)
        /\ \A i \in DOMAIN row.proofs :
              /\ artifacts[row.proofs[i]].grant = g
              /\ artifacts[row.proofs[i]].kind = row.claims[i]

\* What is on the revocation list stays on it: no handler, and no approval
\* that was under way, brings a revoked artifact back (revoke, revokeGrant).
RevocationIsFinal ==
    [][\A p \in Proof :
          artifacts[p].status = "revoked" => artifacts'[p] = artifacts[p]]_vars

\* What the API promises of a direct verification, a stored result: nothing
\* it stores is refused.  No grant has the id it stores under.
DirectVerifyIsStored == ~refused
=============================================================================
