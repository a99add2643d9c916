----------------------------- MODULE ZkNullifiers -----------------------------
(***************************************************************************)
(* Participation in communities under zero-knowledge proofs: a commitment  *)
(* has one nullifier in each community, and the server accepts it once.    *)
(* The handler awaits the verification of the proof, then looks the        *)
(* commitment and the nullifier up, awaits a module it imports, and        *)
(* inserts: everything it looked up may be stale by then.                  *)
(***************************************************************************)
EXTENDS Naturals

CONSTANTS Commitment,    \* commitments of enrollments
          Community,     \* communities
          Request,       \* requests the server can hold at once (a bound)
          NoCommitment   \* JavaScript undefined

\* What an instance must satisfy.
CommitmentAssumption == NoCommitment \notin Commitment

VARIABLES
    artifacts,    \* status of the latest proof artifact of each commitment
    nullifiers,   \* nullifiers: rows that are stored
    requests,     \* handlers under way
    accepted      \* history: how often each nullifier was answered as accepted

zvars == <<artifacts, nullifiers, requests, accepted>>

----------------------------------------------------------------------------
\* The circuit's output: the commitment's secret hashed with the community.
Nullifier == Commitment \X Community

ArtifactStatus == {"none", "active", "suspended", "revoked", "expired"}

NoRequest == [pc |-> "idle", nullifier |-> <<NoCommitment, NoCommitment>>]
PendingRequest == [pc: {"verifying", "importing"}, nullifier: Nullifier]

End(r) == requests' = [requests EXCEPT ![r] = NoRequest]

\* The status under which a commitment is good for a proof; an expired one is.
Usable(c) == artifacts[c] \in {"active", "expired"}

----------------------------------------------------------------------------
Init ==
    /\ artifacts = [c \in Commitment |-> "none"]
    /\ nullifiers = {}
    /\ requests = [r \in Request |-> NoRequest]
    /\ accepted = [n \in Nullifier |-> 0]

\* A commitment is enrolled again once the artifact it had is over.
Register(c) ==
    /\ artifacts[c] \in {"none", "revoked", "expired"}
    /\ artifacts' = [artifacts EXCEPT ![c] = "active"]
    /\ UNCHANGED <<nullifiers, requests, accepted>>

ChangeStatus(c, status) ==
    /\ <<artifacts[c], status>> \in
           {<<"active", "suspended">>, <<"active", "revoked">>, <<"active", "expired">>,
            <<"suspended", "active">>, <<"suspended", "revoked">>}
    /\ artifacts' = [artifacts EXCEPT ![c] = status]
    /\ UNCHANGED <<nullifiers, requests, accepted>>

\* A proof is received; its verification is awaited.
BeginNullifier(r, n) ==
    /\ requests[r] = NoRequest
    /\ requests' = [requests EXCEPT ![r] = [pc |-> "verifying", nullifier |-> n]]
    /\ UNCHANGED <<artifacts, nullifiers, accepted>>

\* The proof is refused: it is wrong, or made for another community, or its
\* commitment is unknown, revoked or suspended, or its nullifier is stored.
Refuse(r) ==
    /\ requests[r].pc = "verifying"
    /\ End(r)
    /\ UNCHANGED <<artifacts, nullifiers, accepted>>

CheckNullifier(r) ==
    LET n == requests[r].nullifier IN
    /\ requests[r].pc = "verifying"
    /\ Usable(n[1])
    /\ n \notin nullifiers
    /\ requests' = [requests EXCEPT ![r].pc = "importing"]
    /\ UNCHANGED <<artifacts, nullifiers, accepted>>

\* Mutant of Unique: the table has no constraint, the lookup is trusted.
UniqueTrusted(n) == TRUE

\* UNIQUE (nullifier, community_id)
Unique(n) == n \notin nullifiers

InsertNullifier(r) ==
    LET n == requests[r].nullifier IN
    /\ requests[r].pc = "importing"
    /\ IF Unique(n)
       THEN /\ nullifiers' = nullifiers \cup {n}
            /\ accepted' = [accepted EXCEPT ![n] = @ + 1]
       ELSE UNCHANGED <<nullifiers, accepted>>
    /\ End(r)
    /\ UNCHANGED artifacts

\* The process dies after the row is stored and before the answer is sent.
CrashAfterInsert(r) ==
    /\ requests[r].pc = "importing"
    /\ Unique(requests[r].nullifier)
    /\ nullifiers' = nullifiers \cup {requests[r].nullifier}
    /\ requests' = [q \in Request |-> NoRequest]
    /\ UNCHANGED <<artifacts, accepted>>

Crash ==
    /\ requests' = [q \in Request |-> NoRequest]
    /\ UNCHANGED <<artifacts, nullifiers, accepted>>

Next ==
    \/ \E c \in Commitment : Register(c)
    \/ \E c \in Commitment, status \in ArtifactStatus : ChangeStatus(c, status)
    \/ \E r \in Request, n \in Nullifier : BeginNullifier(r, n)
    \/ \E r \in Request : Refuse(r) \/ CheckNullifier(r) \/ InsertNullifier(r)
    \/ \E r \in Request : CrashAfterInsert(r)
    \/ Crash

Spec == Init /\ [][Next]_zvars

----------------------------------------------------------------------------
(* Properties.                                                             *)

\* Rows and requests have the shape the code gives them.
TypeOK ==
    /\ artifacts \in [Commitment -> ArtifactStatus]
    /\ nullifiers \subseteq Nullifier
    /\ requests \in [Request -> PendingRequest \cup {NoRequest}]
    /\ accepted \in [Nullifier -> 0..2]

\* A nullifier is answered as accepted at most once in its community, although
\* requests with the same proof may all have found it unused (zkpNullifier);
\* and what was accepted is stored, also when the process dies.
AcceptedOnce ==
    \A n \in Nullifier : /\ accepted[n] <= 1
                         /\ accepted[n] = 1 => n \in nullifiers
=============================================================================
