-------------------------- MODULE CredentialIssuance --------------------------
(***************************************************************************)
(* Issuing the identity credentials of one session: the issuance challenge *)
(* a request must present and uses up, the relay through which the wallet  *)
(* binds a key and collects the credentials, and the enrollments (proof    *)
(* artifacts) the credentials stand on.                                    *)
(*                                                                         *)
(* An issuance awaits three times: its age proofs (pc "proving"), the      *)
(* digests of the person's data (pc "hashing") and the signatures of the   *)
(* credentials (pc "signing").  The relay's own handlers never await.      *)
(***************************************************************************)
EXTENDS Naturals, FiniteSets

CONSTANTS Binding,      \* wallet binding requests (random ids in the code)
          Key,          \* holder keys
          Commitment,   \* identity commitments a client may present
          Enrollment,   \* proof artifacts
          Request,      \* issuance requests the server can hold (a bound)
          MaxChallenge, \* how many challenges the session goes through (a bound)
          NoBinding, NoKey, NoCommitment, NoEnrollment   \* SQL NULL / undefined

ASSUME ConstantsAssumption ==
    /\ MaxChallenge \in Nat \ {0}
    /\ IsFiniteSet(Binding)
    /\ NoBinding \notin Binding
    /\ NoKey \notin Key
    /\ NoCommitment \notin Commitment
    /\ NoEnrollment \notin Enrollment

VARIABLES
    challenge,    \* sessions.issuance_challenge: the n-th random nonce, 0 for none
    bindings,     \* wallet_binding_requests
    enrollments,  \* proof_artifacts of INE enrollments
    requests,     \* issuance requests being handled
    reads,        \* history: how often each request's credentials were collected
    answered      \* history: requests whose issuance was answered as delivered

vars == <<challenge, bindings, enrollments, requests, reads, answered>>

----------------------------------------------------------------------------
(* Rows and requests.                                                      *)

MAX_OPEN_BINDING_REQUESTS_PER_SESSION == 3

\* "pruned" is a row that was deleted because its time had passed.
BindingRow == [status: {"none", "pending", "bound", "issued", "collected",
                        "declined", "pruned"},
               challenge: 0..MaxChallenge,
               key: Key \cup {NoKey},
               content: Enrollment \cup {NoEnrollment},
               overdue: BOOLEAN]
NoBindingRow == [status |-> "none", challenge |-> 0, key |-> NoKey,
                 content |-> NoEnrollment, overdue |-> FALSE]

\* challenge and key are those of the issuance that recorded the enrollment.
EnrollmentRow == [status: {"active", "revoked"}, commitment: Commitment,
                  challenge: 1..MaxChallenge, key: Key]
NoEnrollmentRow == [status |-> "none", commitment |-> NoCommitment,
                    challenge |-> 0, key |-> NoKey]

Issuance == [pc: {"proving", "hashing", "signing"}, challenge: 1..MaxChallenge,
             binding: Binding \cup {NoBinding}, key: Key,
             commitment: Commitment \cup {NoCommitment},
             enrollment: Enrollment \cup {NoEnrollment}]
NoRequest == [pc |-> "idle", challenge |-> 0, binding |-> NoBinding, key |-> NoKey,
              commitment |-> NoCommitment, enrollment |-> NoEnrollment]

End(r) == requests' = [requests EXCEPT ![r] = NoRequest]

Stored(b) == bindings[b].status \notin {"none", "pruned"}

\* Every operation of the relay but the deposit first deletes overdue rows.
Pruned == [b \in Binding |->
              IF Stored(b) /\ bindings[b].overdue
              THEN [NoBindingRow EXCEPT !.status = "pruned"] ELSE bindings[b]]

OpenRequests == {b \in Binding : Pruned[b].status \in {"pending", "bound"}}

----------------------------------------------------------------------------
Init ==
    /\ challenge = 0
    /\ bindings = [b \in Binding |-> NoBindingRow]
    /\ enrollments = [e \in Enrollment |-> NoEnrollmentRow]
    /\ requests = [r \in Request |-> NoRequest]
    /\ reads = [b \in Binding |-> 0]
    /\ answered = {}

\* The session's challenge, created when it is first asked for.
EnsureChallenge == IF challenge = 0 THEN 1 ELSE challenge

\* The session is shown to its client, with its challenge.
ShowSession ==
    /\ challenge = 0
    /\ challenge' = EnsureChallenge
    /\ UNCHANGED <<bindings, enrollments, requests, reads, answered>>

----------------------------------------------------------------------------
(* The relay.                                                              *)

CreateBindingRequest(b) ==
    /\ bindings[b] = NoBindingRow
    /\ Cardinality(OpenRequests) < MAX_OPEN_BINDING_REQUESTS_PER_SESSION
    /\ challenge' = EnsureChallenge
    /\ bindings' = [Pruned EXCEPT ![b] =
           [NoBindingRow EXCEPT !.status = "pending", !.challenge = EnsureChallenge]]
    /\ UNCHANGED <<enrollments, requests, reads, answered>>

\* Listing, polling, and every operation that is refused: only the pruning.
Poll ==
    /\ Pruned # bindings
    /\ bindings' = Pruned
    /\ UNCHANGED <<challenge, enrollments, requests, reads, answered>>

\* Mutant of Fulfillable: a request that is already bound is bound again.
FulfillableAgain(b) == Pruned[b].status \in {"pending", "bound"}

Fulfillable(b) == Pruned[b].status = "pending"

\* The wallet binds a key it proved to hold over this request's challenge.
FulfillBindingRequest(b, k) ==
    /\ Fulfillable(b)
    /\ bindings' = [Pruned EXCEPT ![b].status = "bound", ![b].key = k]
    /\ UNCHANGED <<challenge, enrollments, requests, reads, answered>>

DeclineBindingRequest(b) ==
    /\ Pruned[b].status \in {"pending", "bound"}
    /\ bindings' = [Pruned EXCEPT ![b].status = "declined"]
    /\ UNCHANGED <<challenge, enrollments, requests, reads, answered>>

\* Mutant of Emptied: the credentials stay in the row, which stays issued.
EmptiedNot(row) == row

\* A row after its credentials were read: they are erased with the read.
Emptied(row) == [row EXCEPT !.status = "collected", !.content = NoEnrollment]

CollectCredentials(b) ==
    /\ Pruned[b].status = "issued"
    /\ bindings' = [Pruned EXCEPT ![b] = Emptied(@)]
    /\ reads' = [reads EXCEPT ![b] = @ + 1]
    /\ UNCHANGED <<challenge, enrollments, requests, answered>>

\* The fifteen minutes of a row pass.
BindingOverdue(b) ==
    /\ Stored(b)
    /\ ~bindings[b].overdue
    /\ bindings' = [bindings EXCEPT ![b].overdue = TRUE]
    /\ UNCHANGED <<challenge, enrollments, requests, reads, answered>>

----------------------------------------------------------------------------
(* Issuance.                                                               *)

\* Mutant of UseUpChallenge: the challenge is not rotated.
UseUpChallengeKept == challenge > 0 /\ challenge' = challenge

\* A valid challenge is rotated at once, whatever becomes of the request.
UseUpChallenge ==
    /\ challenge \in 1..(MaxChallenge - 1)
    /\ challenge' = challenge + 1

StartIssuance(r, b, k) ==
    /\ requests[r] = NoRequest
    /\ UseUpChallenge
    /\ requests' = [requests EXCEPT ![r] =
           [NoRequest EXCEPT !.pc = "proving", !.challenge = challenge,
                             !.binding = b, !.key = k]]
    /\ UNCHANGED <<enrollments, reads, answered>>

\* The caller holds the key itself and proved it in the request.
IssueDirectly(r, k) ==
    /\ StartIssuance(r, NoBinding, k)
    /\ UNCHANGED bindings

\* A bad proof of possession is only found after the challenge is rotated.
RefuseHolderKey ==
    /\ UseUpChallenge
    /\ UNCHANGED <<bindings, enrollments, requests, reads, answered>>

\* Mutant of Usable: a binding nobody has answered yet is used.
UsableUnbound(b) == Pruned[b].status \in {"pending", "bound"} /\ bindings[b].challenge = challenge

\* A bound request made for the challenge that is now presented.
Usable(b) == Pruned[b].status = "bound" /\ bindings[b].challenge = challenge

IssueThroughWallet(r, b) ==
    /\ Usable(b)
    /\ StartIssuance(r, b, bindings[b].key)
    /\ bindings' = Pruned

\* An age proof fails, or a digest or a signature throws.
FailIssuance(r) ==
    /\ requests[r].pc # "idle"
    /\ End(r)
    /\ UNCHANGED <<challenge, bindings, enrollments, reads, answered>>

Registered(m) ==
    \E e \in Enrollment : enrollments[e].commitment = m /\ enrollments[e].status = "active"

\* The proofs hold, and nobody is enrolled with their commitment yet.  (If
\* somebody is, the request ends, as in FailIssuance.)
AcceptProofs(r, m) ==
    /\ requests[r].pc = "proving"
    /\ ~Registered(m)
    /\ requests' = [requests EXCEPT ![r].pc = "hashing", ![r].commitment = m]
    /\ UNCHANGED <<challenge, bindings, enrollments, reads, answered>>

\* Mutant of Insertable: the database has no unique index on commitments.
InsertableAnyway(m) == TRUE

\* The partial unique index on the commitments of active artifacts.
Insertable(m) == ~Registered(m)

\* The grant and the artifact are inserted in one transaction.
RecordEnrollment(r, e) ==
    LET q == requests[r] IN
    /\ q.pc = "hashing"
    /\ enrollments[e] = NoEnrollmentRow
    /\ Insertable(q.commitment)
    /\ enrollments' = [enrollments EXCEPT ![e] =
           [status |-> "active", commitment |-> q.commitment,
            challenge |-> q.challenge, key |-> q.key]]
    /\ requests' = [requests EXCEPT ![r].pc = "signing", ![r].enrollment = e]
    /\ UNCHANGED <<challenge, bindings, reads, answered>>

\* The signed credentials answer the caller who holds the key.
DeliverDirectly(r) ==
    /\ requests[r].pc = "signing"
    /\ requests[r].binding = NoBinding
    /\ End(r)
    /\ UNCHANGED <<challenge, bindings, enrollments, reads, answered>>

\* The row after an UPDATE guarded by status = 'bound', whose result nobody
\* looks at.  It renews the row's time.
Deposited(row, e) ==
    IF row.status = "bound"
    THEN [row EXCEPT !.status = "issued", !.content = e, !.overdue = FALSE]
    ELSE row

\* The signed credentials go to the wallet's mailbox, and the caller is told so.
DeliverToWallet(r) ==
    LET q == requests[r] IN
    /\ q.pc = "signing"
    /\ q.binding # NoBinding
    /\ bindings' = [bindings EXCEPT ![q.binding] = Deposited(@, q.enrollment)]
    /\ answered' = answered \cup {q.binding}
    /\ End(r)
    /\ UNCHANGED <<challenge, enrollments, reads>>

\* The session revokes an enrollment (by its artifact or revocation hash).
RevokeEnrollment(e) ==
    /\ enrollments[e].status = "active"
    /\ enrollments' = [enrollments EXCEPT ![e].status = "revoked"]
    /\ UNCHANGED <<challenge, bindings, requests, reads, answered>>

\* The process dies: what was being issued is lost, the database stays.
Crash ==
    /\ requests' = [r \in Request |-> NoRequest]
    /\ UNCHANGED <<challenge, bindings, enrollments, reads, answered>>

----------------------------------------------------------------------------
Next ==
    \/ ShowSession
    \/ \E b \in Binding : CreateBindingRequest(b)
    \/ Poll
    \/ \E b \in Binding, k \in Key : FulfillBindingRequest(b, k)
    \/ \E b \in Binding : DeclineBindingRequest(b)
    \/ \E b \in Binding : CollectCredentials(b)
    \/ \E b \in Binding : BindingOverdue(b)
    \/ \E r \in Request, k \in Key : IssueDirectly(r, k)
    \/ RefuseHolderKey
    \/ \E r \in Request, b \in Binding : IssueThroughWallet(r, b)
    \/ \E r \in Request : FailIssuance(r)
    \/ \E r \in Request, m \in Commitment : AcceptProofs(r, m)
    \/ \E r \in Request, e \in Enrollment : RecordEnrollment(r, e)
    \/ \E r \in Request : DeliverDirectly(r)
    \/ \E r \in Request : DeliverToWallet(r)
    \/ \E e \in Enrollment : RevokeEnrollment(e)
    \/ Crash

Spec == Init /\ [][Next]_vars

----------------------------------------------------------------------------
(* Properties.                                                             *)

\* Every row and request has the shape the code gives it.
TypeOK ==
    /\ challenge \in 0..MaxChallenge
    /\ bindings \in [Binding -> BindingRow]
    /\ enrollments \in [Enrollment -> EnrollmentRow \cup {NoEnrollmentRow}]
    /\ requests \in [Request -> Issuance \cup {NoRequest}]
    /\ reads \in [Binding -> Nat]
    /\ answered \subseteq Binding

\* "Challenges are single-use": two requests that present one challenge,
\* however they interleave, never both get as far as an enrollment, and an
\* enrollment's challenge is never accepted again (ineCredential).
ChallengeUsedOnce ==
    /\ \A d, e \in Enrollment :
          d # e => \/ enrollments[d].challenge # enrollments[e].challenge
                   \/ enrollments[d].challenge = 0
    /\ \A r \in Request, e \in Enrollment :
          requests[r].pc \in {"proving", "hashing"} =>
              enrollments[e].challenge # requests[r].challenge
    /\ \A e \in Enrollment : enrollments[e].challenge > 0 =>
          enrollments[e].challenge < challenge

\* Credentials that wait for a wallet are the ones issued for the key that
\* very wallet bound, against the challenge it signed: neither a second
\* binding nor another request's issuance gets into its mailbox.
MailboxHoldsOwnKey ==
    \A b \in Binding : bindings[b].status = "issued" =>
        LET e == enrollments[bindings[b].content] IN
        e.key = bindings[b].key /\ e.challenge = bindings[b].challenge

\* A commitment is enrolled once at a time: of two issuances that both found
\* it free before their awaits, one is turned away (recordIneCredential).
OneActivePerCommitment ==
    \A d, e \in Enrollment :
        /\ d # e
        /\ enrollments[d].status = "active"
        /\ enrollments[e].status = "active"
        => enrollments[d].commitment # enrollments[e].commitment

\* The relay is a one-time mailbox for each binding request.
Box == [b \in Binding |->
           CASE bindings[b].status = "none" -> "unused"
             [] bindings[b].status \in {"pending", "bound"} -> "open"
             [] bindings[b].status = "issued" -> "full"
             [] bindings[b].status = "collected" -> "taken"
             [] OTHER -> "closed"]

Mailbox == INSTANCE OneTimeMailbox WITH Slot <- Binding, box <- Box

\* Credentials are put in a mailbox that is open, at most once, and read at
\* most once, whatever is declined, pruned, repeated or lost meanwhile.
RelayIsMailbox == Mailbox!Spec

\* What the relay's documentation says of an issuance against a binding: the
\* credentials "wait in this row until the wallet collects them".  The wallet
\* may decline, or the row be pruned, while the issuance awaits.
DeliveredCredentialsWait ==
    [][\A b \in answered' \ answered : bindings'[b].status = "issued"]_vars
=============================================================================
