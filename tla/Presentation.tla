------------------------------ MODULE Presentation ------------------------------
(***************************************************************************)
(* The relay between a requester, which asks for claims about a person,    *)
(* and the person's wallet, which presents a credential; with the keys     *)
(* credentials are signed with.  The broker verifies the presentation,     *)
(* which spends the request, keeps a minimal result, and hands that out    *)
(* once.  A wallet signs whenever it likes, for any request and with any   *)
(* credential: what it signed is no state of the broker.  All handlers but *)
(* the demo wallet's, which signs like any other, are synchronous.         *)
(***************************************************************************)
EXTENDS Naturals, FiniteSets

CONSTANTS Session,     \* sessions, one for each DID
          Request,     \* ids of identity requests (a bound)
          Credential,  \* ids of credentials (a bound)
          Key,         \* ids of issuer keys
          Element,     \* what may be requested and claimed
          Linkable,    \* LINKABLE_IDENTITY_ELEMENTS
          None         \* JavaScript undefined, and null in a column

\* What an instance must satisfy.
PresentationAssumption ==
    /\ None \notin Session \cup Request \cup Credential \cup Key
    /\ \A elements \in SUBSET Element : elements # None
    /\ Linkable \subseteq Element
    /\ Key # {}

VARIABLES
    idRequests,     \* identity_requests
    live,           \* requests that have not expired
    credentials,    \* credentials, and proof_artifacts: their status
    issuer,         \* the configured keys: current, previous and revoked ones
    delivered       \* history: how often the result of each request was read

ivars == <<idRequests, live, credentials, issuer, delivered>>

----------------------------------------------------------------------------
(* Rows.                                                                   *)

\* required: the elements among those asked for that may not be left out.
\* result: the claims of a verified presentation, until they are read.
RequestRow == [session: Session, elements: SUBSET Element, required: SUBSET Element,
               status: {"active", "used", "declined"},
               result: (SUBSET Element) \cup {None}]
NoIdRequest == [session |-> None, elements |-> {}, required |-> {}, status |-> "none",
                result |-> None]

CredentialStatus == {"active", "suspended", "ended"}
CredentialRow == [subject: Session, key: Key, claims: SUBSET Element,
                  status: CredentialStatus]
NoCredential == [subject |-> None, key |-> None, claims |-> {}, status |-> "none"]

Presented == [request: Request, credential: Credential, disclosed: SUBSET Element]

\* getTrustedVerificationKeys.
TrustedKeys == {issuer.current, issuer.previous} \ (issuer.revoked \cup {None})

----------------------------------------------------------------------------
(* verifyWalletPresentation.                                               *)

\* Mutant of Open: a request that was used may be used again.
OpenAgain(r) == idRequests[r].status \in {"active", "used"} /\ r \in live

\* The request is active and has not expired.
Open(r) == idRequests[r].status = "active" /\ r \in live

\* The credential is the session's own, vouched for by a key that is trusted
\* and neither revoked nor suspended.
Vouched(s, c) ==
    /\ credentials[c].subject = s
    /\ credentials[c].key \in TrustedKeys
    /\ credentials[c].status = "active"

\* What is required is disclosed, nothing is that was not asked for, and the
\* credential, which is revealed as a whole, reveals nothing linkable besides.
ClaimsFit(p) ==
    LET elements == idRequests[p.request].elements
        claims == credentials[p.credential].claims
    IN /\ p.disclosed \subseteq elements \cap claims
       /\ idRequests[p.request].required \subseteq p.disclosed
       /\ claims \cap Linkable \subseteq elements

----------------------------------------------------------------------------
Init ==
    /\ idRequests = [r \in Request |-> NoIdRequest]
    /\ live = {}
    /\ credentials = [c \in Credential |-> NoCredential]
    /\ issuer = [current |-> CHOOSE k \in Key : TRUE, previous |-> None, revoked |-> {}]
    /\ delivered = [r \in Request |-> 0]

Ask(s, r, elements, required) ==
    /\ idRequests[r] = NoIdRequest
    /\ elements # {}
    /\ required \subseteq elements
    /\ idRequests' = [idRequests EXCEPT ![r] =
           [session |-> s, elements |-> elements, required |-> required,
            status |-> "active", result |-> None]]
    /\ live' = live \cup {r}
    /\ UNCHANGED <<credentials, issuer, delivered>>

\* Also after it expired: only listing looks at that.
Decline(s, r) ==
    /\ idRequests[r].session = s
    /\ idRequests[r].status = "active"
    /\ idRequests' = [idRequests EXCEPT ![r].status = "declined"]
    /\ UNCHANGED <<live, credentials, issuer, delivered>>

Expire(r) ==
    /\ r \in live
    /\ live' = live \ {r}
    /\ UNCHANGED <<idRequests, credentials, issuer, delivered>>

\* createIssuerSignedCredential, in the course of an enrollment.
IssueCredential(s, c, claims) ==
    /\ credentials[c] = NoCredential
    /\ claims # {}
    /\ credentials' = [credentials EXCEPT ![c] =
           [subject |-> s, key |-> issuer.current, claims |-> claims, status |-> "active"]]
    /\ UNCHANGED <<idRequests, live, issuer, delivered>>

ChangeStatus(c, status) ==
    /\ <<credentials[c].status, status>> \in
           {<<"active", "suspended">>, <<"suspended", "active">>,
            <<"active", "ended">>, <<"suspended", "ended">>}
    /\ credentials' = [credentials EXCEPT ![c].status = status]
    /\ UNCHANGED <<idRequests, live, issuer, delivered>>

\* The keys are read from the environment at start; a current key that is
\* revoked refuses to start.
Redeploy(current, previous, revoked) ==
    /\ current \notin revoked
    /\ previous # current
    /\ issuer' = [current |-> current, previous |-> previous, revoked |-> revoked]
    /\ UNCHANGED <<idRequests, live, credentials, delivered>>

\* A presentation that does not verify changes nothing.
Verify(s, r, p) ==
    /\ idRequests[r].session = s
    /\ p.request = r
    /\ Open(r)
    /\ Vouched(s, p.credential)
    /\ ClaimsFit(p)
    /\ idRequests' = [idRequests EXCEPT ![r].status = "used", ![r].result = p.disclosed]
    /\ UNCHANGED <<live, credentials, issuer, delivered>>

\* readIdentityRequestOutcome, also after the request expired.
Read(s, r) ==
    /\ idRequests[r].session = s
    /\ idRequests[r].status = "used"
    /\ idRequests[r].result # None
    /\ idRequests' = [idRequests EXCEPT ![r].result = None]
    /\ delivered' = [delivered EXCEPT ![r] = @ + 1]
    /\ UNCHANGED <<live, credentials, issuer>>

Next ==
    \/ \E s \in Session, r \in Request :
          \/ \E elements, required \in SUBSET Element : Ask(s, r, elements, required)
          \/ Decline(s, r)
          \/ Read(s, r)
          \/ \E p \in Presented : Verify(s, r, p)
    \/ \E r \in Request : Expire(r)
    \/ \E c \in Credential :
          \/ \E s \in Session, claims \in SUBSET Element : IssueCredential(s, c, claims)
          \/ \E status \in CredentialStatus : ChangeStatus(c, status)
    \/ \E current \in Key, previous \in Key \cup {None}, revoked \in SUBSET Key :
          Redeploy(current, previous, revoked)

Spec == Init /\ [][Next]_ivars

----------------------------------------------------------------------------
(* Properties.                                                             *)

\* Rows have the shape the code gives them.
TypeOK ==
    /\ idRequests \in [Request -> RequestRow \cup {NoIdRequest}]
    /\ live \subseteq Request
    /\ credentials \in [Credential -> CredentialRow \cup {NoCredential}]
    /\ issuer \in [current: Key, previous: Key \cup {None}, revoked: SUBSET Key]
    /\ issuer.current \in TrustedKeys
    /\ delivered \in [Request -> Nat]

\* The state of a request as a slot of a mailbox: what is unanswered closes
\* with time, what is answered waits to be read.
BoxOf(r) ==
    CASE idRequests[r].status = "none"     -> "unused"
      [] idRequests[r].status = "declined" -> "closed"
      [] idRequests[r].status = "active"   -> IF r \in live THEN "open" ELSE "closed"
      [] idRequests[r].status = "used"     ->
            IF idRequests[r].result = None THEN "taken" ELSE "full"

\* Requests are the slots of one-time mailboxes: answered once and read once,
\* and neither once declined, or expired before an answer; an answer waits to
\* be read however long (verify, readIdentityRequestOutcome).
Mailbox == INSTANCE OneTimeMailbox WITH
               Slot <- Request,
               box <- [r \in Request |-> BoxOf(r)],
               reads <- delivered
PresentationIsMailbox == Mailbox!Spec
=============================================================================
