-------------------------------- MODULE SignIn --------------------------------
(***************************************************************************)
(* Signing in: OAuth login attempts, the sessions they open or resume, the *)
(* one-time codes handed to native apps, and the refresh tokens that keep  *)
(* a session alive.                                                        *)
(*                                                                         *)
(* A handler is atomic between two awaits.  The callback awaits the OAuth  *)
(* library (pc "authorizing"), the resolution of the identity of a new     *)
(* session (pc "resolving") and the signature of an access token (pc       *)
(* "signing"); a refresh awaits that signature too (pc "rotating").        *)
(***************************************************************************)
EXTENDS Naturals, FiniteSets

CONSTANTS Did,       \* people who sign in
          Attempt,   \* login attempts (random ids and states in the code)
          Session,   \* session ids
          Code,      \* exchange codes
          Token,     \* refresh tokens
          Request,   \* requests the server can hold at once (a bound)
          NoDid, NoAttempt, NoToken   \* SQL NULL / JavaScript undefined

ASSUME ConstantsAssumption ==
    /\ NoDid \notin Did
    /\ NoAttempt \notin Attempt
    /\ NoToken \notin Token
    /\ IsFiniteSet(Code) /\ IsFiniteSet(Token) /\ IsFiniteSet(Request)

VARIABLES
    attempts,    \* oauth_login_attempts
    savedState,  \* attempts whose state the OAuth library still holds
    sessions,    \* sessions.did of each active session, or NoDid
    seeded,      \* sessions with their provider status and claim requests
    codes,       \* oauth_exchange_codes
    tokens,      \* refresh_tokens
    requests     \* requests being handled

vars == <<attempts, savedState, sessions, seeded, codes, tokens, requests>>

----------------------------------------------------------------------------
(* Rows and requests.  "overdue" says that expires_at has passed.          *)

AttemptStatus == {"none", "pending", "completed", "failed", "expired"}
AttemptRow == [status: AttemptStatus, mobile: BOOLEAN, overdue: BOOLEAN]
NoAttemptRow == [status |-> "none", mobile |-> FALSE, overdue |-> FALSE]

CodeRow == [state: {"unused", "used"}, attempt: Attempt, overdue: BOOLEAN]
NoCode == [state |-> "none", attempt |-> NoAttempt, overdue |-> FALSE]

\* parent is the token a rotation replaced; next is replaced_by_token_hash.
TokenRow == [state: {"live", "revoked"}, attempt: Attempt,
             parent: Token \cup {NoToken}, next: Token \cup {NoToken},
             overdue: BOOLEAN]
NoTokenRow == [state |-> "none", attempt |-> NoAttempt, parent |-> NoToken,
               next |-> NoToken, overdue |-> FALSE]
FreshToken(a, p) == [state |-> "live", attempt |-> a, parent |-> p,
                     next |-> NoToken, overdue |-> FALSE]

\* granted: the library held the state of this callback and will use it.
PendingRequest == [pc: {"authorizing", "resolving", "signing", "rotating"},
                   attempt: Attempt, granted: BOOLEAN,
                   did: Did \cup {NoDid}, token: Token \cup {NoToken}]
NoRequest == [pc |-> "idle", attempt |-> NoAttempt, granted |-> FALSE,
              did |-> NoDid, token |-> NoToken]

AttemptRequest(pc, a, granted, d) ==
    [pc |-> pc, attempt |-> a, granted |-> granted, did |-> d, token |-> NoToken]

End(r) == requests' = [requests EXCEPT ![r] = NoRequest]
HasSession(d) == \E s \in Session : sessions[s] = d

----------------------------------------------------------------------------
Init ==
    /\ attempts = [a \in Attempt |-> NoAttemptRow]
    /\ savedState = {}
    /\ sessions = [s \in Session |-> NoDid]
    /\ seeded = {}
    /\ codes = [c \in Code |-> NoCode]
    /\ tokens = [t \in Token |-> NoTokenRow]
    /\ requests = [r \in Request |-> NoRequest]

\* The library prepares an authorization and saves its state; the attempt is
\* recorded with it.  mobile: a native app asked to be called back.
StartSignIn(a, mobile) ==
    /\ attempts[a].status = "none"
    /\ attempts' = [attempts EXCEPT ![a] =
           [status |-> "pending", mobile |-> mobile, overdue |-> FALSE]]
    /\ savedState' = savedState \cup {a}
    /\ UNCHANGED <<sessions, seeded, codes, tokens, requests>>

\* Mutant of Settled: the UPDATE forgets its guard.
SettledUnguarded(a, s) == [attempts EXCEPT ![a].status = s]

\* The attempts after an UPDATE guarded by status = 'pending'.
Settled(a, s) ==
    IF attempts[a].status = "pending" THEN [attempts EXCEPT ![a].status = s]
    ELSE attempts

\* A callback that arrives too late only expires its attempt.
ExpireAttempt(a) ==
    /\ attempts[a].status = "pending"
    /\ attempts[a].overdue
    /\ attempts' = Settled(a, "expired")
    /\ UNCHANGED <<savedState, sessions, seeded, codes, tokens, requests>>

\* The library reads and deletes the saved state before anything else.
TakeState(a) == savedState' = savedState \ {a}

BeginCallback(r, a) ==
    /\ requests[r] = NoRequest
    /\ attempts[a].status = "pending"
    /\ ~attempts[a].overdue
    /\ TakeState(a)
    /\ requests' = [requests EXCEPT ![r] =
           AttemptRequest("authorizing", a, a \in savedState, NoDid)]
    /\ UNCHANGED <<attempts, sessions, seeded, codes, tokens>>

\* The library rejects the callback (unknown state, denied, unreachable), or
\* the identity of a new session does not resolve.
FailCallback(r) ==
    /\ requests[r].pc \in {"authorizing", "resolving"}
    /\ attempts' = Settled(requests[r].attempt, "failed")
    /\ End(r)
    /\ UNCHANGED <<savedState, sessions, seeded, codes, tokens>>

\* The attempt is completed and the person's credential handed out: a one-time
\* code to a native app, otherwise a token bundle once its access token is
\* signed.  The attempt's status is not read again.
HandOut(r, a, d) ==
    /\ attempts' = Settled(a, "completed")
    /\ \/ /\ attempts[a].mobile
          /\ \E c \in Code :
                /\ codes[c] = NoCode
                /\ codes' = [codes EXCEPT ![c] =
                       [state |-> "unused", attempt |-> a, overdue |-> FALSE]]
          /\ End(r)
       \/ /\ ~attempts[a].mobile
          /\ requests' = [requests EXCEPT ![r] = AttemptRequest("signing", a, TRUE, d)]
          /\ UNCHANGED codes

ResumeSession(r, d) ==
    LET q == requests[r] IN
    /\ q.pc = "authorizing"
    /\ q.granted
    /\ HasSession(d)
    /\ HandOut(r, q.attempt, d)
    /\ UNCHANGED <<savedState, sessions, seeded, tokens>>

ResolveIdentity(r, d) ==
    /\ requests[r].pc = "authorizing"
    /\ requests[r].granted
    /\ ~HasSession(d)
    /\ requests' = [requests EXCEPT ![r].pc = "resolving", ![r].did = d]
    /\ UNCHANGED <<attempts, savedState, sessions, seeded, codes, tokens>>

\* Mutant of OpenSession: the lookup before the await is trusted.
OpenSessionUnchecked(s, d) ==
    /\ sessions[s] = NoDid
    /\ sessions' = [sessions EXCEPT ![s] = d]
    /\ seeded' = seeded \cup {s}

\* createSession after its await: the active session of the DID is resumed,
\* or there is none and one is inserted and seeded in this turn.
OpenSession(s, d) ==
    /\ sessions[s] = IF HasSession(d) THEN d ELSE NoDid
    /\ sessions' = [sessions EXCEPT ![s] = d]
    /\ seeded' = IF HasSession(d) THEN seeded ELSE seeded \cup {s}

CreateSession(r, s) ==
    LET q == requests[r] IN
    /\ q.pc = "resolving"
    /\ OpenSession(s, q.did)
    /\ HandOut(r, q.attempt, q.did)
    /\ UNCHANGED <<savedState, tokens>>

\* issueTokenBundle after the access token is signed.
IssueBundle(r, t) ==
    /\ requests[r].pc = "signing"
    /\ tokens[t] = NoTokenRow
    /\ tokens' = [tokens EXCEPT ![t] = FreshToken(requests[r].attempt, NoToken)]
    /\ End(r)
    /\ UNCHANGED <<attempts, savedState, sessions, seeded, codes>>

----------------------------------------------------------------------------
(* Exchange codes.  Every exchange first deletes the overdue ones.         *)

Pruned == [c \in Code |-> IF codes[c].overdue THEN NoCode ELSE codes[c]]

\* Mutant of Redeemable: a code is consumed without the used_at guard.
RedeemableTwice(c) == codes[c] # NoCode /\ ~codes[c].overdue

Redeemable(c) == codes[c].state = "unused" /\ ~codes[c].overdue

Exchange(r, c) ==
    /\ requests[r] = NoRequest
    /\ Redeemable(c)
    /\ codes' = [Pruned EXCEPT ![c].state = "used"]
    /\ requests' = [requests EXCEPT ![r] =
           AttemptRequest("signing", codes[c].attempt, TRUE, NoDid)]
    /\ UNCHANGED <<attempts, savedState, sessions, seeded, tokens>>

\* An unknown, used or overdue code is refused; the pruning remains.
RefuseExchange ==
    /\ codes # Pruned
    /\ codes' = Pruned
    /\ UNCHANGED <<attempts, savedState, sessions, seeded, tokens, requests>>

----------------------------------------------------------------------------
(* Refreshing.                                                             *)

BeginRefresh(r, t) ==
    /\ requests[r] = NoRequest
    /\ tokens[t].state = "live"
    /\ ~tokens[t].overdue
    /\ requests' = [requests EXCEPT ![r] =
           [pc |-> "rotating", attempt |-> tokens[t].attempt, granted |-> FALSE,
            did |-> NoDid, token |-> t]]
    /\ UNCHANGED <<attempts, savedState, sessions, seeded, codes, tokens>>

\* An overdue token presented for a refresh is revoked.
RevokeOverdue(t) ==
    /\ tokens[t].state = "live"
    /\ tokens[t].overdue
    /\ tokens' = [tokens EXCEPT ![t].state = "revoked"]
    /\ UNCHANGED <<attempts, savedState, sessions, seeded, codes, requests>>

\* Mutant of Retired: the UPDATE forgets revoked_at IS NULL.
RetiredUnguarded(row, n) == [row EXCEPT !.state = "revoked", !.next = n]

\* A token after the UPDATE that retires it, guarded by revoked_at IS NULL.
Retired(row, n) ==
    IF row.state = "live" THEN [row EXCEPT !.state = "revoked", !.next = n] ELSE row

\* Mutant of Rotated: the successor is inserted, the old token left alone.
RotatedKeepingOld(t, n) == [tokens EXCEPT ![n] = FreshToken(tokens[t].attempt, t)]

\* Mutant of Rotated: the successor is not tied to what the old one stood for.
RotatedUnowned(t, n) ==
    [tokens EXCEPT ![n] = FreshToken(NoAttempt, t), ![t] = Retired(@, n)]

\* The transaction inserts the successor and retires the token it replaces.
Rotated(t, n) ==
    [tokens EXCEPT ![n] = FreshToken(tokens[t].attempt, t), ![t] = Retired(@, n)]

\* The token's state is not read again after the await.
FinishRefresh(r, n) ==
    /\ requests[r].pc = "rotating"
    /\ tokens[n] = NoTokenRow
    /\ tokens' = Rotated(requests[r].token, n)
    /\ End(r)
    /\ UNCHANGED <<attempts, savedState, sessions, seeded, codes>>

----------------------------------------------------------------------------
(* Time passes, and the process dies.                                      *)

AttemptOverdue(a) ==
    /\ attempts[a].status = "pending"
    /\ ~attempts[a].overdue
    /\ attempts' = [attempts EXCEPT ![a].overdue = TRUE]
    /\ UNCHANGED <<savedState, sessions, seeded, codes, tokens, requests>>

CodeOverdue(c) ==
    /\ codes[c] # NoCode
    /\ ~codes[c].overdue
    /\ codes' = [codes EXCEPT ![c].overdue = TRUE]
    /\ UNCHANGED <<attempts, savedState, sessions, seeded, tokens, requests>>

TokenOverdue(t) ==
    /\ tokens[t].state = "live"
    /\ ~tokens[t].overdue
    /\ tokens' = [tokens EXCEPT ![t].overdue = TRUE]
    /\ UNCHANGED <<attempts, savedState, sessions, seeded, codes, requests>>

DropRequests == requests' = [r \in Request |-> NoRequest]

Crash ==
    /\ DropRequests
    /\ UNCHANGED <<attempts, savedState, sessions, seeded, codes, tokens>>

\* It dies while a session is opened: after its row, or after its seeds too,
\* or after the attempt was also completed but no credential handed out.
CrashSigningIn(r, s, isSeeded, isCompleted) ==
    LET q == requests[r] IN
    /\ q.pc = "resolving"
    /\ ~HasSession(q.did)
    /\ sessions[s] = NoDid
    /\ isCompleted => isSeeded
    /\ sessions' = [sessions EXCEPT ![s] = q.did]
    /\ seeded' = IF isSeeded THEN seeded \cup {s} ELSE seeded
    /\ attempts' = IF isCompleted THEN Settled(q.attempt, "completed") ELSE attempts
    /\ DropRequests
    /\ UNCHANGED <<savedState, codes, tokens>>

----------------------------------------------------------------------------
Next ==
    \/ \E a \in Attempt, mobile \in BOOLEAN : StartSignIn(a, mobile)
    \/ \E a \in Attempt : ExpireAttempt(a)
    \/ \E r \in Request, a \in Attempt : BeginCallback(r, a)
    \/ \E r \in Request : FailCallback(r)
    \/ \E r \in Request, d \in Did : ResumeSession(r, d)
    \/ \E r \in Request, d \in Did : ResolveIdentity(r, d)
    \/ \E r \in Request, s \in Session : CreateSession(r, s)
    \/ \E r \in Request, t \in Token : IssueBundle(r, t)
    \/ \E r \in Request, c \in Code : Exchange(r, c)
    \/ RefuseExchange
    \/ \E r \in Request, t \in Token : BeginRefresh(r, t)
    \/ \E t \in Token : RevokeOverdue(t)
    \/ \E r \in Request, n \in Token : FinishRefresh(r, n)
    \/ \E a \in Attempt : AttemptOverdue(a)
    \/ \E c \in Code : CodeOverdue(c)
    \/ \E t \in Token : TokenOverdue(t)
    \/ Crash
    \/ \E r \in Request, s \in Session, x \in BOOLEAN, y \in BOOLEAN :
          CrashSigningIn(r, s, x, y)

Spec == Init /\ [][Next]_vars

----------------------------------------------------------------------------
(* Properties.                                                             *)

\* Every row and request has the shape the code gives it.
TypeOK ==
    /\ attempts \in [Attempt -> AttemptRow]
    /\ savedState \subseteq Attempt
    /\ sessions \in [Session -> Did \cup {NoDid}]
    /\ seeded \subseteq Session
    /\ codes \in [Code -> CodeRow \cup {NoCode}]
    /\ tokens \in [Token -> TokenRow \cup {NoTokenRow}]
    /\ requests \in [Request -> PendingRequest \cup {NoRequest}]

\* What attempt a has been, or can still be, turned into a token bundle by:
\* its saved state, a callback that holds it, an unused code, or a bundle.
GrantedRequests(a) ==
    {r \in Request : requests[r].attempt = a /\ requests[r].granted}
UnusedCodes(a) == {c \in Code : codes[c].attempt = a /\ codes[c].state = "unused"}
Bundles(a) == {t \in Token : tokens[t].attempt = a /\ tokens[t].parent = NoToken}

\* One sign-in yields one bundle: reloading the callback page, presenting a
\* code twice, or racing two exchanges never yields a second chain of tokens
\* (oauthCallback, consumeExchangeCode).
OneBundlePerAttempt ==
    \A a \in Attempt :
        (IF a \in savedState THEN 1 ELSE 0) + Cardinality(GrantedRequests(a))
            + Cardinality(UnusedCodes(a)) + Cardinality(Bundles(a)) <= 1

\* One active session per DID: two first sign-ins of one person that race
\* through the resolution of its identity share a session, so the unique
\* index on sessions never makes either of them fail (createSession).
OneSessionPerDid ==
    \A s1, s2 \in Session : sessions[s1] = sessions[s2] /\ s1 # s2 => sessions[s1] = NoDid

\* An attempt that was completed, failed or expired stays so, whatever late
\* or repeated callbacks do (the guarded UPDATEs of oauthLoginAttempts).
AttemptsSettleOnce ==
    [][\A a \in Attempt :
          attempts[a].status \in {"completed", "failed", "expired"} =>
              attempts'[a].status = attempts[a].status]_vars

\* A revoked refresh token stays revoked and keeps the successor it has, also
\* when a second rotation of it was already under way (rotateRefreshToken).
RetirementIsFinal ==
    [][\A t \in Token :
          tokens[t].state = "revoked" =>
              /\ tokens'[t].state = "revoked"
              /\ tokens'[t].next = tokens[t].next]_vars

\* Once a rotation is stored the token it started from is dead, however many
\* rotations of it overlapped: the old token cannot be rotated again later.
ReplacedIsRevoked ==
    \A n \in Token :
        tokens[n].parent # NoToken => tokens[tokens[n].parent].state = "revoked"

\* What a comment claims of token rotation: of two uses of one token one
\* loses the race.  The row is read before the await, and the UPDATE that
\* finds it already revoked is not noticed.
RotatedOnce ==
    \A m, n \in Token :
        tokens[m].parent = tokens[n].parent /\ m # n => tokens[m].parent = NoToken
=============================================================================
