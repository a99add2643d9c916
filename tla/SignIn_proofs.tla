----------------------------- MODULE SignIn_proofs -----------------------------
(***************************************************************************)
(* The safety properties of SignIn, for any people, attempts and sessions, *)
(* and any finite sets of codes, tokens and concurrent requests.           *)
(***************************************************************************)
EXTENDS SignIn, FiniteSetTheorems, TLAPS

----------------------------------------------------------------------------
(* The inductive invariant.                                                *)

\* Once the library has answered, the request holds the sign-in's one grant;
\* a refresh holds none, and its token exists.
RequestsInv ==
    \A r \in Request : LET q == requests[r] IN
        /\ q.pc \in {"resolving", "signing"} => q.granted = TRUE
        /\ q.pc = "resolving" => q.did \in Did
        /\ q.pc = "rotating" => /\ q.granted = FALSE
                                /\ q.token \in Token
                                /\ tokens[q.token] # NoTokenRow

BaseInv == TypeOK /\ RequestsInv

\* What the sign-in of an attempt can still be made of, or has been made of: the
\* saved state, a request that holds it, an unused code, a first token.
HeldByRequest(r, a) == requests[r].attempt = a /\ requests[r].granted = TRUE
HeldByCode(c, a) == codes[c].attempt = a /\ codes[c].state = "unused"
HeldByToken(t, a) == tokens[t].attempt = a /\ tokens[t].parent = NoToken

Holds(kind, id, a) ==
    \/ kind = "state" /\ id = a /\ a \in savedState
    \/ kind = "request" /\ id \in Request /\ HeldByRequest(id, a)
    \/ kind = "code" /\ id \in Code /\ HeldByCode(id, a)
    \/ kind = "token" /\ id \in Token /\ HeldByToken(id, a)

\* It is only ever one of them, and nothing before the attempt is made.
OneGrant(a) ==
    /\ \A k, l, i, j : Holds(k, i, a) /\ Holds(l, j, a) => k = l /\ i = j
    /\ attempts[a].status = "none" => \A k, i : ~ Holds(k, i, a)

----------------------------------------------------------------------------
(* Rows.                                                                   *)

LEMMA AttemptType ==
    ASSUME TypeOK, NEW a \in Attempt
    PROVE  /\ attempts[a].status \in AttemptStatus
           /\ attempts[a].mobile \in BOOLEAN
           /\ attempts[a].overdue \in BOOLEAN
           /\ attempts[a] \in AttemptRow \cup {NoAttemptRow}
BY DEF TypeOK, AttemptRow, AttemptStatus, NoAttemptRow

LEMMA RequestType ==
    ASSUME TypeOK, NEW r \in Request, requests[r].pc # "idle"
    PROVE  /\ requests[r] \in PendingRequest
           /\ requests[r].attempt \in Attempt
           /\ requests[r].granted \in BOOLEAN
           /\ requests[r].did \in Did \cup {NoDid}
           /\ requests[r].token \in Token \cup {NoToken}
<1>1. requests[r] \in PendingRequest
  BY DEF TypeOK, NoRequest
<1>2. QED
  BY <1>1 DEF PendingRequest

LEMMA CodeType ==
    ASSUME TypeOK, NEW c \in Code, codes[c] # NoCode
    PROVE  codes[c] \in CodeRow /\ codes[c].attempt \in Attempt
<1>1. codes[c] \in CodeRow
  BY DEF TypeOK
<1>2. QED
  BY <1>1 DEF CodeRow

LEMMA TokenType ==
    ASSUME TypeOK, NEW t \in Token, tokens[t] # NoTokenRow
    PROVE  /\ tokens[t] \in TokenRow
           /\ tokens[t].attempt \in Attempt
           /\ tokens[t].parent \in Token \cup {NoToken}
           /\ tokens[t].state \in {"live", "revoked"}
<1>1. tokens[t] \in TokenRow
  BY DEF TypeOK
<1>2. QED
  BY <1>1 DEF TokenRow

LEMMA SettledType ==
    ASSUME TypeOK, NEW a \in Attempt, NEW s \in AttemptStatus
    PROVE  Settled(a, s) \in [Attempt -> AttemptRow]
<1>1. attempts \in [Attempt -> AttemptRow]
  BY DEF TypeOK
<1>2. [attempts[a] EXCEPT !.status = s] \in AttemptRow
  BY <1>1 DEF AttemptRow
<1>3. [attempts EXCEPT ![a] = [attempts[a] EXCEPT !.status = s]] \in [Attempt -> AttemptRow]
  BY <1>1, <1>2
<1>4. QED
  BY <1>1, <1>3 DEF Settled

LEMMA EndType ==
    ASSUME TypeOK, NEW r \in Request, End(r)
    PROVE  /\ requests' \in [Request -> PendingRequest \cup {NoRequest}]
           /\ \A q \in Request : requests'[q] = IF q = r THEN NoRequest ELSE requests[q]
BY DEF TypeOK, End

\* A request becomes another one.
LEMMA RequestSet ==
    ASSUME TypeOK, NEW r \in Request, NEW q \in PendingRequest,
           requests' = [requests EXCEPT ![r] = q]
    PROVE  /\ requests' \in [Request -> PendingRequest \cup {NoRequest}]
           /\ \A p \in Request : requests'[p] = IF p = r THEN q ELSE requests[p]
BY DEF TypeOK

LEMMA AttemptRequestType ==
    ASSUME NEW pc \in {"authorizing", "resolving", "signing"}, NEW a \in Attempt,
           NEW granted \in BOOLEAN, NEW d \in Did \cup {NoDid}
    PROVE  AttemptRequest(pc, a, granted, d) \in PendingRequest
BY DEF AttemptRequest, PendingRequest

LEMMA DropType ==
    ASSUME DropRequests
    PROVE  /\ requests' \in [Request -> PendingRequest \cup {NoRequest}]
           /\ \A q \in Request : requests'[q] = NoRequest
BY DEF DropRequests

\* A new token, and what a rotation leaves of the old one.
LEMMA FreshTokenType ==
    ASSUME NEW a \in Attempt, NEW p \in Token \cup {NoToken}
    PROVE  FreshToken(a, p) \in TokenRow
BY DEF FreshToken, TokenRow

LEMMA RetiredType ==
    ASSUME NEW row \in TokenRow, NEW n \in Token
    PROVE  /\ Retired(row, n) \in TokenRow
           /\ Retired(row, n).state = "revoked"
           /\ Retired(row, n).attempt = row.attempt
           /\ Retired(row, n).parent = row.parent
           /\ row.state = "revoked" => Retired(row, n) = row
<1>1. row.state \in {"live", "revoked"}
  BY DEF TokenRow
<1>2. [row EXCEPT !.state = "revoked", !.next = n] \in TokenRow
  BY DEF TokenRow
<1>3. CASE row.state = "live"
  BY <1>2, <1>3 DEF Retired, TokenRow
<1>4. CASE row.state = "revoked"
  BY <1>4 DEF Retired
<1>5. QED
  BY <1>1, <1>3, <1>4

LEMMA PrunedIs ==
    ASSUME TypeOK
    PROVE  /\ Pruned \in [Code -> CodeRow \cup {NoCode}]
           /\ \A c \in Code : Pruned[c] = NoCode \/ Pruned[c] = codes[c]
BY DEF TypeOK, Pruned

----------------------------------------------------------------------------
(* Every step preserves the shape of rows and requests.                    *)

LEMMA RequestsStep ==
    ASSUME RequestsInv,
           \A t \in Token : tokens[t] # NoTokenRow => tokens'[t] # NoTokenRow,
           \A p \in Request : LET q == requests'[p] IN
              \/ q = requests[p]
              \/ q.pc \in {"idle", "authorizing"}
              \/ q.pc = "signing" /\ q.granted = TRUE
              \/ q.pc = "resolving" /\ q.granted = TRUE /\ q.did \in Did
              \/ q.pc = "rotating" /\ q.granted = FALSE /\ q.token \in Token
                                   /\ tokens[q.token] # NoTokenRow
    PROVE  RequestsInv'
<1> SUFFICES ASSUME NEW p \in Request
             PROVE  LET q == requests'[p] IN
                    /\ q.pc \in {"resolving", "signing"} => q.granted = TRUE
                    /\ q.pc = "resolving" => q.did \in Did
                    /\ q.pc = "rotating" => /\ q.granted = FALSE
                                            /\ q.token \in Token
                                            /\ tokens'[q.token] # NoTokenRow
  BY DEF RequestsInv
<1>1. CASE requests'[p] = requests[p]
  BY <1>1 DEF RequestsInv
<1>2. CASE requests'[p] # requests[p]
  BY <1>2
<1>3. QED
  BY <1>1, <1>2

LEMMA AttemptsBase ==
    ASSUME BaseInv, attempts' \in [Attempt -> AttemptRow], savedState' \subseteq Attempt,
           UNCHANGED <<sessions, seeded, codes, tokens, requests>>
    PROVE  BaseInv'
BY DEF BaseInv, TypeOK, RequestsInv

LEMMA StartSignInBase ==
    ASSUME BaseInv, NEW a \in Attempt, NEW mobile \in BOOLEAN, StartSignIn(a, mobile)
    PROVE  BaseInv'
<1>1. [status |-> "pending", mobile |-> mobile, overdue |-> FALSE] \in AttemptRow
  BY DEF AttemptRow, AttemptStatus
<1>2. attempts' \in [Attempt -> AttemptRow] /\ savedState' \subseteq Attempt
  BY <1>1 DEF StartSignIn, BaseInv, TypeOK
<1>3. QED
  BY <1>2, AttemptsBase DEF StartSignIn

LEMMA ExpireAttemptBase ==
    ASSUME BaseInv, NEW a \in Attempt, ExpireAttempt(a)
    PROVE  BaseInv'
<1>1. attempts' \in [Attempt -> AttemptRow]
  BY SettledType DEF ExpireAttempt, BaseInv, AttemptStatus
<1>2. QED
  BY <1>1, AttemptsBase DEF ExpireAttempt, BaseInv, TypeOK

LEMMA AttemptOverdueBase ==
    ASSUME BaseInv, NEW a \in Attempt, AttemptOverdue(a)
    PROVE  BaseInv'
<1>1. [attempts[a] EXCEPT !.overdue = TRUE] \in AttemptRow
  BY DEF BaseInv, TypeOK, AttemptRow
<1>2. attempts' = [attempts EXCEPT ![a] = [attempts[a] EXCEPT !.overdue = TRUE]]
  BY DEF AttemptOverdue, BaseInv, TypeOK
<1>3. attempts' \in [Attempt -> AttemptRow]
  BY <1>1, <1>2 DEF BaseInv, TypeOK
<1>4. QED
  BY <1>3, AttemptsBase DEF AttemptOverdue, BaseInv, TypeOK

LEMMA BeginCallbackBase ==
    ASSUME BaseInv, NEW r \in Request, NEW a \in Attempt, BeginCallback(r, a)
    PROVE  BaseInv'
<1> DEFINE q == AttemptRequest("authorizing", a, a \in savedState, NoDid)
<1>1. q \in PendingRequest
  <2>1. (a \in savedState) \in BOOLEAN
    OBVIOUS
  <2>2. QED
    BY <2>1 DEF AttemptRequest, PendingRequest
<1>2. /\ requests' \in [Request -> PendingRequest \cup {NoRequest}]
      /\ \A p \in Request : requests'[p] = IF p = r THEN q ELSE requests[p]
  BY <1>1, RequestSet DEF BeginCallback, BaseInv
<1>3. TypeOK'
  BY <1>2 DEF BeginCallback, TakeState, BaseInv, TypeOK
<1>4. q.pc = "authorizing"
  BY DEF AttemptRequest
<1>5. RequestsInv'
  BY <1>2, <1>4, RequestsStep DEF BeginCallback, BaseInv
<1>6. QED
  BY <1>3, <1>5 DEF BaseInv

LEMMA FailCallbackBase ==
    ASSUME BaseInv, NEW r \in Request, FailCallback(r)
    PROVE  BaseInv'
<1>1. requests[r].attempt \in Attempt
  BY RequestType DEF FailCallback, BaseInv
<1>2. attempts' \in [Attempt -> AttemptRow]
  BY <1>1, SettledType DEF FailCallback, BaseInv, AttemptStatus
<1>3. /\ requests' \in [Request -> PendingRequest \cup {NoRequest}]
      /\ \A q \in Request : requests'[q] = IF q = r THEN NoRequest ELSE requests[q]
  BY EndType DEF FailCallback, BaseInv
<1>4. TypeOK'
  BY <1>2, <1>3 DEF FailCallback, BaseInv, TypeOK
<1>5. RequestsInv'
  <2>1. \A p \in Request : requests'[p] = requests[p] \/ requests'[p].pc = "idle"
    BY <1>3 DEF NoRequest
  <2>2. QED
    BY <2>1, RequestsStep DEF FailCallback, BaseInv
<1>6. QED
  BY <1>4, <1>5 DEF BaseInv

\* What handing out does to attempts, codes and requests.
LEMMA HandOutEffect ==
    ASSUME TypeOK, NEW r \in Request, NEW a \in Attempt, NEW d \in Did \cup {NoDid},
           HandOut(r, a, d)
    PROVE  /\ attempts' \in [Attempt -> AttemptRow]
           /\ \/ /\ \E c \in Code :
                       /\ codes[c] = NoCode
                       /\ codes' = [codes EXCEPT ![c] =
                              [state |-> "unused", attempt |-> a, overdue |-> FALSE]]
                 /\ codes' \in [Code -> CodeRow \cup {NoCode}]
                 /\ End(r)
              \/ /\ requests' = [requests EXCEPT ![r] = AttemptRequest("signing", a, TRUE, d)]
                 /\ UNCHANGED codes
           /\ requests' \in [Request -> PendingRequest \cup {NoRequest}]
           /\ \A p \in Request :
                 \/ requests'[p] = requests[p]
                 \/ requests'[p].pc = "idle"
                 \/ requests'[p].pc = "signing" /\ requests'[p].granted = TRUE
<1>1. attempts' \in [Attempt -> AttemptRow]
  BY SettledType DEF HandOut, AttemptStatus
<1>2. CASE /\ \E c \in Code :
                 /\ codes[c] = NoCode
                 /\ codes' = [codes EXCEPT ![c] =
                        [state |-> "unused", attempt |-> a, overdue |-> FALSE]]
           /\ End(r)
  <2>1. [state |-> "unused", attempt |-> a, overdue |-> FALSE] \in CodeRow
    BY DEF CodeRow
  <2>2. codes' \in [Code -> CodeRow \cup {NoCode}]
    BY <1>2, <2>1 DEF TypeOK
  <2>3. /\ requests' \in [Request -> PendingRequest \cup {NoRequest}]
        /\ \A q \in Request : requests'[q] = IF q = r THEN NoRequest ELSE requests[q]
    BY <1>2, EndType
  <2>4. \A p \in Request : requests'[p] = requests[p] \/ requests'[p].pc = "idle"
    BY <2>3 DEF NoRequest
  <2>5. QED
    BY <1>1, <1>2, <2>2, <2>3, <2>4, Zenon
<1>3. CASE /\ requests' = [requests EXCEPT ![r] = AttemptRequest("signing", a, TRUE, d)]
           /\ UNCHANGED codes
  <2>1. AttemptRequest("signing", a, TRUE, d) \in PendingRequest
    BY AttemptRequestType
  <2>2. /\ requests' \in [Request -> PendingRequest \cup {NoRequest}]
        /\ \A p \in Request : requests'[p] =
              IF p = r THEN AttemptRequest("signing", a, TRUE, d) ELSE requests[p]
    BY <1>3, <2>1, RequestSet
  <2>3. QED
    BY <1>1, <1>3, <2>2 DEF AttemptRequest
<1>4. QED
  BY <1>2, <1>3 DEF HandOut

\* A handing out leaves rows and requests in shape.
LEMMA HandOutBase ==
    ASSUME BaseInv, NEW r \in Request, NEW a \in Attempt, NEW d \in Did \cup {NoDid},
           HandOut(r, a, d), sessions' \in [Session -> Did \cup {NoDid}],
           seeded' \subseteq Session, UNCHANGED <<savedState, tokens>>
    PROVE  BaseInv'
<1>1. TypeOK'
  BY HandOutEffect DEF BaseInv, TypeOK
<1>2. RequestsInv'
  <2>1. \A p \in Request :
           \/ requests'[p] = requests[p]
           \/ requests'[p].pc = "idle"
           \/ requests'[p].pc = "signing" /\ requests'[p].granted = TRUE
    BY HandOutEffect DEF BaseInv
  <2>2. QED
    BY <2>1, RequestsStep DEF BaseInv
<1>3. QED
  BY <1>1, <1>2 DEF BaseInv

LEMMA ResumeSessionBase ==
    ASSUME BaseInv, NEW r \in Request, NEW d \in Did, ResumeSession(r, d)
    PROVE  BaseInv'
<1>1. requests[r].attempt \in Attempt
  BY RequestType DEF ResumeSession, BaseInv
<1>2. QED
  BY <1>1, HandOutBase DEF ResumeSession, BaseInv, TypeOK

LEMMA ResolveIdentityBase ==
    ASSUME BaseInv, NEW r \in Request, NEW d \in Did, ResolveIdentity(r, d)
    PROVE  BaseInv'
<1> DEFINE q == [requests[r] EXCEPT !.pc = "resolving", !.did = d]
<1>1. requests[r] \in PendingRequest
  BY RequestType DEF ResolveIdentity, BaseInv
<1>2. /\ q \in PendingRequest
      /\ q.pc = "resolving" /\ q.granted = requests[r].granted /\ q.did = d
  BY <1>1 DEF PendingRequest
<1>3. requests[r].granted = TRUE
  BY <1>1 DEF ResolveIdentity, PendingRequest
<1>4. requests' = [requests EXCEPT ![r] = q]
  BY DEF ResolveIdentity, BaseInv, TypeOK
<1>5. /\ requests' \in [Request -> PendingRequest \cup {NoRequest}]
      /\ \A p \in Request : requests'[p] = IF p = r THEN q ELSE requests[p]
  BY <1>2, <1>4, RequestSet DEF BaseInv
<1>6. TypeOK'
  BY <1>5 DEF ResolveIdentity, BaseInv, TypeOK
<1>7. RequestsInv'
  BY <1>2, <1>3, <1>5, RequestsStep DEF ResolveIdentity, BaseInv
<1>8. QED
  BY <1>6, <1>7 DEF BaseInv

LEMMA CreateSessionBase ==
    ASSUME BaseInv, NEW r \in Request, NEW s \in Session, CreateSession(r, s)
    PROVE  BaseInv'
<1>1. requests[r].attempt \in Attempt /\ requests[r].did \in Did
  BY RequestType DEF CreateSession, BaseInv, RequestsInv
<1>2. sessions' \in [Session -> Did \cup {NoDid}] /\ seeded' \subseteq Session
  BY <1>1 DEF CreateSession, OpenSession, BaseInv, TypeOK
<1>3. QED
  BY <1>1, <1>2, HandOutBase DEF CreateSession

\* A token row becomes another one.
LEMMA TokenSet ==
    ASSUME TypeOK, NEW t \in Token, NEW row \in TokenRow,
           tokens' = [tokens EXCEPT ![t] = row]
    PROVE  /\ tokens' \in [Token -> TokenRow \cup {NoTokenRow}]
           /\ \A m \in Token : tokens'[m] = IF m = t THEN row ELSE tokens[m]
BY DEF TypeOK

LEMMA TokenRowExists == \A row \in TokenRow : row # NoTokenRow
BY ConstantsAssumption DEF TokenRow, NoTokenRow

\* Tokens change, and requests at most end.
LEMMA TokensBase ==
    ASSUME BaseInv, tokens' \in [Token -> TokenRow \cup {NoTokenRow}],
           \A t \in Token : tokens[t] # NoTokenRow => tokens'[t] # NoTokenRow,
           requests' \in [Request -> PendingRequest \cup {NoRequest}],
           \A p \in Request : requests'[p] = requests[p] \/ requests'[p].pc = "idle",
           UNCHANGED <<attempts, savedState, sessions, seeded, codes>>
    PROVE  BaseInv'
<1>1. TypeOK'
  BY DEF BaseInv, TypeOK
<1>2. RequestsInv'
  BY RequestsStep DEF BaseInv
<1>3. QED
  BY <1>1, <1>2 DEF BaseInv

LEMMA EndStep ==
    ASSUME TypeOK, NEW r \in Request, End(r)
    PROVE  \A p \in Request : requests'[p] = requests[p] \/ requests'[p].pc = "idle"
BY EndType DEF NoRequest

LEMMA IssueBundleEffect ==
    ASSUME BaseInv, NEW r \in Request, NEW t \in Token, IssueBundle(r, t)
    PROVE  /\ requests[r].attempt \in Attempt
           /\ tokens[t] = NoTokenRow
           /\ tokens' \in [Token -> TokenRow \cup {NoTokenRow}]
           /\ \A m \in Token : tokens'[m] =
                 IF m = t THEN FreshToken(requests[r].attempt, NoToken) ELSE tokens[m]
<1>1. requests[r].attempt \in Attempt
  BY RequestType DEF IssueBundle, BaseInv
<1>2. FreshToken(requests[r].attempt, NoToken) \in TokenRow
  BY <1>1, FreshTokenType
<1>3. QED
  BY <1>1, <1>2, TokenSet DEF IssueBundle, BaseInv

LEMMA IssueBundleBase ==
    ASSUME BaseInv, NEW r \in Request, NEW t \in Token, IssueBundle(r, t)
    PROVE  BaseInv'
<1>1. /\ requests' \in [Request -> PendingRequest \cup {NoRequest}]
      /\ \A p \in Request : requests'[p] = requests[p] \/ requests'[p].pc = "idle"
  BY EndType, EndStep DEF IssueBundle, BaseInv
<1>2. /\ tokens' \in [Token -> TokenRow \cup {NoTokenRow}]
      /\ \A m \in Token : tokens[m] # NoTokenRow => tokens'[m] # NoTokenRow
  BY IssueBundleEffect
<1>3. QED
  BY <1>1, <1>2, TokensBase DEF IssueBundle

LEMMA ExchangeEffect ==
    ASSUME TypeOK, NEW r \in Request, NEW c \in Code, Exchange(r, c)
    PROVE  /\ codes[c].attempt \in Attempt
           /\ codes' \in [Code -> CodeRow \cup {NoCode}]
           /\ codes'[c].state = "used"
           /\ \A b \in Code : b # c => codes'[b] = NoCode \/ codes'[b] = codes[b]
<1>1. codes[c].state = "unused" /\ codes[c].overdue = FALSE /\ codes[c] # NoCode
  <2>1. codes[c].state = "unused" /\ ~codes[c].overdue
    BY DEF Exchange, Redeemable
  <2>2. codes[c] # NoCode
    BY <2>1 DEF NoCode
  <2>3. codes[c].overdue \in BOOLEAN
    BY <2>2, CodeType DEF CodeRow
  <2>4. QED
    BY <2>1, <2>2, <2>3
<1>2. codes[c] \in CodeRow /\ codes[c].attempt \in Attempt
  BY <1>1, CodeType
<1>3. Pruned[c] = codes[c]
  BY <1>1 DEF Pruned
<1>4. [codes[c] EXCEPT !.state = "used"] \in CodeRow
  BY <1>2 DEF CodeRow
<1>5. codes' = [Pruned EXCEPT ![c] = [codes[c] EXCEPT !.state = "used"]]
  BY <1>3, PrunedIs DEF Exchange
<1>6. QED
  BY <1>2, <1>4, <1>5, PrunedIs DEF CodeRow

LEMMA ExchangeBase ==
    ASSUME BaseInv, NEW r \in Request, NEW c \in Code, Exchange(r, c)
    PROVE  BaseInv'
<1> DEFINE q == AttemptRequest("signing", codes[c].attempt, TRUE, NoDid)
<1>1. codes[c].attempt \in Attempt /\ codes' \in [Code -> CodeRow \cup {NoCode}]
  BY ExchangeEffect DEF BaseInv
<1>2. q \in PendingRequest /\ q.pc = "signing" /\ q.granted = TRUE
  BY <1>1 DEF AttemptRequest, PendingRequest
<1>3. /\ requests' \in [Request -> PendingRequest \cup {NoRequest}]
      /\ \A p \in Request : requests'[p] = IF p = r THEN q ELSE requests[p]
  BY <1>2, RequestSet DEF Exchange, BaseInv
<1>4. TypeOK'
  BY <1>1, <1>3 DEF Exchange, BaseInv, TypeOK
<1>5. RequestsInv'
  BY <1>2, <1>3, RequestsStep DEF Exchange, BaseInv
<1>6. QED
  BY <1>4, <1>5 DEF BaseInv

LEMMA CodesBase ==
    ASSUME BaseInv, codes' \in [Code -> CodeRow \cup {NoCode}],
           UNCHANGED <<attempts, savedState, sessions, seeded, tokens, requests>>
    PROVE  BaseInv'
BY DEF BaseInv, TypeOK, RequestsInv

LEMMA CodeOverdueEffect ==
    ASSUME TypeOK, NEW c \in Code, CodeOverdue(c)
    PROVE  /\ codes' \in [Code -> CodeRow \cup {NoCode}]
           /\ \A b \in Code : /\ codes'[b].attempt = codes[b].attempt
                              /\ codes'[b].state = codes[b].state
<1>1. codes[c] \in CodeRow
  BY CodeType DEF CodeOverdue
<1>2. /\ [codes[c] EXCEPT !.overdue = TRUE] \in CodeRow
      /\ [codes[c] EXCEPT !.overdue = TRUE].attempt = codes[c].attempt
      /\ [codes[c] EXCEPT !.overdue = TRUE].state = codes[c].state
  BY <1>1 DEF CodeRow
<1>3. codes' = [codes EXCEPT ![c] = [codes[c] EXCEPT !.overdue = TRUE]]
  BY DEF CodeOverdue, TypeOK
<1>4. QED
  BY <1>2, <1>3 DEF TypeOK

LEMMA BeginRefreshEffect ==
    ASSUME TypeOK, NEW r \in Request, NEW t \in Token, BeginRefresh(r, t)
    PROVE  /\ tokens[t] # NoTokenRow
           /\ requests' \in [Request -> PendingRequest \cup {NoRequest}]
           /\ \A p \in Request : requests'[p] =
                 IF p = r THEN [pc |-> "rotating", attempt |-> tokens[t].attempt,
                                granted |-> FALSE, did |-> NoDid, token |-> t]
                          ELSE requests[p]
<1> DEFINE q == [pc |-> "rotating", attempt |-> tokens[t].attempt, granted |-> FALSE,
                 did |-> NoDid, token |-> t]
<1>1. tokens[t] # NoTokenRow
  BY DEF BeginRefresh, NoTokenRow
<1>2. q \in PendingRequest
  BY <1>1, TokenType DEF PendingRequest
<1>3. QED
  BY <1>1, <1>2, RequestSet DEF BeginRefresh

LEMMA BeginRefreshBase ==
    ASSUME BaseInv, NEW r \in Request, NEW t \in Token, BeginRefresh(r, t)
    PROVE  BaseInv'
<1> DEFINE q == [pc |-> "rotating", attempt |-> tokens[t].attempt, granted |-> FALSE,
                 did |-> NoDid, token |-> t]
<1>1. TypeOK'
  BY BeginRefreshEffect DEF BeginRefresh, BaseInv, TypeOK
<1>2. tokens[t] # NoTokenRow /\ \A p \in Request : requests'[p] = IF p = r THEN q ELSE requests[p]
  BY BeginRefreshEffect DEF BaseInv
<1>3. q.pc = "rotating" /\ q.granted = FALSE /\ q.token = t
  OBVIOUS
<1>4. RequestsInv'
  <2>1. \A p \in Request :
           \/ requests'[p] = requests[p]
           \/ /\ requests'[p].pc = "rotating"
              /\ requests'[p].granted = FALSE
              /\ requests'[p].token \in Token
              /\ tokens[requests'[p].token] # NoTokenRow
    <3> HIDE DEF q
    <3>1. QED
      BY <1>2, <1>3
  <2>2. QED
    BY <2>1, RequestsStep DEF BeginRefresh, BaseInv
<1>5. QED
  BY <1>1, <1>4 DEF BaseInv

\* A token changes in place: its attempt and its parent stay.
LEMMA TokenChange ==
    ASSUME TypeOK, NEW t \in Token, NEW row \in TokenRow, tokens[t] # NoTokenRow,
           row.attempt = tokens[t].attempt, row.parent = tokens[t].parent,
           tokens' = [tokens EXCEPT ![t] = row]
    PROVE  /\ tokens' \in [Token -> TokenRow \cup {NoTokenRow}]
           /\ \A m \in Token : /\ tokens[m] # NoTokenRow => tokens'[m] # NoTokenRow
                               /\ tokens'[m].attempt = tokens[m].attempt
                               /\ tokens'[m].parent = tokens[m].parent
           /\ \A m \in Token : m # t => tokens'[m] = tokens[m]
           /\ tokens'[t] = row
BY TokenSet, TokenRowExists

LEMMA RevokeOverdueEffect ==
    ASSUME TypeOK, NEW t \in Token, RevokeOverdue(t)
    PROVE  \E row \in TokenRow :
              /\ tokens[t] # NoTokenRow
              /\ row.attempt = tokens[t].attempt /\ row.parent = tokens[t].parent
              /\ row.state = "revoked"
              /\ tokens' = [tokens EXCEPT ![t] = row]
<1> DEFINE row == [tokens[t] EXCEPT !.state = "revoked"]
<1>1. tokens[t] # NoTokenRow
  BY DEF RevokeOverdue, NoTokenRow
<1>2. tokens[t] \in TokenRow
  BY <1>1, TokenType
<1>3. /\ row \in TokenRow
      /\ row.attempt = tokens[t].attempt /\ row.parent = tokens[t].parent
      /\ row.state = "revoked"
  BY <1>2 DEF TokenRow
<1>4. tokens' = [tokens EXCEPT ![t] = row]
  BY DEF RevokeOverdue, TypeOK
<1>5. QED
  BY <1>1, <1>3, <1>4

LEMMA TokenOverdueEffect ==
    ASSUME TypeOK, NEW t \in Token, TokenOverdue(t)
    PROVE  \E row \in TokenRow :
              /\ tokens[t] # NoTokenRow
              /\ row.attempt = tokens[t].attempt /\ row.parent = tokens[t].parent
              /\ row.state = tokens[t].state /\ tokens[t].state = "live"
              /\ tokens' = [tokens EXCEPT ![t] = row]
<1> DEFINE row == [tokens[t] EXCEPT !.overdue = TRUE]
<1>1. tokens[t].state = "live" /\ tokens[t] # NoTokenRow
  BY DEF TokenOverdue, NoTokenRow
<1>2. tokens[t] \in TokenRow
  BY <1>1, TokenType
<1>3. /\ row \in TokenRow
      /\ row.attempt = tokens[t].attempt /\ row.parent = tokens[t].parent
      /\ row.state = tokens[t].state
  BY <1>2 DEF TokenRow
<1>4. tokens' = [tokens EXCEPT ![t] = row]
  BY DEF TokenOverdue, TypeOK
<1>5. QED
  BY <1>1, <1>3, <1>4

LEMMA FinishRefreshEffect ==
    ASSUME BaseInv, NEW r \in Request, NEW n \in Token, FinishRefresh(r, n)
    PROVE  \E t \in Token :
              /\ t = requests[r].token
              /\ tokens[t] # NoTokenRow /\ tokens[n] = NoTokenRow
              /\ tokens' \in [Token -> TokenRow \cup {NoTokenRow}]
              /\ \A m \in Token : m \notin {t, n} => tokens'[m] = tokens[m]
              /\ tokens'[n] = FreshToken(tokens[t].attempt, t)
              /\ tokens'[t] = Retired(tokens[t], n)
<1> DEFINE t == requests[r].token
<1>1. t \in Token /\ tokens[t] # NoTokenRow /\ tokens[n] = NoTokenRow
  BY DEF FinishRefresh, BaseInv, RequestsInv
<1>2. tokens[t] \in TokenRow /\ tokens[t].attempt \in Attempt
  BY <1>1, TokenType DEF BaseInv
<1>3. FreshToken(tokens[t].attempt, t) \in TokenRow /\ Retired(tokens[t], n) \in TokenRow
  BY <1>1, <1>2, FreshTokenType, RetiredType
<1>4. tokens' = [[tokens EXCEPT ![n] = FreshToken(tokens[t].attempt, t)]
                    EXCEPT ![t] = Retired(tokens[t], n)]
  BY <1>1 DEF FinishRefresh, Rotated, BaseInv, TypeOK
<1>5. tokens \in [Token -> TokenRow \cup {NoTokenRow}]
  BY DEF BaseInv, TypeOK
<1>6. /\ tokens' \in [Token -> TokenRow \cup {NoTokenRow}]
      /\ \A m \in Token : m \notin {t, n} => tokens'[m] = tokens[m]
      /\ tokens'[n] = FreshToken(tokens[t].attempt, t)
      /\ tokens'[t] = Retired(tokens[t], n)
  BY <1>1, <1>3, <1>4, <1>5
<1>7. QED
  BY <1>1, <1>6

LEMMA FinishRefreshBase ==
    ASSUME BaseInv, NEW r \in Request, NEW n \in Token, FinishRefresh(r, n)
    PROVE  BaseInv'
<1>1. PICK t \in Token :
         /\ tokens[t] # NoTokenRow /\ tokens[n] = NoTokenRow
         /\ tokens' \in [Token -> TokenRow \cup {NoTokenRow}]
         /\ \A m \in Token : m \notin {t, n} => tokens'[m] = tokens[m]
         /\ tokens'[t] = Retired(tokens[t], n)
  BY FinishRefreshEffect
<1>2. tokens'[t] # NoTokenRow
  BY <1>1, TokenType, RetiredType, TokenRowExists DEF BaseInv
<1>3. \A m \in Token : tokens[m] # NoTokenRow => tokens'[m] # NoTokenRow
  BY <1>1, <1>2
<1>4. /\ requests' \in [Request -> PendingRequest \cup {NoRequest}]
      /\ \A p \in Request : requests'[p] = requests[p] \/ requests'[p].pc = "idle"
  BY EndType, EndStep DEF FinishRefresh, BaseInv
<1>5. QED
  BY <1>1, <1>3, <1>4, TokensBase DEF FinishRefresh

LEMMA TokenChangeBase ==
    ASSUME BaseInv, NEW t \in Token, NEW row \in TokenRow, tokens[t] # NoTokenRow,
           row.attempt = tokens[t].attempt, row.parent = tokens[t].parent,
           tokens' = [tokens EXCEPT ![t] = row],
           UNCHANGED <<attempts, savedState, sessions, seeded, codes, requests>>
    PROVE  BaseInv'
<1>1. /\ tokens' \in [Token -> TokenRow \cup {NoTokenRow}]
      /\ \A m \in Token : tokens[m] # NoTokenRow => tokens'[m] # NoTokenRow
  BY TokenChange DEF BaseInv
<1>2. requests' \in [Request -> PendingRequest \cup {NoRequest}]
  BY DEF BaseInv, TypeOK
<1>3. QED
  BY <1>1, <1>2, TokensBase

LEMMA DropBase ==
    ASSUME BaseInv, DropRequests, attempts' \in [Attempt -> AttemptRow],
           sessions' \in [Session -> Did \cup {NoDid}], seeded' \subseteq Session,
           UNCHANGED <<savedState, codes, tokens>>
    PROVE  BaseInv'
<1>1. TypeOK'
  BY DropType DEF BaseInv, TypeOK
<1>2. \A p \in Request : requests'[p].pc = "idle"
  BY DropType DEF NoRequest
<1>3. RequestsInv'
  BY <1>2, RequestsStep DEF BaseInv
<1>4. QED
  BY <1>1, <1>3 DEF BaseInv

LEMMA CrashSigningInBase ==
    ASSUME BaseInv, NEW r \in Request, NEW s \in Session, NEW x \in BOOLEAN,
           NEW y \in BOOLEAN, CrashSigningIn(r, s, x, y)
    PROVE  BaseInv' /\ (attempts' = attempts \/ \E a \in Attempt : attempts' = Settled(a, "completed"))
<1>1. requests[r].attempt \in Attempt /\ requests[r].did \in Did
  BY RequestType DEF CrashSigningIn, BaseInv, RequestsInv
<1>2. attempts' = attempts \/ attempts' = Settled(requests[r].attempt, "completed")
  BY DEF CrashSigningIn
<1>3. attempts' \in [Attempt -> AttemptRow]
  BY <1>1, <1>2, SettledType DEF BaseInv, TypeOK, AttemptStatus
<1>4. sessions' \in [Session -> Did \cup {NoDid}] /\ seeded' \subseteq Session
  BY <1>1 DEF CrashSigningIn, BaseInv, TypeOK
<1>5. DropRequests /\ UNCHANGED <<savedState, codes, tokens>>
  BY DEF CrashSigningIn
<1>6. BaseInv'
  BY <1>3, <1>4, <1>5, DropBase
<1>7. QED
  BY <1>1, <1>2, <1>6

LEMMA BaseStep ==
    ASSUME BaseInv, [Next]_vars
    PROVE  BaseInv'
<1>1. CASE \E a \in Attempt, mobile \in BOOLEAN : StartSignIn(a, mobile)
  BY <1>1, StartSignInBase
<1>2. CASE \E a \in Attempt : ExpireAttempt(a)
  BY <1>2, ExpireAttemptBase
<1>3. CASE \E r \in Request, a \in Attempt : BeginCallback(r, a)
  BY <1>3, BeginCallbackBase
<1>4. CASE \E r \in Request : FailCallback(r)
  BY <1>4, FailCallbackBase
<1>5. CASE \E r \in Request, d \in Did : ResumeSession(r, d)
  BY <1>5, ResumeSessionBase
<1>6. CASE \E r \in Request, d \in Did : ResolveIdentity(r, d)
  BY <1>6, ResolveIdentityBase
<1>7. CASE \E r \in Request, s \in Session : CreateSession(r, s)
  BY <1>7, CreateSessionBase
<1>8. CASE \E r \in Request, t \in Token : IssueBundle(r, t)
  BY <1>8, IssueBundleBase
<1>9. CASE \E r \in Request, c \in Code : Exchange(r, c)
  BY <1>9, ExchangeBase
<1>10. CASE RefuseExchange
  <2>1. codes' \in [Code -> CodeRow \cup {NoCode}]
    BY <1>10, PrunedIs DEF RefuseExchange, BaseInv
  <2>2. QED
    BY <1>10, <2>1, CodesBase DEF RefuseExchange
<1>11. CASE \E r \in Request, t \in Token : BeginRefresh(r, t)
  BY <1>11, BeginRefreshBase
<1>12. CASE \E t \in Token : RevokeOverdue(t)
  <2> SUFFICES ASSUME NEW t \in Token, RevokeOverdue(t) PROVE BaseInv'
    BY <1>12
  <2>1. QED
    BY RevokeOverdueEffect, TokenChangeBase DEF RevokeOverdue, BaseInv
<1>13. CASE \E r \in Request, n \in Token : FinishRefresh(r, n)
  BY <1>13, FinishRefreshBase
<1>14. CASE \E a \in Attempt : AttemptOverdue(a)
  BY <1>14, AttemptOverdueBase
<1>15. CASE \E c \in Code : CodeOverdue(c)
  BY <1>15, CodeOverdueEffect, CodesBase DEF CodeOverdue, BaseInv
<1>16. CASE \E t \in Token : TokenOverdue(t)
  <2> SUFFICES ASSUME NEW t \in Token, TokenOverdue(t) PROVE BaseInv'
    BY <1>16
  <2>1. QED
    BY TokenOverdueEffect, TokenChangeBase DEF TokenOverdue, BaseInv
<1>17. CASE Crash
  BY <1>17, DropBase DEF Crash, BaseInv, TypeOK
<1>18. CASE \E r \in Request, s \in Session, x \in BOOLEAN, y \in BOOLEAN :
              CrashSigningIn(r, s, x, y)
  BY <1>18, CrashSigningInBase
<1>19. CASE UNCHANGED vars
  BY <1>19 DEF vars, BaseInv, TypeOK, RequestsInv
<1>20. QED
  BY <1>1, <1>2, <1>3, <1>4, <1>5, <1>6, <1>7, <1>8, <1>9, <1>10, <1>11, <1>12, <1>13,
     <1>14, <1>15, <1>16, <1>17, <1>18, <1>19 DEF Next

LEMMA BaseInit == Init => BaseInv
<1>1. Init => TypeOK
  <2>1. NoAttemptRow \in AttemptRow
    BY DEF NoAttemptRow, AttemptRow, AttemptStatus
  <2>2. QED
    BY <2>1 DEF Init, TypeOK
<1>2. NoRequest.pc = "idle"
  BY DEF NoRequest
<1>3. Init => RequestsInv
  BY <1>2 DEF Init, RequestsInv
<1>4. QED
  BY <1>1, <1>3 DEF BaseInv

----------------------------------------------------------------------------
(* What a step does to attempts and tokens.                                *)

\* An attempt leaves "none" or "pending" only, and never for "none".
AttemptsAdvance ==
    \A a \in Attempt :
        \/ attempts'[a].status = attempts[a].status
        \/ /\ attempts[a].status \in {"none", "pending"}
           /\ attempts'[a].status # "none"

\* A revoked token stays what it is, and a token's parent is revoked.
TokensAdvance ==
    \A t \in Token :
        /\ tokens[t].state = "revoked" =>
              /\ tokens'[t].state = "revoked"
              /\ tokens'[t].next = tokens[t].next
        /\ \/ tokens'[t].parent = tokens[t].parent
           \/ tokens'[t].parent = NoToken
           \/ /\ tokens'[t].parent \in Token
              /\ tokens'[tokens'[t].parent].state = "revoked"

LEMMA SettledAdvances ==
    ASSUME TypeOK, NEW a \in Attempt, NEW s \in AttemptStatus, s # "none",
           attempts' = Settled(a, s)
    PROVE  AttemptsAdvance
<1>1. attempts \in [Attempt -> AttemptRow]
  BY DEF TypeOK
<1>2. CASE attempts[a].status = "pending"
  <2> DEFINE row == [attempts[a] EXCEPT !.status = s]
  <2>1. row.status = s
    BY <1>1 DEF AttemptRow
  <2>2. attempts' = [attempts EXCEPT ![a] = row]
    BY <1>1, <1>2 DEF Settled
  <2>3. \A b \in Attempt : attempts'[b] = IF b = a THEN row ELSE attempts[b]
    BY <1>1, <2>2
  <2> HIDE DEF row
  <2>4. QED
    BY <1>2, <2>1, <2>3 DEF AttemptsAdvance
<1>3. CASE attempts[a].status # "pending"
  BY <1>3 DEF Settled, AttemptsAdvance
<1>4. QED
  BY <1>2, <1>3

LEMMA AttemptsStep ==
    ASSUME BaseInv, [Next]_vars
    PROVE  AttemptsAdvance
<1> USE DEF BaseInv
<1>1. ASSUME NEW a \in Attempt, NEW mobile \in BOOLEAN, StartSignIn(a, mobile)
      PROVE  AttemptsAdvance
  BY <1>1 DEF StartSignIn, AttemptsAdvance, TypeOK
<1>2. ASSUME NEW a \in Attempt, ExpireAttempt(a)
      PROVE  AttemptsAdvance
  BY <1>2, SettledAdvances DEF ExpireAttempt, AttemptStatus
<1>3. ASSUME NEW r \in Request, FailCallback(r)
      PROVE  AttemptsAdvance
  <2>1. requests[r].attempt \in Attempt
    BY <1>3, RequestType DEF FailCallback
  <2>2. QED
    BY <1>3, <2>1, SettledAdvances DEF FailCallback, AttemptStatus
<1>4. ASSUME NEW r \in Request, requests[r].pc # "idle", NEW d,
             HandOut(r, requests[r].attempt, d)
      PROVE  AttemptsAdvance
  <2>1. requests[r].attempt \in Attempt
    BY <1>4, RequestType
  <2>2. attempts' = Settled(requests[r].attempt, "completed")
    BY <1>4 DEF HandOut
  <2>3. QED
    BY <2>1, <2>2, SettledAdvances DEF AttemptStatus
<1>5. ASSUME NEW a \in Attempt, AttemptOverdue(a)
      PROVE  AttemptsAdvance
  <2> DEFINE row == [attempts[a] EXCEPT !.overdue = TRUE]
  <2>1. row.status = attempts[a].status
    BY DEF TypeOK, AttemptRow
  <2>2. \A b \in Attempt : attempts'[b] = IF b = a THEN row ELSE attempts[b]
    BY <1>5 DEF AttemptOverdue, TypeOK
  <2> HIDE DEF row
  <2>3. QED
    BY <2>1, <2>2 DEF AttemptsAdvance
<1>6. ASSUME NEW r \in Request, NEW s \in Session, NEW x \in BOOLEAN,
             NEW y \in BOOLEAN, CrashSigningIn(r, s, x, y)
      PROVE  AttemptsAdvance
  <2>1. CASE attempts' = attempts
    BY <2>1 DEF AttemptsAdvance
  <2>2. CASE \E a \in Attempt : attempts' = Settled(a, "completed")
    BY <2>2, SettledAdvances DEF AttemptStatus
  <2>3. QED
    BY <1>6, <2>1, <2>2, CrashSigningInBase
<1>7. CASE UNCHANGED attempts
  BY <1>7 DEF AttemptsAdvance
<1>8. ASSUME NEW r \in Request, NEW d \in Did, ResumeSession(r, d)
      PROVE  AttemptsAdvance
  BY <1>4, <1>8 DEF ResumeSession
<1>9. ASSUME NEW r \in Request, NEW s \in Session, CreateSession(r, s)
      PROVE  AttemptsAdvance
  BY <1>4, <1>9 DEF CreateSession
<1>10. CASE \/ \E r \in Request, a \in Attempt : BeginCallback(r, a)
            \/ \E r \in Request, d \in Did : ResolveIdentity(r, d)
            \/ \E r \in Request, t \in Token : IssueBundle(r, t)
            \/ \E r \in Request, c \in Code : Exchange(r, c)
            \/ RefuseExchange
            \/ \E r \in Request, t \in Token : BeginRefresh(r, t)
            \/ \E t \in Token : RevokeOverdue(t)
            \/ \E r \in Request, n \in Token : FinishRefresh(r, n)
            \/ \E c \in Code : CodeOverdue(c)
            \/ \E t \in Token : TokenOverdue(t)
            \/ Crash
            \/ UNCHANGED vars
  <2>1. UNCHANGED attempts
    BY <1>10 DEF BeginCallback, ResolveIdentity, IssueBundle, Exchange, RefuseExchange,
       BeginRefresh, RevokeOverdue, FinishRefresh, CodeOverdue, TokenOverdue, Crash, vars
  <2>2. QED
    BY <1>7, <2>1
<1>11. QED
  BY <1>1, <1>2, <1>3, <1>5, <1>6, <1>8, <1>9, <1>10 DEF Next

LEMMA TokenChangeAdvances ==
    ASSUME TypeOK, NEW t \in Token, NEW row \in TokenRow, tokens[t].state = "live",
           row.parent = tokens[t].parent, tokens' = [tokens EXCEPT ![t] = row]
    PROVE  TokensAdvance
<1>1. \A m \in Token : tokens'[m] = IF m = t THEN row ELSE tokens[m]
  BY TokenSet
<1>2. QED
  BY <1>1 DEF TokensAdvance

LEMMA TokensStep ==
    ASSUME BaseInv, [Next]_vars
    PROVE  TokensAdvance
<1> USE DEF BaseInv
<1>1. ASSUME NEW r \in Request, NEW t \in Token, IssueBundle(r, t)
      PROVE  TokensAdvance
  <2> DEFINE row == FreshToken(requests[r].attempt, NoToken)
  <2>1. row.parent = NoToken /\ tokens[t].state = "none"
    <3>1. tokens[t] = NoTokenRow
      BY <1>1 DEF IssueBundle
    <3>2. QED
      BY <3>1 DEF FreshToken, NoTokenRow
  <2>2. \A m \in Token : tokens'[m] = IF m = t THEN row ELSE tokens[m]
    BY <1>1, IssueBundleEffect
  <2> HIDE DEF row
  <2>3. QED
    BY <2>1, <2>2 DEF TokensAdvance
<1>2. ASSUME NEW t \in Token, RevokeOverdue(t)
      PROVE  TokensAdvance
  <2>1. tokens[t].state = "live"
    BY <1>2 DEF RevokeOverdue
  <2>2. QED
    BY <1>2, <2>1, RevokeOverdueEffect, TokenChangeAdvances
<1>3. ASSUME NEW t \in Token, TokenOverdue(t)
      PROVE  TokensAdvance
  <2>1. tokens[t].state = "live"
    BY <1>3 DEF TokenOverdue
  <2>2. QED
    BY <1>3, <2>1, TokenOverdueEffect, TokenChangeAdvances
<1>4. ASSUME NEW r \in Request, NEW n \in Token, FinishRefresh(r, n)
      PROVE  TokensAdvance
  <2>1. PICK t \in Token :
           /\ tokens[t] # NoTokenRow /\ tokens[n] = NoTokenRow
           /\ \A m \in Token : m \notin {t, n} => tokens'[m] = tokens[m]
           /\ tokens'[n] = FreshToken(tokens[t].attempt, t)
           /\ tokens'[t] = Retired(tokens[t], n)
    BY <1>4, FinishRefreshEffect
  <2>2. tokens[t] \in TokenRow
    BY <2>1, TokenType
  <2>3. /\ tokens'[t].state = "revoked" /\ tokens'[t].parent = tokens[t].parent
        /\ tokens[t].state = "revoked" => tokens'[t] = tokens[t]
    BY <2>1, <2>2, RetiredType
  <2>4. tokens'[n].parent = t /\ tokens[n].state = "none"
    BY <2>1 DEF FreshToken, NoTokenRow
  <2>5. QED
    BY <2>1, <2>3, <2>4 DEF TokensAdvance
<1>5. CASE \/ \E a \in Attempt, mobile \in BOOLEAN : StartSignIn(a, mobile)
           \/ \E a \in Attempt : ExpireAttempt(a)
           \/ \E r \in Request, a \in Attempt : BeginCallback(r, a)
           \/ \E r \in Request : FailCallback(r)
           \/ \E r \in Request, d \in Did : ResumeSession(r, d)
           \/ \E r \in Request, d \in Did : ResolveIdentity(r, d)
           \/ \E r \in Request, s \in Session : CreateSession(r, s)
           \/ \E r \in Request, c \in Code : Exchange(r, c)
           \/ RefuseExchange
           \/ \E r \in Request, t \in Token : BeginRefresh(r, t)
           \/ \E a \in Attempt : AttemptOverdue(a)
           \/ \E c \in Code : CodeOverdue(c)
           \/ Crash
           \/ \E r \in Request, s \in Session, x \in BOOLEAN, y \in BOOLEAN :
                  CrashSigningIn(r, s, x, y)
           \/ UNCHANGED vars
  <2>1. UNCHANGED tokens
    BY <1>5 DEF StartSignIn, ExpireAttempt, BeginCallback, FailCallback, ResumeSession,
       ResolveIdentity, CreateSession, Exchange, RefuseExchange, BeginRefresh,
       AttemptOverdue, CodeOverdue, Crash, CrashSigningIn, vars
  <2>2. QED
    BY <2>1 DEF TokensAdvance
<1>6. QED
  BY <1>1, <1>2, <1>3, <1>4, <1>5 DEF Next

LEMMA ReplacedStep ==
    ASSUME TypeOK, ReplacedIsRevoked, TokensAdvance
    PROVE  ReplacedIsRevoked'
<1> SUFFICES ASSUME NEW n \in Token, tokens'[n].parent # NoToken
             PROVE  tokens'[tokens'[n].parent].state = "revoked"
  BY DEF ReplacedIsRevoked
<1>1. CASE tokens'[n].parent = tokens[n].parent
  <2>1. tokens[n] # NoTokenRow
    BY <1>1 DEF NoTokenRow
  <2>2. tokens[n].parent \in Token
    BY <1>1, <2>1, TokenType
  <2>3. QED
    BY <1>1, <2>2 DEF TokensAdvance, ReplacedIsRevoked
<1>2. QED
  BY <1>1 DEF TokensAdvance

----------------------------------------------------------------------------
(* One session per DID.                                                    *)

LEMMA SessionOpened ==
    ASSUME OneSessionPerDid, TypeOK, NEW s \in Session, NEW d \in Did,
           ~HasSession(d) \/ sessions[s] = d,
           sessions' = [sessions EXCEPT ![s] = d]
    PROVE  OneSessionPerDid'
<1>1. \A x \in Session : sessions'[x] = IF x = s THEN d ELSE sessions[x]
  BY DEF TypeOK
<1>2. \A x \in Session : x # s => sessions[x] # d
  BY ConstantsAssumption DEF HasSession, OneSessionPerDid
<1>3. QED
  BY <1>1, <1>2 DEF OneSessionPerDid

LEMMA SessionsStep ==
    ASSUME BaseInv, OneSessionPerDid, [Next]_vars
    PROVE  OneSessionPerDid'
<1> USE DEF BaseInv
<1>1. ASSUME NEW r \in Request, NEW s \in Session, CreateSession(r, s)
      PROVE  OneSessionPerDid'
  <2>1. requests[r].did \in Did
    BY <1>1 DEF CreateSession, RequestsInv
  <2>2. QED
    BY <1>1, <2>1, SessionOpened DEF CreateSession, OpenSession
<1>2. ASSUME NEW r \in Request, NEW s \in Session, NEW x \in BOOLEAN,
             NEW y \in BOOLEAN, CrashSigningIn(r, s, x, y)
      PROVE  OneSessionPerDid'
  <2>1. requests[r].did \in Did
    BY <1>2 DEF CrashSigningIn, RequestsInv
  <2>2. QED
    BY <1>2, <2>1, SessionOpened DEF CrashSigningIn
<1>3. CASE \/ \E a \in Attempt, mobile \in BOOLEAN : StartSignIn(a, mobile)
           \/ \E a \in Attempt : ExpireAttempt(a)
           \/ \E r \in Request, a \in Attempt : BeginCallback(r, a)
           \/ \E r \in Request : FailCallback(r)
           \/ \E r \in Request, d \in Did : ResumeSession(r, d)
           \/ \E r \in Request, d \in Did : ResolveIdentity(r, d)
           \/ \E r \in Request, t \in Token : IssueBundle(r, t)
           \/ \E r \in Request, c \in Code : Exchange(r, c)
           \/ RefuseExchange
           \/ \E r \in Request, t \in Token : BeginRefresh(r, t)
           \/ \E t \in Token : RevokeOverdue(t)
           \/ \E r \in Request, n \in Token : FinishRefresh(r, n)
           \/ \E a \in Attempt : AttemptOverdue(a)
           \/ \E c \in Code : CodeOverdue(c)
           \/ \E t \in Token : TokenOverdue(t)
           \/ Crash
           \/ UNCHANGED vars
  <2>1. UNCHANGED sessions
    BY <1>3 DEF StartSignIn, ExpireAttempt, BeginCallback, FailCallback, ResumeSession,
       ResolveIdentity, IssueBundle, Exchange, RefuseExchange, BeginRefresh, RevokeOverdue,
       FinishRefresh, AttemptOverdue, CodeOverdue, TokenOverdue, Crash, vars
  <2>2. QED
    BY <2>1 DEF OneSessionPerDid
<1>4. QED
  BY <1>1, <1>2, <1>3 DEF Next

----------------------------------------------------------------------------
(* An attempt's one grant.                                                 *)

\* Nobody gets a hold of the attempt.
Kept(a) ==
    /\ a \in savedState' => a \in savedState
    /\ \A r \in Request : HeldByRequest(r, a)' => HeldByRequest(r, a)
    /\ \A c \in Code : HeldByCode(c, a)' => HeldByCode(c, a)
    /\ \A t \in Token : HeldByToken(t, a)' => HeldByToken(t, a)

\* One holder is replaced by another one.
Replaced(a, k0, i0, k1, i1) ==
    /\ Holds(k0, i0, a)
    /\ \A k, i : Holds(k, i, a)' => \/ k = k1 /\ i = i1
                                    \/ Holds(k, i, a) /\ ~(k = k0 /\ i = i0)

Moved(a) == \E k0, i0, k1, i1 : Replaced(a, k0, i0, k1, i1)

LEMMA GrantStep ==
    ASSUME NEW a \in Attempt, OneGrant(a), AttemptsAdvance, Kept(a) \/ Moved(a)
    PROVE  OneGrant(a)'
<1>1. attempts'[a].status = "none" => attempts[a].status = "none"
  BY DEF AttemptsAdvance
<1>2. CASE Kept(a)
  <2>1. \A k, i : Holds(k, i, a)' => Holds(k, i, a)
    BY <1>2 DEF Kept, Holds
  <2>2. QED
    BY <1>1, <2>1 DEF OneGrant
<1>3. CASE Moved(a)
  <2>1. PICK k0, i0, k1, i1 :
           /\ Holds(k0, i0, a)
           /\ \A k, i : Holds(k, i, a)' => \/ k = k1 /\ i = i1
                                           \/ Holds(k, i, a) /\ ~(k = k0 /\ i = i0)
    BY <1>3 DEF Moved, Replaced
  <2>2. \A k, i : Holds(k, i, a) => k = k0 /\ i = i0
    BY <2>1 DEF OneGrant
  <2>3. \A k, i : Holds(k, i, a)' => k = k1 /\ i = i1
    BY <2>1, <2>2
  <2>4. attempts'[a].status # "none"
    BY <1>1, <2>1 DEF OneGrant
  <2>5. QED
    BY <2>3, <2>4 DEF OneGrant
<1>4. QED
  BY <1>2, <1>3

\* The saved state of the attempt becomes a request that holds it.
LEMMA BeginCallbackGrant ==
    ASSUME BaseInv, NEW r \in Request, NEW b \in Attempt, BeginCallback(r, b),
           NEW a \in Attempt
    PROVE  Kept(a) \/ Moved(a)
<1> DEFINE q == AttemptRequest("authorizing", b, b \in savedState, NoDid)
<1>1. q \in PendingRequest
  <2>1. (b \in savedState) \in BOOLEAN
    OBVIOUS
  <2>2. QED
    BY <2>1 DEF AttemptRequest, PendingRequest
<1>2. \A p \in Request : requests'[p] = IF p = r THEN q ELSE requests[p]
  BY <1>1, RequestSet DEF BeginCallback, BaseInv
<1>3. q.attempt = b /\ (q.granted = TRUE => b \in savedState)
  BY DEF AttemptRequest
<1>4. savedState' = savedState \ {b} /\ UNCHANGED <<codes, tokens>>
  BY DEF BeginCallback, TakeState
<1>5. \A p \in Request : HeldByRequest(p, a)' =>
         \/ HeldByRequest(p, a)
         \/ p = r /\ a = b /\ a \in savedState
  <2> HIDE DEF q
  <2>1. QED
    BY <1>2, <1>3 DEF HeldByRequest
<1>6. CASE a = b /\ a \in savedState
  <2>1. Holds("state", a, a)
    BY <1>6 DEF Holds
  <2>2. \A k, i : Holds(k, i, a)' => \/ k = "request" /\ i = r
                                     \/ Holds(k, i, a) /\ ~(k = "state" /\ i = a)
    BY <1>4, <1>5, <1>6 DEF Holds, HeldByCode, HeldByToken
  <2>3. Replaced(a, "state", a, "request", r)
    BY <2>1, <2>2 DEF Replaced
  <2>4. QED
    BY <2>3, Zenon DEF Moved
<1>7. CASE ~(a = b /\ a \in savedState)
  BY <1>4, <1>5, <1>7 DEF Kept, HeldByCode, HeldByToken
<1>8. QED
  BY <1>6, <1>7

\* Handing out turns the request into a code, or it goes on holding the attempt.
LEMMA HandOutGrant ==
    ASSUME BaseInv, NEW r \in Request, NEW d \in Did \cup {NoDid},
           requests[r].pc # "idle", requests[r].granted = TRUE,
           HandOut(r, requests[r].attempt, d), UNCHANGED <<savedState, tokens>>,
           NEW a \in Attempt
    PROVE  Kept(a) \/ Moved(a)
<1> DEFINE b == requests[r].attempt
<1>1. b \in Attempt
  BY RequestType DEF BaseInv
<1>2. \A t \in Token : HeldByToken(t, a)' => HeldByToken(t, a)
  BY DEF HeldByToken
<1>3. CASE /\ \E c \in Code :
                 /\ codes[c] = NoCode
                 /\ codes' = [codes EXCEPT ![c] =
                        [state |-> "unused", attempt |-> b, overdue |-> FALSE]]
           /\ End(r)
  <2>1. PICK c \in Code :
           codes' = [codes EXCEPT ![c] =
              [state |-> "unused", attempt |-> b, overdue |-> FALSE]]
    BY <1>3
  <2>2. \A x \in Code : HeldByCode(x, a)' => HeldByCode(x, a) \/ (x = c /\ a = b)
    BY <2>1 DEF HeldByCode, BaseInv, TypeOK
  <2>3. \A p \in Request : requests'[p] = IF p = r THEN NoRequest ELSE requests[p]
    BY <1>3, EndType DEF BaseInv
  <2>4. \A p \in Request : HeldByRequest(p, a)' => HeldByRequest(p, a) /\ p # r
    BY <2>3 DEF HeldByRequest, NoRequest
  <2>5. CASE a = b
    <3>1. Holds("request", r, a)
      BY <2>5 DEF Holds, HeldByRequest
    <3>2. \A k, i : Holds(k, i, a)' => \/ k = "code" /\ i = c
                                       \/ Holds(k, i, a) /\ ~(k = "request" /\ i = r)
      BY <1>2, <2>2, <2>4 DEF Holds
    <3>3. Replaced(a, "request", r, "code", c)
      BY <3>1, <3>2 DEF Replaced
    <3>4. QED
      BY <3>3, Zenon DEF Moved
  <2>6. CASE a # b
    BY <1>2, <2>2, <2>4, <2>6 DEF Kept
  <2>7. QED
    BY <2>5, <2>6
<1>4. CASE /\ requests' = [requests EXCEPT ![r] = AttemptRequest("signing", b, TRUE, d)]
           /\ UNCHANGED codes
  <2>1. \A p \in Request : HeldByRequest(p, a)' => HeldByRequest(p, a)
    BY <1>4 DEF HeldByRequest, AttemptRequest, BaseInv, TypeOK
  <2>2. QED
    BY <1>2, <1>4, <2>1 DEF Kept, HeldByCode
<1>5. QED
  BY <1>3, <1>4 DEF HandOut

\* The request becomes the first token of its chain.
LEMMA IssueBundleGrant ==
    ASSUME BaseInv, NEW r \in Request, NEW t \in Token, IssueBundle(r, t), NEW a \in Attempt
    PROVE  Kept(a) \/ Moved(a)
<1> DEFINE b == requests[r].attempt
           row == FreshToken(b, NoToken)
<1>1. requests[r].granted = TRUE
  BY DEF IssueBundle, BaseInv, RequestsInv
<1>2. \A m \in Token : tokens'[m] = IF m = t THEN row ELSE tokens[m]
  BY IssueBundleEffect
<1>3. row.attempt = b
  BY DEF FreshToken
<1>4. \A m \in Token : HeldByToken(m, a)' => HeldByToken(m, a) \/ (m = t /\ a = b)
  <2> HIDE DEF row
  <2>1. QED
    BY <1>2, <1>3 DEF HeldByToken
<1>5. \A p \in Request : requests'[p] = IF p = r THEN NoRequest ELSE requests[p]
  BY EndType DEF IssueBundle, BaseInv
<1>6. \A p \in Request : HeldByRequest(p, a)' => HeldByRequest(p, a) /\ p # r
  BY <1>5 DEF HeldByRequest, NoRequest
<1>7. UNCHANGED <<savedState, codes>>
  BY DEF IssueBundle
<1>8. CASE a = b
  <2>1. Holds("request", r, a)
    BY <1>1, <1>8 DEF Holds, HeldByRequest
  <2>2. \A k, i : Holds(k, i, a)' => \/ k = "token" /\ i = t
                                     \/ Holds(k, i, a) /\ ~(k = "request" /\ i = r)
    BY <1>4, <1>6, <1>7 DEF Holds, HeldByCode
  <2>3. Replaced(a, "request", r, "token", t)
    BY <2>1, <2>2 DEF Replaced
  <2>4. QED
    BY <2>3, Zenon DEF Moved
<1>9. CASE a # b
  BY <1>4, <1>6, <1>7, <1>9 DEF Kept, HeldByCode
<1>10. QED
  BY <1>8, <1>9

\* The code becomes a request that holds the attempt.
LEMMA ExchangeGrant ==
    ASSUME BaseInv, NEW r \in Request, NEW c \in Code, Exchange(r, c), NEW a \in Attempt
    PROVE  Kept(a) \/ Moved(a)
<1> DEFINE b == codes[c].attempt
           q == AttemptRequest("signing", b, TRUE, NoDid)
<1>1. /\ b \in Attempt
      /\ codes'[c].state = "used"
      /\ \A x \in Code : x # c => codes'[x] = NoCode \/ codes'[x] = codes[x]
  BY ExchangeEffect DEF BaseInv
<1>2. \A x \in Code : HeldByCode(x, a)' => HeldByCode(x, a) /\ x # c
  BY <1>1 DEF HeldByCode, NoCode
<1>3. q \in PendingRequest /\ q.attempt = b
  BY <1>1 DEF AttemptRequest, PendingRequest
<1>4. \A p \in Request : requests'[p] = IF p = r THEN q ELSE requests[p]
  BY <1>3, RequestSet DEF Exchange, BaseInv
<1>5. \A p \in Request : HeldByRequest(p, a)' => HeldByRequest(p, a) \/ (p = r /\ a = b)
  <2> HIDE DEF q
  <2>1. QED
    BY <1>3, <1>4 DEF HeldByRequest
<1>6. UNCHANGED <<savedState, tokens>>
  BY DEF Exchange
<1>7. CASE a = b
  <2>1. Holds("code", c, a)
    BY <1>7 DEF Holds, HeldByCode, Exchange, Redeemable
  <2>2. \A k, i : Holds(k, i, a)' => \/ k = "request" /\ i = r
                                     \/ Holds(k, i, a) /\ ~(k = "code" /\ i = c)
    BY <1>2, <1>5, <1>6 DEF Holds, HeldByToken
  <2>3. Replaced(a, "code", c, "request", r)
    BY <2>1, <2>2 DEF Replaced
  <2>4. QED
    BY <2>3, Zenon DEF Moved
<1>8. CASE a # b
  BY <1>2, <1>5, <1>6, <1>8 DEF Kept, HeldByToken
<1>9. QED
  BY <1>7, <1>8

\* A starting sign-in is held by its saved state alone.
LEMMA StartSignInGrant ==
    ASSUME BaseInv, NEW b \in Attempt, NEW mobile \in BOOLEAN, StartSignIn(b, mobile),
           NEW a \in Attempt, OneGrant(a), AttemptsAdvance
    PROVE  OneGrant(a)'
<1>1. savedState' = savedState \cup {b} /\ UNCHANGED <<codes, tokens, requests>>
  BY DEF StartSignIn
<1>2. CASE a = b
  <2>1. \A k, i : ~ Holds(k, i, a)
    BY <1>2 DEF StartSignIn, OneGrant
  <2>2. \A k, i : Holds(k, i, a)' => k = "state" /\ i = a
    BY <1>1, <2>1 DEF Holds, HeldByRequest, HeldByCode, HeldByToken
  <2>3. attempts'[a].status = "pending"
    BY <1>2 DEF StartSignIn, BaseInv, TypeOK
  <2>4. QED
    BY <2>2, <2>3 DEF OneGrant
<1>3. CASE a # b
  <2>1. Kept(a)
    BY <1>1, <1>3 DEF Kept, HeldByRequest, HeldByCode, HeldByToken
  <2>2. QED
    BY <2>1, GrantStep
<1>4. QED
  BY <1>2, <1>3

\* Requests that end, tokens that change in place and time that passes give
\* nobody a hold.
LEMMA EndKeeps ==
    ASSUME TypeOK, NEW r \in Request, End(r), UNCHANGED <<savedState, codes, tokens>>,
           NEW a \in Attempt
    PROVE  Kept(a)
<1>1. \A p \in Request : requests'[p] = IF p = r THEN NoRequest ELSE requests[p]
  BY EndType
<1>2. \A p \in Request : HeldByRequest(p, a)' => HeldByRequest(p, a)
  BY <1>1 DEF HeldByRequest, NoRequest
<1>3. QED
  BY <1>2 DEF Kept, HeldByCode, HeldByToken

LEMMA TokenChangeKeeps ==
    ASSUME TypeOK, NEW t \in Token, NEW row \in TokenRow, tokens[t] # NoTokenRow,
           row.attempt = tokens[t].attempt, row.parent = tokens[t].parent,
           tokens' = [tokens EXCEPT ![t] = row],
           UNCHANGED <<savedState, codes, requests>>, NEW a \in Attempt
    PROVE  Kept(a)
<1>1. \A m \in Token : /\ tokens'[m].attempt = tokens[m].attempt
                       /\ tokens'[m].parent = tokens[m].parent
  BY TokenChange
<1>2. QED
  BY <1>1 DEF Kept, HeldByRequest, HeldByCode, HeldByToken

LEMMA DropKeeps ==
    ASSUME DropRequests, UNCHANGED <<savedState, codes, tokens>>, NEW a \in Attempt
    PROVE  Kept(a)
BY DropType DEF Kept, HeldByRequest, HeldByCode, HeldByToken, NoRequest

\* A refresh holds nothing, and its successor is not a first token.
LEMMA BeginRefreshKeeps ==
    ASSUME TypeOK, NEW r \in Request, NEW t \in Token, BeginRefresh(r, t), NEW a \in Attempt
    PROVE  Kept(a)
<1> DEFINE q == [pc |-> "rotating", attempt |-> tokens[t].attempt, granted |-> FALSE,
                 did |-> NoDid, token |-> t]
<1>1. \A p \in Request : requests'[p] = IF p = r THEN q ELSE requests[p]
  BY BeginRefreshEffect
<1>2. q.granted = FALSE
  OBVIOUS
<1>3. \A p \in Request : HeldByRequest(p, a)' => HeldByRequest(p, a)
  <2> HIDE DEF q
  <2>1. QED
    BY <1>1, <1>2 DEF HeldByRequest
<1>4. UNCHANGED <<savedState, codes, tokens>>
  BY DEF BeginRefresh
<1>5. QED
  BY <1>3, <1>4 DEF Kept, HeldByCode, HeldByToken

LEMMA FinishRefreshKeeps ==
    ASSUME BaseInv, NEW r \in Request, NEW n \in Token, FinishRefresh(r, n), NEW a \in Attempt
    PROVE  Kept(a)
<1>1. PICK t \in Token :
         /\ tokens[t] # NoTokenRow /\ tokens[n] = NoTokenRow
         /\ \A m \in Token : m \notin {t, n} => tokens'[m] = tokens[m]
         /\ tokens'[n] = FreshToken(tokens[t].attempt, t)
         /\ tokens'[t] = Retired(tokens[t], n)
  BY FinishRefreshEffect
<1>2. tokens[t] \in TokenRow
  BY <1>1, TokenType DEF BaseInv
<1>3. /\ tokens'[t].attempt = tokens[t].attempt
      /\ tokens'[t].parent = tokens[t].parent
  BY <1>1, <1>2, RetiredType
<1>4. tokens'[n].parent # NoToken
  BY <1>1, ConstantsAssumption DEF FreshToken
<1>5. \A m \in Token : HeldByToken(m, a)' => HeldByToken(m, a)
  BY <1>1, <1>3, <1>4 DEF HeldByToken
<1>6. \A p \in Request : requests'[p] = IF p = r THEN NoRequest ELSE requests[p]
  BY EndType DEF FinishRefresh, BaseInv
<1>7. \A p \in Request : HeldByRequest(p, a)' => HeldByRequest(p, a)
  BY <1>6 DEF HeldByRequest, NoRequest
<1>8. UNCHANGED <<savedState, codes>>
  BY DEF FinishRefresh
<1>9. QED
  BY <1>5, <1>7, <1>8 DEF Kept, HeldByCode

LEMMA ResolveIdentityKeeps ==
    ASSUME BaseInv, NEW r \in Request, NEW d \in Did, ResolveIdentity(r, d), NEW a \in Attempt
    PROVE  Kept(a)
<1> DEFINE q == [requests[r] EXCEPT !.pc = "resolving", !.did = d]
<1>1. requests[r] \in PendingRequest
  BY RequestType DEF ResolveIdentity, BaseInv
<1>2. q.attempt = requests[r].attempt /\ q.granted = requests[r].granted
  BY <1>1 DEF PendingRequest
<1>3. \A p \in Request : requests'[p] = IF p = r THEN q ELSE requests[p]
  BY DEF ResolveIdentity, BaseInv, TypeOK
<1>4. \A p \in Request : HeldByRequest(p, a)' => HeldByRequest(p, a)
  <2> HIDE DEF q
  <2>1. QED
    BY <1>2, <1>3 DEF HeldByRequest
<1>5. UNCHANGED <<savedState, codes, tokens>>
  BY DEF ResolveIdentity
<1>6. QED
  BY <1>4, <1>5 DEF Kept, HeldByCode, HeldByToken

LEMMA CodesKeep ==
    ASSUME NEW a \in Attempt, \A c \in Code : HeldByCode(c, a)' => HeldByCode(c, a),
           UNCHANGED <<savedState, tokens, requests>>
    PROVE  Kept(a)
BY DEF Kept, HeldByRequest, HeldByToken

LEMMA StillKept ==
    ASSUME UNCHANGED <<savedState, codes, tokens, requests>>, NEW a \in Attempt
    PROVE  Kept(a)
BY DEF Kept, HeldByRequest, HeldByCode, HeldByToken

LEMMA OneGrantStep ==
    ASSUME BaseInv, NEW a \in Attempt, OneGrant(a), [Next]_vars
    PROVE  OneGrant(a)'
<1> USE DEF BaseInv
<1>1. AttemptsAdvance
  BY AttemptsStep
<1>2. ASSUME Kept(a) \/ Moved(a) PROVE OneGrant(a)'
  BY <1>1, <1>2, GrantStep
<1>3. ASSUME NEW b \in Attempt, NEW mobile \in BOOLEAN, StartSignIn(b, mobile)
      PROVE  OneGrant(a)'
  BY <1>1, <1>3, StartSignInGrant
<1>4. ASSUME NEW r \in Request, NEW b \in Attempt, BeginCallback(r, b)
      PROVE  OneGrant(a)'
  BY <1>2, <1>4, BeginCallbackGrant
<1>5. ASSUME NEW r \in Request, FailCallback(r)
      PROVE  OneGrant(a)'
  BY <1>2, <1>5, EndKeeps DEF FailCallback
<1>6. ASSUME NEW r \in Request, NEW d \in Did, ResumeSession(r, d)
      PROVE  OneGrant(a)'
  <2>1. requests[r].pc # "idle" /\ requests[r].granted
    BY <1>6 DEF ResumeSession
  <2>2. requests[r].granted = TRUE
    BY <2>1, RequestType
  <2>3. QED
    BY <1>2, <1>6, <2>1, <2>2, HandOutGrant DEF ResumeSession
<1>7. ASSUME NEW r \in Request, NEW d \in Did, ResolveIdentity(r, d)
      PROVE  OneGrant(a)'
  BY <1>2, <1>7, ResolveIdentityKeeps
<1>8. ASSUME NEW r \in Request, NEW s \in Session, CreateSession(r, s)
      PROVE  OneGrant(a)'
  <2>1. /\ requests[r].pc # "idle" /\ requests[r].granted = TRUE
        /\ requests[r].did \in Did \cup {NoDid}
    BY <1>8 DEF CreateSession, RequestsInv
  <2>2. QED
    BY <1>2, <1>8, <2>1, HandOutGrant DEF CreateSession
<1>9. ASSUME NEW r \in Request, NEW t \in Token, IssueBundle(r, t)
      PROVE  OneGrant(a)'
  BY <1>2, <1>9, IssueBundleGrant
<1>10. ASSUME NEW r \in Request, NEW c \in Code, Exchange(r, c)
       PROVE  OneGrant(a)'
  BY <1>2, <1>10, ExchangeGrant
<1>11. ASSUME RefuseExchange
       PROVE  OneGrant(a)'
  <2>1. \A c \in Code : codes'[c] = NoCode \/ codes'[c] = codes[c]
    BY <1>11, PrunedIs DEF RefuseExchange
  <2>2. \A c \in Code : HeldByCode(c, a)' => HeldByCode(c, a)
    BY <2>1 DEF HeldByCode, NoCode
  <2>3. QED
    BY <1>2, <1>11, <2>2, CodesKeep DEF RefuseExchange
<1>12. ASSUME NEW r \in Request, NEW t \in Token, BeginRefresh(r, t)
       PROVE  OneGrant(a)'
  BY <1>2, <1>12, BeginRefreshKeeps
<1>13. ASSUME NEW t \in Token, RevokeOverdue(t)
       PROVE  OneGrant(a)'
  BY <1>2, <1>13, RevokeOverdueEffect, TokenChangeKeeps DEF RevokeOverdue
<1>14. ASSUME NEW r \in Request, NEW n \in Token, FinishRefresh(r, n)
       PROVE  OneGrant(a)'
  BY <1>2, <1>14, FinishRefreshKeeps
<1>15. ASSUME NEW c \in Code, CodeOverdue(c)
       PROVE  OneGrant(a)'
  <2>1. \A b \in Code : HeldByCode(b, a)' => HeldByCode(b, a)
    BY <1>15, CodeOverdueEffect DEF HeldByCode
  <2>2. QED
    BY <1>2, <1>15, <2>1, CodesKeep DEF CodeOverdue
<1>16. ASSUME NEW t \in Token, TokenOverdue(t)
       PROVE  OneGrant(a)'
  BY <1>2, <1>16, TokenOverdueEffect, TokenChangeKeeps DEF TokenOverdue
<1>17. ASSUME NEW r \in Request, NEW s \in Session, NEW x \in BOOLEAN,
              NEW y \in BOOLEAN, CrashSigningIn(r, s, x, y)
       PROVE  OneGrant(a)'
  BY <1>2, <1>17, DropKeeps DEF CrashSigningIn
<1>18. CASE Crash
  BY <1>2, <1>18, DropKeeps DEF Crash
<1>19. CASE \/ \E b \in Attempt : ExpireAttempt(b)
            \/ \E b \in Attempt : AttemptOverdue(b)
            \/ UNCHANGED vars
  <2>1. UNCHANGED <<savedState, codes, tokens, requests>>
    BY <1>19 DEF ExpireAttempt, AttemptOverdue, vars
  <2>2. QED
    BY <1>2, <2>1, StillKept
<1>20. QED
  BY <1>3, <1>4, <1>5, <1>6, <1>7, <1>8, <1>9, <1>10, <1>11, <1>12, <1>13, <1>14,
     <1>15, <1>16, <1>17, <1>18, <1>19 DEF Next

LEMMA OneGrantInit == Init => \A a \in Attempt : OneGrant(a)
<1> SUFFICES ASSUME Init, NEW a \in Attempt PROVE OneGrant(a)
  OBVIOUS
<1>1. /\ \A r \in Request : ~HeldByRequest(r, a)
      /\ \A c \in Code : ~HeldByCode(c, a)
      /\ \A t \in Token : ~HeldByToken(t, a)
  BY ConstantsAssumption DEF Init, HeldByRequest, HeldByCode, HeldByToken, NoRequest,
     NoCode, NoTokenRow
<1>2. \A k, i : ~Holds(k, i, a)
  BY <1>1 DEF Holds, Init
<1>3. QED
  BY <1>2 DEF OneGrant

\* A set whose members are all equal has at most one.
LEMMA AtMostOne ==
    ASSUME NEW F, IsFiniteSet(F), NEW S, S \subseteq F, \A x, y \in S : x = y
    PROVE  /\ Cardinality(S) \in {0, 1}
           /\ S = {} => Cardinality(S) = 0
<1>1. CASE S = {}
  BY <1>1, FS_EmptySet
<1>2. CASE S # {}
  <2>1. PICK x : x \in S
    BY <1>2
  <2>2. S = {x}
    BY <2>1
  <2>3. QED
    BY <1>2, <2>2, FS_Singleton
<1>3. QED
  BY <1>1, <1>2

\* Counting the holders of an attempt.
LEMMA OneGrantCounts ==
    ASSUME TypeOK, \A a \in Attempt : OneGrant(a)
    PROVE  OneBundlePerAttempt
<1> SUFFICES ASSUME NEW a \in Attempt
             PROVE  (IF a \in savedState THEN 1 ELSE 0) + Cardinality(GrantedRequests(a))
                       + Cardinality(UnusedCodes(a)) + Cardinality(Bundles(a)) <= 1
  BY DEF OneBundlePerAttempt
<1>1. \A k, l, i, j : Holds(k, i, a) /\ Holds(l, j, a) => k = l /\ i = j
  BY DEF OneGrant
<1>2. \A r \in GrantedRequests(a) : Holds("request", r, a)
  <2>1. \A r \in Request : requests[r].granted => requests[r].granted = TRUE
    BY RequestType DEF NoRequest, TypeOK
  <2>2. QED
    BY <2>1 DEF GrantedRequests, Holds, HeldByRequest
<1>3. \A c \in UnusedCodes(a) : Holds("code", c, a)
  BY DEF UnusedCodes, Holds, HeldByCode
<1>4. \A t \in Bundles(a) : Holds("token", t, a)
  BY DEF Bundles, Holds, HeldByToken
<1>5. a \in savedState => Holds("state", a, a)
  BY DEF Holds
<1>6. /\ Cardinality(GrantedRequests(a)) \in {0, 1}
      /\ GrantedRequests(a) = {} => Cardinality(GrantedRequests(a)) = 0
  BY <1>1, <1>2, AtMostOne, ConstantsAssumption DEF GrantedRequests
<1>7. /\ Cardinality(UnusedCodes(a)) \in {0, 1}
      /\ UnusedCodes(a) = {} => Cardinality(UnusedCodes(a)) = 0
  BY <1>1, <1>3, AtMostOne, ConstantsAssumption DEF UnusedCodes
<1>8. /\ Cardinality(Bundles(a)) \in {0, 1}
      /\ Bundles(a) = {} => Cardinality(Bundles(a)) = 0
  BY <1>1, <1>4, AtMostOne, ConstantsAssumption DEF Bundles
<1>9. /\ GrantedRequests(a) = {} \/ UnusedCodes(a) = {}
      /\ GrantedRequests(a) = {} \/ Bundles(a) = {}
      /\ UnusedCodes(a) = {} \/ Bundles(a) = {}
      /\ a \in savedState => /\ GrantedRequests(a) = {} /\ UnusedCodes(a) = {}
                             /\ Bundles(a) = {}
  BY <1>1, <1>2, <1>3, <1>4, <1>5
<1>10. QED
  BY <1>6, <1>7, <1>8, <1>9

----------------------------------------------------------------------------
(* How far a chain of tokens can fork.                                     *)

\* The tokens that replaced t, and the refreshes of t under way.
Heirs(t) == {n \in Token : tokens[n].parent = t}
Rotating(t) == {r \in Request : requests[r].pc = "rotating" /\ requests[r].token = t}

\* A token is replaced at most once for each request that can be under way.
ForksBounded == \A t \in Token :
    Cardinality(Heirs(t)) + Cardinality(Rotating(t)) <= Cardinality(Request)

\* What replaces a token stands for the same sign-in.
Lineage == \A n \in Token :
    tokens[n].parent # NoToken => tokens[n].attempt = tokens[tokens[n].parent].attempt

\* What a step does to the heirs of t and the refreshes of it: these end or
\* are refused, or start while t has no heir, or one of them becomes an heir.
Ends(t) == Heirs(t)' = Heirs(t) /\ Rotating(t)' \subseteq Rotating(t)
Starts(t) == tokens[t].state = "live" /\ Heirs(t)' = {}
Inherits(t) == \E r \in Rotating(t), n \in Token :
    Heirs(t)' = Heirs(t) \cup {n} /\ Rotating(t)' = Rotating(t) \ {r}

\* Rows keep their parents, and no request starts a refresh.
LEMMA NoRefresh ==
    ASSUME \A m \in Token : tokens'[m].parent = tokens[m].parent,
           \A p \in Request : requests'[p] = requests[p] \/ requests'[p].pc # "rotating",
           NEW t \in Token
    PROVE  Ends(t)
<1>1. \A m \in Token : m \in Heirs(t)' <=> m \in Heirs(t)
  BY DEF Heirs
<1>2. Heirs(t)' = Heirs(t)
  BY <1>1 DEF Heirs
<1>3. Rotating(t)' \subseteq Rotating(t)
  BY DEF Rotating
<1>4. QED
  BY <1>2, <1>3 DEF Ends

LEMMA BeginRefreshForks ==
    ASSUME BaseInv, ReplacedIsRevoked, NEW r \in Request, NEW u \in Token,
           BeginRefresh(r, u), NEW t \in Token
    PROVE  Ends(t) \/ Starts(t)
<1> DEFINE q == [pc |-> "rotating", attempt |-> tokens[u].attempt, granted |-> FALSE,
                 did |-> NoDid, token |-> u]
<1>1. /\ \A p \in Request : requests'[p] = IF p = r THEN q ELSE requests[p]
      /\ UNCHANGED tokens /\ tokens[u].state = "live"
  BY BeginRefreshEffect DEF BaseInv, BeginRefresh
<1>2. q.token = u
  OBVIOUS
<1> HIDE DEF q
<1>3. Heirs(t)' = Heirs(t)
  BY <1>1 DEF Heirs
<1>4. CASE t # u
  <2>1. Rotating(t)' \subseteq Rotating(t)
    BY <1>1, <1>2, <1>4 DEF Rotating
  <2>2. QED
    BY <1>3, <2>1 DEF Ends
<1>5. CASE t = u
  <2>1. Heirs(t) = {}
    BY <1>1, <1>5, ConstantsAssumption DEF ReplacedIsRevoked, Heirs
  <2>2. QED
    BY <1>1, <1>3, <1>5, <2>1 DEF Starts
<1>6. QED
  BY <1>4, <1>5

LEMMA FinishRefreshForks ==
    ASSUME BaseInv, NEW r \in Request, NEW n \in Token, FinishRefresh(r, n), NEW t \in Token
    PROVE  Ends(t) \/ Inherits(t)
<1>1. PICK u \in Token :
         /\ u = requests[r].token
         /\ tokens[u] # NoTokenRow /\ tokens[n] = NoTokenRow
         /\ \A m \in Token : m \notin {u, n} => tokens'[m] = tokens[m]
         /\ tokens'[n] = FreshToken(tokens[u].attempt, u)
         /\ tokens'[u] = Retired(tokens[u], n)
  BY FinishRefreshEffect
<1>2. tokens[u] \in TokenRow
  BY <1>1, TokenType DEF BaseInv
<1>3. tokens'[u].parent = tokens[u].parent
  BY <1>1, <1>2, RetiredType
<1>4. tokens'[n].parent = u /\ tokens[n].parent \notin Token
  BY <1>1, ConstantsAssumption DEF FreshToken, NoTokenRow
<1>5. \A m \in Token : m # n => tokens'[m].parent = tokens[m].parent
  BY <1>1, <1>3
<1>6. \A p \in Request : requests'[p] = IF p = r THEN NoRequest ELSE requests[p]
  BY EndType DEF FinishRefresh, BaseInv
<1>7. r \in Rotating(u) /\ NoRequest.pc # "rotating"
  BY <1>1 DEF FinishRefresh, Rotating, NoRequest
<1>8. CASE t = u
  <2>1. Heirs(t)' = Heirs(t) \cup {n}
    BY <1>4, <1>5, <1>8 DEF Heirs
  <2>2. Rotating(t)' = Rotating(t) \ {r}
    BY <1>6, <1>7, <1>8 DEF Rotating
  <2>3. QED
    BY <1>7, <1>8, <2>1, <2>2 DEF Inherits
<1>9. CASE t # u
  <2>1. Heirs(t)' = Heirs(t)
    BY <1>4, <1>5, <1>9 DEF Heirs
  <2>2. Rotating(t)' \subseteq Rotating(t)
    BY <1>6, <1>7 DEF Rotating
  <2>3. QED
    BY <2>1, <2>2 DEF Ends
<1>10. QED
  BY <1>8, <1>9

LEMMA ForkStep ==
    ASSUME BaseInv, ReplacedIsRevoked, [Next]_vars, NEW t \in Token
    PROVE  Ends(t) \/ Starts(t) \/ Inherits(t)
<1> USE DEF BaseInv
<1>1. ASSUME UNCHANGED tokens,
             \A p \in Request : requests'[p] = requests[p] \/ requests'[p].pc # "rotating"
      PROVE  Ends(t)
  BY <1>1, NoRefresh
<1>2. ASSUME NEW r \in Request, NEW a \in Attempt, BeginCallback(r, a)
      PROVE  Ends(t)
  BY <1>1, <1>2 DEF BeginCallback, AttemptRequest, TypeOK
<1>3. ASSUME NEW r \in Request, FailCallback(r)
      PROVE  Ends(t)
  BY <1>1, <1>3, EndStep DEF FailCallback
<1>4. ASSUME NEW r \in Request, NEW a \in Attempt, NEW d \in Did \cup {NoDid},
             HandOut(r, a, d), UNCHANGED tokens
      PROVE  Ends(t)
  <2>1. \A p \in Request : requests'[p] = requests[p] \/ requests'[p].pc # "rotating"
    BY <1>4, HandOutEffect
  <2>2. QED
    BY <1>1, <1>4, <2>1
<1>5. ASSUME NEW r \in Request, NEW d \in Did, ResumeSession(r, d)
      PROVE  Ends(t)
  BY <1>4, <1>5, RequestType DEF ResumeSession
<1>6. ASSUME NEW r \in Request, NEW s \in Session, CreateSession(r, s)
      PROVE  Ends(t)
  BY <1>4, <1>6, RequestType DEF CreateSession
<1>7. ASSUME NEW r \in Request, NEW d \in Did, ResolveIdentity(r, d)
      PROVE  Ends(t)
  <2>1. requests[r] \in PendingRequest
    BY <1>7, RequestType DEF ResolveIdentity
  <2>2. \A p \in Request : requests'[p] = requests[p] \/ requests'[p].pc # "rotating"
    BY <1>7, <2>1 DEF ResolveIdentity, TypeOK, PendingRequest
  <2>3. QED
    BY <1>1, <1>7, <2>2 DEF ResolveIdentity
<1>8. ASSUME NEW r \in Request, NEW n \in Token, IssueBundle(r, n)
      PROVE  Ends(t)
  <2>1. \A m \in Token : tokens'[m].parent = tokens[m].parent
    <3> DEFINE row == FreshToken(requests[r].attempt, NoToken)
    <3>1. row.parent = NoToken /\ NoTokenRow.parent = NoToken
      BY DEF FreshToken, NoTokenRow
    <3>2. tokens[n] = NoTokenRow /\ \A m \in Token : tokens'[m] = IF m = n THEN row ELSE tokens[m]
      BY <1>8, IssueBundleEffect
    <3> HIDE DEF row
    <3>3. QED
      BY <3>1, <3>2
  <2>2. QED
    BY <1>8, <2>1, EndStep, NoRefresh DEF IssueBundle
<1>9. ASSUME NEW r \in Request, NEW c \in Code, Exchange(r, c)
      PROVE  Ends(t)
  BY <1>1, <1>9 DEF Exchange, AttemptRequest, TypeOK
<1>10. ASSUME NEW r \in Request, NEW u \in Token, BeginRefresh(r, u)
       PROVE  Ends(t) \/ Starts(t)
  BY <1>10, BeginRefreshForks
<1>11. ASSUME NEW r \in Request, NEW n \in Token, FinishRefresh(r, n)
       PROVE  Ends(t) \/ Inherits(t)
  BY <1>11, FinishRefreshForks
<1>12. ASSUME NEW u \in Token, RevokeOverdue(u) \/ TokenOverdue(u)
       PROVE  Ends(t)
  <2>1. \A m \in Token : tokens'[m].parent = tokens[m].parent
    BY <1>12, RevokeOverdueEffect, TokenOverdueEffect, TokenChange
  <2>2. QED
    BY <1>12, <2>1, NoRefresh DEF RevokeOverdue, TokenOverdue
<1>13. CASE \/ Crash
            \/ \E r \in Request, s \in Session, x \in BOOLEAN, y \in BOOLEAN :
                  CrashSigningIn(r, s, x, y)
  <2>1. UNCHANGED tokens /\ DropRequests
    BY <1>13 DEF Crash, CrashSigningIn
  <2>2. QED
    BY <1>1, <2>1, DropType DEF NoRequest
<1>14. CASE \/ \E a \in Attempt, mobile \in BOOLEAN : StartSignIn(a, mobile)
            \/ \E a \in Attempt : ExpireAttempt(a)
            \/ RefuseExchange
            \/ \E a \in Attempt : AttemptOverdue(a)
            \/ \E c \in Code : CodeOverdue(c)
            \/ UNCHANGED vars
  BY <1>1, <1>14 DEF StartSignIn, ExpireAttempt, RefuseExchange, AttemptOverdue,
     CodeOverdue, vars
<1>15. QED
  BY <1>2, <1>3, <1>5, <1>6, <1>7, <1>8, <1>9, <1>10, <1>11, <1>12, <1>13, <1>14 DEF Next

\* Counting heirs and refreshes.
LEMMA ForkCounts ==
    ASSUME NEW t \in Token, Ends(t) \/ Starts(t) \/ Inherits(t),
           Cardinality(Heirs(t)) + Cardinality(Rotating(t)) <= Cardinality(Request)
    PROVE  Cardinality(Heirs(t)') + Cardinality(Rotating(t)') <= Cardinality(Request)
<1>1. /\ Heirs(t) \subseteq Token /\ Heirs(t)' \subseteq Token
      /\ Rotating(t) \subseteq Request /\ Rotating(t)' \subseteq Request
  BY DEF Heirs, Rotating
<1>2. IsFiniteSet(Token) /\ IsFiniteSet(Request)
  BY ConstantsAssumption
<1>3. /\ IsFiniteSet(Heirs(t)) /\ IsFiniteSet(Rotating(t))
      /\ Cardinality(Request) \in Nat /\ Cardinality(Heirs(t)) \in Nat
      /\ Cardinality(Rotating(t)) \in Nat
  BY <1>1, <1>2, FS_Subset, FS_CardinalityType
<1>4. /\ IsFiniteSet(Heirs(t)') /\ IsFiniteSet(Rotating(t)')
      /\ Cardinality(Heirs(t)') \in Nat /\ Cardinality(Rotating(t)') \in Nat
  BY <1>1, <1>2, FS_Subset, FS_CardinalityType
<1>5. CASE Ends(t)
  <2>1. Cardinality(Rotating(t)') <= Cardinality(Rotating(t))
    BY <1>3, <1>5, FS_Subset DEF Ends
  <2>2. QED
    BY <1>3, <1>4, <1>5, <2>1 DEF Ends
<1>6. CASE Starts(t)
  <2>1. Cardinality(Rotating(t)') <= Cardinality(Request)
    BY <1>1, <1>2, FS_Subset
  <2>2. Cardinality(Heirs(t)') = 0
    BY <1>6, FS_EmptySet DEF Starts
  <2>3. QED
    BY <1>3, <1>4, <2>1, <2>2
<1>7. CASE Inherits(t)
  <2>1. PICK r \in Rotating(t), n \in Token :
           Heirs(t)' = Heirs(t) \cup {n} /\ Rotating(t)' = Rotating(t) \ {r}
    BY <1>7 DEF Inherits
  <2>2. Cardinality(Rotating(t)') = Cardinality(Rotating(t)) - 1
    BY <1>3, <2>1, FS_RemoveElement
  <2>3. Cardinality(Heirs(t)') <= Cardinality(Heirs(t)) + 1
    <3>1. Cardinality(Heirs(t) \cup {n}) <= Cardinality(Heirs(t)) + 1
      <4> DEFINE h == Heirs(t)
      <4> HIDE DEF h
      <4>1. ASSUME IsFiniteSet(h), Cardinality(h) \in Nat
            PROVE  Cardinality(h \cup {n}) <= Cardinality(h) + 1
        <5>1. Cardinality(h \cup {n}) = IF n \in h THEN Cardinality(h) ELSE Cardinality(h) + 1
          BY <4>1, FS_AddElement
        <5>2. QED
          BY <4>1, <5>1
      <4>2. QED
        BY <1>3, <4>1 DEF h
    <3>2. QED
      BY <2>1, <3>1
  <2>4. QED
    BY <1>3, <1>4, <2>2, <2>3
<1>8. QED
  BY <1>5, <1>6, <1>7

\* A row keeps its attempt and parent, or is new: a first token, or one that
\* stands for the attempt of the token it replaces.
LEMMA LineageStep ==
    ASSUME BaseInv, ReplacedIsRevoked, Lineage, [Next]_vars
    PROVE  Lineage'
<1> USE DEF BaseInv
<1>1. ASSUME \A m \in Token : /\ tokens'[m].attempt = tokens[m].attempt
                              /\ tokens'[m].parent = tokens[m].parent
      PROVE  Lineage'
  <2>1. \A m \in Token : tokens[m].parent # NoToken => tokens[m].parent \in Token
    BY TokenType DEF NoTokenRow
  <2>2. QED
    BY <1>1, <2>1 DEF Lineage
<1>2. ASSUME NEW n \in Token, tokens[n] = NoTokenRow, NEW u \in Token \cup {NoToken},
             \A m \in Token : m # n => /\ tokens'[m].attempt = tokens[m].attempt
                                       /\ tokens'[m].parent = tokens[m].parent,
             tokens'[n].parent = u,
             u # NoToken => /\ u # n
                            /\ tokens'[n].attempt = tokens[u].attempt
      PROVE  Lineage'
  <2>1. \A m \in Token : tokens[m].parent # NoToken => tokens[m].parent \in Token
    BY TokenType DEF NoTokenRow
  <2>2. \A m \in Token : tokens[m].parent # n
    <3>1. ASSUME NEW m \in Token, tokens[m].parent = n PROVE FALSE
      <4>1. tokens[n].state = "revoked"
        BY <3>1, ConstantsAssumption DEF ReplacedIsRevoked
      <4>2. QED
        BY <1>2, <4>1 DEF NoTokenRow
    <3>2. QED
      BY <3>1
  <2>3. QED
    BY <1>2, <2>1, <2>2 DEF Lineage
<1>3. ASSUME NEW r \in Request, NEW n \in Token, IssueBundle(r, n)
      PROVE  Lineage'
  <2> DEFINE row == FreshToken(requests[r].attempt, NoToken)
  <2>1. row.parent = NoToken
    BY DEF FreshToken
  <2>2. tokens[n] = NoTokenRow /\ \A m \in Token : tokens'[m] = IF m = n THEN row ELSE tokens[m]
    BY <1>3, IssueBundleEffect
  <2> HIDE DEF row
  <2>3. QED
    BY <1>2, <2>1, <2>2
<1>4. ASSUME NEW r \in Request, NEW n \in Token, FinishRefresh(r, n)
      PROVE  Lineage'
  <2>1. PICK u \in Token :
           /\ tokens[u] # NoTokenRow /\ tokens[n] = NoTokenRow
           /\ \A m \in Token : m \notin {u, n} => tokens'[m] = tokens[m]
           /\ tokens'[n] = FreshToken(tokens[u].attempt, u)
           /\ tokens'[u] = Retired(tokens[u], n)
    BY <1>4, FinishRefreshEffect
  <2>2. tokens[u] \in TokenRow
    BY <2>1, TokenType
  <2>3. tokens'[u].parent = tokens[u].parent /\ tokens'[u].attempt = tokens[u].attempt
    BY <2>1, <2>2, RetiredType
  <2>4. tokens'[n].parent = u /\ tokens'[n].attempt = tokens[u].attempt
    BY <2>1 DEF FreshToken
  <2>5. \A m \in Token : m # n => /\ tokens'[m].attempt = tokens[m].attempt
                                  /\ tokens'[m].parent = tokens[m].parent
    BY <2>1, <2>3
  <2>6. QED
    BY <1>2, <2>1, <2>4, <2>5
<1>5. ASSUME NEW u \in Token, RevokeOverdue(u) \/ TokenOverdue(u)
      PROVE  Lineage'
  BY <1>1, <1>5, RevokeOverdueEffect, TokenOverdueEffect, TokenChange
<1>6. CASE UNCHANGED tokens
  BY <1>1, <1>6
<1>7. QED
  BY <1>3, <1>4, <1>5, <1>6 DEF Next, vars, StartSignIn, ExpireAttempt, BeginCallback,
     FailCallback, ResumeSession, ResolveIdentity, CreateSession, Exchange,
     RefuseExchange, BeginRefresh, AttemptOverdue, CodeOverdue, Crash, CrashSigningIn

----------------------------------------------------------------------------
(* The theorems.                                                           *)

SignInInv ==
    /\ BaseInv
    /\ OneSessionPerDid
    /\ ReplacedIsRevoked
    /\ \A a \in Attempt : OneGrant(a)

LEMMA SignInInvariant == Spec => []SignInInv
<1>1. Init => SignInInv
  <2>1. Init => OneSessionPerDid /\ ReplacedIsRevoked
    BY DEF Init, OneSessionPerDid, ReplacedIsRevoked, NoTokenRow
  <2>2. QED
    BY <2>1, BaseInit, OneGrantInit DEF SignInInv
<1>2. SignInInv /\ [Next]_vars => SignInInv'
  <2> SUFFICES ASSUME SignInInv, [Next]_vars PROVE SignInInv'
    OBVIOUS
  <2>1. BaseInv'
    BY BaseStep DEF SignInInv
  <2>2. OneSessionPerDid'
    BY SessionsStep DEF SignInInv
  <2>3. ReplacedIsRevoked'
    BY TokensStep, ReplacedStep DEF SignInInv, BaseInv
  <2>4. \A a \in Attempt : OneGrant(a)'
    BY OneGrantStep DEF SignInInv
  <2>5. QED
    BY <2>1, <2>2, <2>3, <2>4 DEF SignInInv
<1>3. QED
  BY <1>1, <1>2, PTL DEF Spec

\* Attempts, sessions, codes, tokens and requests always have the shape the
\* code gives them.
THEOREM TypeCorrect == Spec => []TypeOK
<1>1. SignInInv => TypeOK
  BY DEF SignInInv, BaseInv
<1>2. QED
  BY <1>1, SignInInvariant, PTL

\* One sign-in never becomes two bundles: a reloaded callback, a code presented
\* twice and exchanges that race all find the one thing they need gone
\* (oauthCallback, consumeExchangeCode).
THEOREM OneBundle == Spec => []OneBundlePerAttempt
<1>1. SignInInv => OneBundlePerAttempt
  BY OneGrantCounts DEF SignInInv, BaseInv
<1>2. QED
  BY <1>1, SignInInvariant, PTL

\* A person has one active session, however many first sign-ins race through
\* the resolution of the identity (createSession).
THEOREM OneSession == Spec => []OneSessionPerDid
<1>1. SignInInv => OneSessionPerDid
  BY DEF SignInInv
<1>2. QED
  BY <1>1, SignInInvariant, PTL

\* The token a rotation started from is dead once a successor of it is stored
\* (rotateRefreshToken).
THEOREM ReplacedRevoked == Spec => []ReplacedIsRevoked
<1>1. SignInInv => ReplacedIsRevoked
  BY DEF SignInInv
<1>2. QED
  BY <1>1, SignInInvariant, PTL

\* A settled attempt stays settled, whatever late callbacks do
\* (oauthLoginAttempts).
THEOREM AttemptsSettle == Spec => AttemptsSettleOnce
<1>1. SignInInv /\ [Next]_vars =>
         [\A a \in Attempt :
             attempts[a].status \in {"completed", "failed", "expired"} =>
                 attempts'[a].status = attempts[a].status]_vars
  BY AttemptsStep DEF SignInInv, AttemptsAdvance
<1>2. QED
  BY <1>1, SignInInvariant, PTL DEF Spec, AttemptsSettleOnce

\* A revoked refresh token stays revoked and keeps its successor, also when
\* another rotation of it was under way (rotateRefreshToken).
THEOREM RetirementFinal == Spec => RetirementIsFinal
<1>1. SignInInv /\ [Next]_vars =>
         [\A t \in Token :
             tokens[t].state = "revoked" =>
                 /\ tokens'[t].state = "revoked"
                 /\ tokens'[t].next = tokens[t].next]_vars
  BY TokensStep DEF SignInInv, TokensAdvance
<1>2. QED
  BY <1>1, SignInInvariant, PTL DEF Spec, RetirementIsFinal

\* The refreshes that overlap fork a chain of tokens, against what the comment
\* on rotation says; but a token is replaced at most once for each request the
\* server handles at a time, and whatever replaces it stands for the sign-in it
\* stood for (rotateRefreshToken).
THEOREM ForksAreBounded == Spec => []ForksBounded /\ []Lineage
<1>1. Init => ForksBounded /\ Lineage
  <2> SUFFICES ASSUME Init PROVE ForksBounded /\ Lineage
    OBVIOUS
  <2>1. \A t \in Token : Heirs(t) = {} /\ Rotating(t) = {}
    BY ConstantsAssumption DEF Init, Heirs, Rotating, NoTokenRow, NoRequest
  <2>2. Cardinality({}) = 0 /\ Cardinality(Request) \in Nat
    BY ConstantsAssumption, FS_EmptySet, FS_CardinalityType
  <2>3. \A t \in Token :
           Cardinality(Heirs(t)) + Cardinality(Rotating(t)) <= Cardinality(Request)
    BY <2>1, <2>2
  <2>4. QED
    BY <2>3 DEF ForksBounded, Lineage, Init, NoTokenRow
<1>2. SignInInv /\ ForksBounded /\ Lineage /\ [Next]_vars => ForksBounded' /\ Lineage'
  <2> SUFFICES ASSUME SignInInv, ForksBounded, Lineage, [Next]_vars
               PROVE  ForksBounded' /\ Lineage'
    OBVIOUS
  <2>1. ASSUME NEW t \in Token
        PROVE  Cardinality(Heirs(t)') + Cardinality(Rotating(t)') <= Cardinality(Request)
    BY ForkStep, ForkCounts DEF SignInInv, ForksBounded
  <2>2. Lineage'
    BY LineageStep DEF SignInInv
  <2>3. QED
    BY <2>1, <2>2 DEF ForksBounded
<1>3. QED
  BY <1>1, <1>2, SignInInvariant, PTL DEF Spec
=============================================================================
