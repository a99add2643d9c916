---------------------------- MODULE MatrixSignRelay ----------------------------
(***************************************************************************)
(* The relay between PARA, which asks for a signature to sign a person in  *)
(* to Matrix, and the wallet, which signs after the holder approves.  A    *)
(* request dies with the challenge it carries.  Every operation starts by  *)
(* deleting what has expired; all of them are synchronous.                 *)
(***************************************************************************)
EXTENDS Naturals, FiniteSets

CONSTANTS Session,     \* sessions
          SignId,      \* ids of requests (a bound)
          Key,         \* identity keys a wallet signs with
          MaxPending,  \* MAX_PENDING_SIGN_REQUESTS_PER_SESSION
          Lifetime,    \* MATRIX_SIGN_REQUEST_TTL_SEC, in ticks of the clock
          None         \* JavaScript undefined

\* What an instance must satisfy.
SignRelayAssumption ==
    /\ None \notin Session \cup Key
    /\ MaxPending \in Nat \ {0}
    /\ Lifetime \in Nat \ {0}

VARIABLES signRequests,  \* matrix_sign_requests
          seen           \* history: the keys PARA was shown as each answer

svars == <<signRequests, seen>>

----------------------------------------------------------------------------
\* left: ticks until the row has expired.
SignRequest == [session: Session, status: {"pending", "fulfilled"},
                signer: Key \cup {None}, left: 0..Lifetime]
NoSignRequest == [session |-> None, status |-> "none", signer |-> None, left |-> 0]
Deleted == [NoSignRequest EXCEPT !.status = "deleted"]

IsRow(row) == row.status \in {"pending", "fulfilled"}

\* Mutant of Pruned: what has expired stays.
PrunedNothing(rows) == rows

\* pruneExpired.
Pruned(rows) ==
    [i \in SignId |-> IF IsRow(rows[i]) /\ rows[i].left = 0 THEN Deleted ELSE rows[i]]

Pending(s) ==
    {i \in SignId : LET row == Pruned(signRequests)[i] IN
                    row.session = s /\ row.status = "pending"}

----------------------------------------------------------------------------
Init ==
    /\ signRequests = [i \in SignId |-> NoSignRequest]
    /\ seen = [i \in SignId |-> {}]

Create(s, i) ==
    /\ Cardinality(Pending(s)) < MaxPending
    /\ signRequests[i] = NoSignRequest
    /\ signRequests' = [Pruned(signRequests) EXCEPT ![i] =
           [session |-> s, status |-> "pending", signer |-> None, left |-> Lifetime]]
    /\ UNCHANGED seen

\* Listing, and every operation that is then refused.
Prune ==
    /\ signRequests' = Pruned(signRequests)
    /\ UNCHANGED seen

\* PARA's poll; the answer stays for the next one.
Get(s, i) ==
    LET row == Pruned(signRequests)[i] IN
    /\ row.session = s
    /\ signRequests' = Pruned(signRequests)
    /\ seen' = IF row.status = "fulfilled"
               THEN [seen EXCEPT ![i] = @ \cup {row.signer}] ELSE seen

\* Mutant of Fulfillable: an answer may be given again.
FulfillableAgain(row) == IsRow(row)

Fulfillable(row) == row.status = "pending"

\* The assertion verifies against the challenge and the audience of the row,
\* with whatever key it names.
Fulfill(s, i, key) ==
    LET row == Pruned(signRequests)[i] IN
    /\ row.session = s
    /\ Fulfillable(row)
    /\ signRequests' = [Pruned(signRequests) EXCEPT
           ![i].status = "fulfilled", ![i].signer = key]
    /\ UNCHANGED seen

\* Time passes.
Tick ==
    /\ \E i \in SignId : signRequests[i].left > 0
    /\ signRequests' = [i \in SignId |->
           IF signRequests[i].left > 0 THEN [signRequests[i] EXCEPT !.left = @ - 1]
           ELSE signRequests[i]]
    /\ UNCHANGED seen

Next ==
    \/ \E s \in Session, i \in SignId :
          Create(s, i) \/ Get(s, i) \/ \E key \in Key : Fulfill(s, i, key)
    \/ Prune
    \/ Tick

Spec == Init /\ [][Next]_svars

----------------------------------------------------------------------------
(* Properties.                                                             *)

\* Rows have the shape the code gives them.
TypeOK ==
    /\ signRequests \in [SignId -> SignRequest \cup {NoSignRequest, Deleted}]
    /\ seen \in [SignId -> SUBSET Key]

\* However often PARA polls, and whatever wallets post in between, a request
\* has one answer (fulfillMatrixSignRequest, getMatrixSignRequest).
OneAnswer == \A i \in SignId : Cardinality(seen[i]) <= 1

\* A session that has as many requests pending as it may have can ask again
\* sooner or later, also when no wallet ever answers (createMatrixSignRequest).
CanAskAgain == \A s \in Session : []<>(Cardinality(Pending(s)) < MaxPending)
=============================================================================
