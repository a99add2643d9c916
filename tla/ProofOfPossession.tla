--------------------------- MODULE ProofOfPossession ---------------------------
(***************************************************************************)
(* What the holder of an identity key may do by signing a challenge of the *)
(* broker: register the key, and act anonymously.  Both kinds of challenge *)
(* are issued to anybody.  A holder signs what it is given; whoever sees   *)
(* an assertion may send it again and again, for any action and with any   *)
(* one-time id: neither the action nor the id (jti) is signed.  What is    *)
(* signed is the key, the purpose, the audience and the challenge, so that *)
(* an assertion is its key and its challenge here.                         *)
(*                                                                         *)
(* Consuming a challenge is one transaction, so that each handler is one   *)
(* step.  The age of an assertion, which is checked too, is that of its    *)
(* challenge at most.  Nobody calls cleanupExpired: rows and receipts stay.*)
(***************************************************************************)
EXTENDS Naturals, Sequences, FiniteSets

CONSTANTS Key,         \* identity keys (identity_pub)
          Action,      \* what an action challenge is issued for
          Nonce,       \* action challenges (a bound)
          Challenge,   \* registration challenges (a bound)
          Jti,         \* one-time ids of clients
          MaxPending,  \* MAX_PENDING_CHALLENGES_PER_SUBJECT
          Lifetime,    \* ASSURANCE_MAX_LIFETIME_SEC, in ticks of the clock
          MaxAge,      \* CHALLENGE_MAX_AGE_MS, in ticks
          None         \* JavaScript undefined

\* What an instance must satisfy.
PossessionAssumption ==
    /\ None \notin Key \cup Action
    /\ "register" \notin Action
    /\ Nonce \cap Challenge = {}
    /\ MaxPending \in Nat \ {0}
    /\ Lifetime \in Nat \ {0}
    /\ MaxAge \in Nat \ {0}

VARIABLES issued,      \* assurance_challenge
          receipts,    \* assurance_receipt: the jtis
          outstanding, \* identity_registration_challenges
          registered,  \* registered_identities
          accepted     \* history: the proofs that were accepted, in order

rvars == <<issued, receipts, outstanding, registered, accepted>>

----------------------------------------------------------------------------
(* Rows.  left: ticks until the row has expired.                           *)

IssuedRow == [subject: Key, action: Action, consumed: BOOLEAN, left: 0..Lifetime]
NotIssued == [subject |-> None, action |-> None, consumed |-> FALSE, left |-> 0]

OutstandingRow == [made: BOOLEAN, consumed: BOOLEAN, left: 0..MaxAge]

\* A proof that was accepted: who acted, what for, and on which challenge.
Proof == [key: Key, action: Action \cup {"register"}, challenge: Nonce \cup Challenge,
          jti: Jti \cup {None}]

\* Mutant of Waits: a challenge that has expired is still counted.
WaitsForever(row) == row # NotIssued /\ ~row.consumed

\* A challenge that counts against the cap of its subject.
Waits(row) == ~row.consumed /\ row.left > 0

PendingOf(key) == {n \in Nonce : issued[n].subject = key /\ Waits(issued[n])}

Accept(key, action, challenge, jti) ==
    accepted' = Append(accepted, [key |-> key, action |-> action,
                                  challenge |-> challenge, jti |-> jti])

----------------------------------------------------------------------------
Init ==
    /\ issued = [n \in Nonce |-> NotIssued]
    /\ receipts = {}
    /\ outstanding = [c \in Challenge |-> [made |-> FALSE, consumed |-> FALSE, left |-> 0]]
    /\ registered = {}
    /\ accepted = <<>>

IssueActionChallenge(key, action, n) ==
    /\ issued[n] = NotIssued
    /\ Cardinality(PendingOf(key)) < MaxPending
    /\ issued' = [issued EXCEPT ![n] =
           [subject |-> key, action |-> action, consumed |-> FALSE, left |-> Lifetime]]
    /\ UNCHANGED <<receipts, outstanding, registered, accepted>>

\* Mutant of Consumable: a nonce that was spent is not looked at.
ConsumableTwice(n, key, action, jti) ==
    issued[n].subject = key /\ issued[n].action = action /\ issued[n].left > 0

\* consumeChallenge changes a row and records the jti, or rolls both back.
Consumable(n, key, action, jti) ==
    /\ issued[n].subject = key
    /\ issued[n].action = action
    /\ Waits(issued[n])
    /\ jti \notin receipts

\* verifyAnonymousActionProof, for an action that the handler then takes.
Act(key, n, action, jti) ==
    /\ Consumable(n, key, action, jti)
    /\ issued' = [issued EXCEPT ![n].consumed = TRUE]
    /\ receipts' = receipts \cup {jti}
    /\ Accept(key, action, n, jti)
    /\ UNCHANGED <<outstanding, registered>>

IssueRegistrationChallenge(c) ==
    /\ ~outstanding[c].made
    /\ outstanding' = [outstanding EXCEPT ![c] =
           [made |-> TRUE, consumed |-> FALSE, left |-> MaxAge]]
    /\ UNCHANGED <<issued, receipts, registered, accepted>>

\* A key that is registered already is no error, and consumes the challenge.
Register(key, c) ==
    /\ ~outstanding[c].consumed /\ outstanding[c].left > 0
    /\ outstanding' = [outstanding EXCEPT ![c].consumed = TRUE]
    /\ registered' = registered \cup {key}
    /\ Accept(key, "register", c, None)
    /\ UNCHANGED <<issued, receipts>>

Older(rows, ids) ==
    [x \in ids |-> IF rows[x].left > 0 THEN [rows[x] EXCEPT !.left = @ - 1] ELSE rows[x]]

\* Time passes.
Tick ==
    /\ \/ \E n \in Nonce : issued[n].left > 0
       \/ \E c \in Challenge : outstanding[c].left > 0
    /\ issued' = Older(issued, Nonce)
    /\ outstanding' = Older(outstanding, Challenge)
    /\ UNCHANGED <<receipts, registered, accepted>>

Next ==
    \/ \E key \in Key, action \in Action, n \in Nonce :
          \/ IssueActionChallenge(key, action, n)
          \/ \E jti \in Jti : Act(key, n, action, jti)
    \/ \E c \in Challenge :
          IssueRegistrationChallenge(c) \/ \E key \in Key : Register(key, c)
    \/ Tick

Spec == Init /\ [][Next]_rvars

----------------------------------------------------------------------------
(* Properties.                                                             *)

\* Rows have the shape the code gives them.
TypeOK ==
    /\ issued \in [Nonce -> IssuedRow \cup {NotIssued}]
    /\ receipts \subseteq Jti
    /\ outstanding \in [Challenge -> OutstandingRow]
    /\ registered \subseteq Key
    /\ accepted \in Seq(Proof)

\* A challenge is spent once and so is a one-time id, whatever is sent again
\* with another of either, and a challenge of the broker authorizes the action
\* and the key it was issued for only; the keys that are registered are those
\* that proved possession (consumeChallenge, registerIdentity).
ProofSpentOnce ==
    /\ \A i, j \in DOMAIN accepted : i # j =>
          /\ accepted[i].challenge # accepted[j].challenge
          /\ accepted[i].jti = accepted[j].jti => accepted[i].jti = None
    /\ \A i \in DOMAIN accepted :
          LET proof == accepted[i] IN
          proof.challenge \in Nonce =>
             /\ issued[proof.challenge].action = proof.action
             /\ issued[proof.challenge].subject = proof.key
    /\ registered = {accepted[i].key : i \in
                       {k \in DOMAIN accepted : accepted[k].action = "register"}}

\* A key that has as many challenges pending as it may have can ask again
\* sooner or later, also when none is ever answered (issueChallenge).
CanAskAgain == \A key \in Key : []<>(Cardinality(PendingOf(key)) < MaxPending)
=============================================================================
