----------------------------- MODULE Relays_proofs -----------------------------
(***************************************************************************)
(* Safety of what the broker hands out once, for any number of keys,       *)
(* challenges, sessions and requests, and any limits on them.              *)
(***************************************************************************)
EXTENDS MCRelays, FiniteSetTheorems, SequenceTheorems, TLAPS

----------------------------------------------------------------------------
(* Signature requests.                                                     *)

\* What PARA was shown of a request is the answer in its row, and stays one
\* answer when the row is gone.
AnswerInv(i) ==
    LET row == signRequests[i] IN
    /\ row.status \in {"none", "pending"} => seen[i] = {}
    /\ row.status = "fulfilled" => row.signer \in Key /\ seen[i] \subseteq {row.signer}
    /\ \A x, y \in seen[i] : x = y

SigningInv == Signing!TypeOK /\ \A i \in SignId : AnswerInv(i)

LEMMA PrunedRow ==
    ASSUME Signing!TypeOK, NEW i \in SignId
    PROVE  /\ \/ Signing!Pruned(signRequests)[i] = signRequests[i]
              \/ /\ Signing!Pruned(signRequests)[i] = Signing!Deleted
                 /\ signRequests[i].status \in {"pending", "fulfilled"}
           /\ Signing!Pruned(signRequests)[i]
                 \in Signing!SignRequest \cup {Signing!NoSignRequest, Signing!Deleted}
BY DEF Signing!Pruned, Signing!IsRow, Signing!TypeOK

LEMMA DeletedRow ==
    /\ Signing!Deleted.status = "deleted"
    /\ Signing!Deleted.session = None
    /\ Signing!NoSignRequest.status = "none"
    /\ Signing!NoSignRequest.session = None
BY DEF Signing!Deleted, Signing!NoSignRequest

\* A row that belongs to a session, after the deletion of what has expired.
LEMMA SessionsRow ==
    ASSUME Signing!TypeOK, NEW i \in SignId, NEW s \in Session,
           Signing!Pruned(signRequests)[i].session = s
    PROVE  /\ Signing!Pruned(signRequests)[i] = signRequests[i]
           /\ signRequests[i] \in Signing!SignRequest
<1>1. None # s
  BY ConstantsAssumption DEF Signing!SignRelayAssumption
<1>2. Signing!Pruned(signRequests)[i] \in Signing!SignRequest
  BY <1>1, PrunedRow, DeletedRow
<1>3. Signing!Pruned(signRequests)[i] # Signing!Deleted
  BY <1>1, DeletedRow
<1>4. QED
  BY <1>2, <1>3, PrunedRow

\* A deletion leaves what was shown.
LEMMA PrunedAnswer ==
    ASSUME SigningInv, NEW i \in SignId,
           signRequests'[i] = Signing!Pruned(signRequests)[i], seen'[i] = seen[i]
    PROVE  AnswerInv(i)'
BY PrunedRow, DeletedRow DEF SigningInv, AnswerInv

LEMMA SigningStep ==
    ASSUME SigningInv, [Signing!Next]_svars
    PROVE  SigningInv'
<1> DEFINE Rows == Signing!SignRequest \cup {Signing!NoSignRequest, Signing!Deleted}
           pruned == Signing!Pruned(signRequests)
<1>1. /\ pruned \in [SignId -> Rows]
      /\ signRequests \in [SignId -> Rows] /\ seen \in [SignId -> SUBSET Key]
  BY PrunedRow DEF SigningInv, Signing!TypeOK, Signing!Pruned
<1>2. ASSUME NEW s \in Session, NEW i \in SignId, Signing!Create(s, i)
      PROVE  SigningInv'
  <2> DEFINE row == [session |-> s, status |-> "pending", signer |-> None,
                     left |-> Lifetime]
  <2>1. row \in Signing!SignRequest /\ row.status = "pending"
    BY ConstantsAssumption DEF Signing!SignRelayAssumption, Signing!SignRequest
  <2>2. seen[i] = {}
    BY <1>2, DeletedRow DEF Signing!Create, SigningInv, AnswerInv
  <2>3. signRequests' = [pruned EXCEPT ![i] = row] /\ UNCHANGED seen
    BY <1>2 DEF Signing!Create
  <2> HIDE DEF row
  <2>4. Signing!TypeOK'
    BY <1>1, <2>1, <2>3 DEF Signing!TypeOK
  <2>5. AnswerInv(i)'
    BY <1>1, <2>1, <2>2, <2>3 DEF AnswerInv
  <2>6. \A j \in SignId : j # i => AnswerInv(j)'
    BY <1>1, <2>3, PrunedAnswer
  <2>7. QED
    BY <2>4, <2>5, <2>6 DEF SigningInv
<1>3. CASE Signing!Prune
  <2>1. \A j \in SignId : AnswerInv(j)'
    BY <1>3, PrunedAnswer DEF Signing!Prune
  <2>2. Signing!TypeOK'
    BY <1>1, <1>3 DEF Signing!Prune, Signing!TypeOK
  <2>3. QED
    BY <2>1, <2>2 DEF SigningInv
<1>4. ASSUME NEW s \in Session, NEW i \in SignId, Signing!Get(s, i)
      PROVE  SigningInv'
  <2>1. pruned[i] = signRequests[i] /\ signRequests' = pruned
    BY <1>4, SessionsRow DEF Signing!Get, SigningInv
  <2>2. \/ UNCHANGED seen
        \/ /\ signRequests[i].status = "fulfilled"
           /\ seen' = [seen EXCEPT ![i] = seen[i] \cup {signRequests[i].signer}]
    BY <1>4, <2>1 DEF Signing!Get
  <2>3. Signing!TypeOK'
    BY <1>1, <2>1, <2>2 DEF Signing!TypeOK, SigningInv, AnswerInv
  <2>4. AnswerInv(i)'
    BY <1>1, <2>1, <2>2 DEF SigningInv, AnswerInv
  <2>5. \A j \in SignId : j # i => AnswerInv(j)'
    BY <1>1, <2>1, <2>2, PrunedAnswer
  <2>6. QED
    BY <2>3, <2>4, <2>5 DEF SigningInv
<1>5. ASSUME NEW s \in Session, NEW i \in SignId, NEW key \in Key, Signing!Fulfill(s, i, key)
      PROVE  SigningInv'
  <2> DEFINE row == [signRequests[i] EXCEPT !.status = "fulfilled", !.signer = key]
  <2>1. pruned[i] = signRequests[i] /\ signRequests[i] \in Signing!SignRequest
    BY <1>5, SessionsRow DEF Signing!Fulfill, SigningInv
  <2>2. row \in Signing!SignRequest /\ row.status = "fulfilled" /\ row.signer = key
    BY <2>1 DEF Signing!SignRequest
  <2>3. signRequests' = [pruned EXCEPT ![i] = row] /\ UNCHANGED seen
    BY <1>1, <1>5, <2>1 DEF Signing!Fulfill
  <2>4. seen[i] = {}
    BY <1>5, <2>1 DEF Signing!Fulfill, Signing!Fulfillable, SigningInv, AnswerInv
  <2> HIDE DEF row
  <2>5. Signing!TypeOK'
    BY <1>1, <2>2, <2>3 DEF Signing!TypeOK
  <2>6. AnswerInv(i)'
    BY <1>1, <2>2, <2>3, <2>4 DEF AnswerInv
  <2>7. \A j \in SignId : j # i => AnswerInv(j)'
    BY <1>1, <2>3, PrunedAnswer
  <2>8. QED
    BY <2>5, <2>6, <2>7 DEF SigningInv
<1>6. CASE Signing!Tick
  <2>1. \A j \in SignId : /\ signRequests'[j] \in Rows
                          /\ signRequests'[j].status = signRequests[j].status
                          /\ signRequests'[j].signer = signRequests[j].signer
    <3> SUFFICES ASSUME NEW j \in SignId
                 PROVE  /\ signRequests'[j] \in Rows
                        /\ signRequests'[j].status = signRequests[j].status
                        /\ signRequests'[j].signer = signRequests[j].signer
      OBVIOUS
    <3>1. CASE signRequests[j].left > 0
      <4>1. signRequests[j] \in Signing!SignRequest
        BY <1>1, <3>1 DEF Signing!NoSignRequest, Signing!Deleted
      <4>2. signRequests'[j] = [signRequests[j] EXCEPT !.left = signRequests[j].left - 1]
        BY <1>6, <3>1 DEF Signing!Tick
      <4>3. signRequests[j].left - 1 \in 0..Lifetime
        BY <3>1, <4>1, ConstantsAssumption DEF Signing!SignRequest, Signing!SignRelayAssumption
      <4>4. QED
        BY <4>1, <4>2, <4>3 DEF Signing!SignRequest
    <3>2. CASE ~(signRequests[j].left > 0)
      BY <1>1, <1>6, <3>2 DEF Signing!Tick
    <3>3. QED
      BY <3>1, <3>2
  <2>2. UNCHANGED seen
    BY <1>6 DEF Signing!Tick
  <2>3. Signing!TypeOK'
    BY <1>1, <1>6, <2>1, <2>2 DEF Signing!TypeOK, Signing!Tick
  <2>4. QED
    BY <2>1, <2>2, <2>3 DEF SigningInv, AnswerInv
<1>7. CASE UNCHANGED svars
  BY <1>7 DEF svars, SigningInv, AnswerInv, Signing!TypeOK
<1>8. QED
  BY <1>2, <1>3, <1>4, <1>5, <1>6, <1>7 DEF Signing!Next

\* The instances count as the library does.
LEMMA SameCardinality ==
    ASSUME NEW S
    PROVE  /\ Signing!Cardinality(S) = Cardinality(S)
           /\ Proofs!Cardinality(S) = Cardinality(S)
BY DEF Signing!Cardinality, Proofs!Cardinality, Cardinality

LEMMA SigningAnswers ==
    ASSUME SigningInv
    PROVE  OneAnswer
<1> SUFFICES ASSUME NEW i \in SignId PROVE Cardinality(seen[i]) <= 1
  BY SameCardinality DEF OneAnswer, Signing!OneAnswer
<1>1. CASE seen[i] = {}
  BY <1>1, FS_EmptySet
<1>2. CASE seen[i] # {}
  <2>1. PICK x : x \in seen[i]
    BY <1>2
  <2>2. seen[i] = {x}
    BY <2>1 DEF SigningInv, AnswerInv
  <2>3. Cardinality({x}) = 1
    BY FS_Singleton
  <2>4. QED
    BY <2>2, <2>3
<1>3. QED
  BY <1>1, <1>2

----------------------------------------------------------------------------
(* Proofs of possession.                                                   *)

\* A challenge that was consumed was made, and one that waits too.
OutstandingInv ==
    \A c \in Challenge :
        /\ outstanding[c].consumed = TRUE => outstanding[c].made = TRUE
        /\ outstanding[c].left > 0 => outstanding[c].made = TRUE

\* What was accepted used its challenge and its one-time id up, and it was for
\* what the broker's challenge says.
AcceptedInv ==
    \A i \in DOMAIN accepted : LET proof == accepted[i] IN
        /\ proof.challenge \in Nonce =>
              /\ issued[proof.challenge].consumed = TRUE
              /\ issued[proof.challenge].action = proof.action
              /\ issued[proof.challenge].subject = proof.key
        /\ proof.challenge \in Challenge => outstanding[proof.challenge].consumed = TRUE
        /\ proof.jti # None => proof.jti \in receipts

ProofsInv ==
    /\ Proofs!TypeOK
    /\ OutstandingInv
    /\ AcceptedInv
    /\ ProofSpentOnce

LEMMA AcceptedDomain ==
    ASSUME Proofs!TypeOK, NEW p \in Proofs!Proof, accepted' = Append(accepted, p)
    PROVE  /\ accepted' \in Seq(Proofs!Proof)
           /\ DOMAIN accepted' = DOMAIN accepted \cup {Len(accepted) + 1}
           /\ Len(accepted) + 1 \notin DOMAIN accepted
           /\ accepted'[Len(accepted) + 1] = p
           /\ \A i \in DOMAIN accepted : accepted'[i] = accepted[i] /\ accepted[i] \in Proofs!Proof
BY DEF Proofs!TypeOK

\* A new proof with a fresh challenge and a fresh one-time id keeps them so.
LEMMA AcceptStep ==
    ASSUME ProofsInv, NEW p \in Proofs!Proof, accepted' = Append(accepted, p),
           p.challenge \in Nonce => issued[p.challenge].consumed = FALSE,
           p.challenge \in Challenge => outstanding[p.challenge].consumed = FALSE,
           p.jti = None \/ p.jti \notin receipts
    PROVE  \A i, j \in DOMAIN accepted' : i # j =>
              /\ accepted'[i].challenge # accepted'[j].challenge
              /\ accepted'[i].jti = accepted'[j].jti => accepted'[i].jti = None
<1> DEFINE n == Len(accepted) + 1
<1>1. /\ DOMAIN accepted' = DOMAIN accepted \cup {n}
      /\ accepted'[n] = p
      /\ \A i \in DOMAIN accepted : accepted'[i] = accepted[i] /\ accepted[i] \in Proofs!Proof
  BY AcceptedDomain DEF ProofsInv
<1>2. p.challenge \in Nonce \cup Challenge
  BY DEF Proofs!Proof
<1>3. \A i \in DOMAIN accepted :
         /\ accepted[i].challenge # p.challenge
         /\ accepted[i].jti = p.jti => p.jti = None
  BY <1>2 DEF ProofsInv, AcceptedInv
<1>4. \A i, j \in DOMAIN accepted : i # j =>
         /\ accepted[i].challenge # accepted[j].challenge
         /\ accepted[i].jti = accepted[j].jti => accepted[i].jti = None
  BY DEF ProofsInv, ProofSpentOnce, Proofs!ProofSpentOnce
<1> HIDE DEF n
<1>5. QED
  BY <1>1, <1>3, <1>4

\* Who is registered, after a new proof.
LEMMA RegisteredStep ==
    ASSUME ProofsInv, NEW p \in Proofs!Proof, accepted' = Append(accepted, p),
           registered' = IF p.action = "register" THEN registered \cup {p.key}
                                                  ELSE registered
    PROVE  registered' = {accepted'[i].key : i \in
                            {k \in DOMAIN accepted' : accepted'[k].action = "register"}}
<1> DEFINE n == Len(accepted) + 1
<1>1. /\ DOMAIN accepted' = DOMAIN accepted \cup {n}
      /\ accepted'[n] = p
      /\ \A i \in DOMAIN accepted : accepted'[i] = accepted[i]
  BY AcceptedDomain DEF ProofsInv
<1>2. registered = {accepted[i].key : i \in
                      {k \in DOMAIN accepted : accepted[k].action = "register"}}
  BY DEF ProofsInv, ProofSpentOnce, Proofs!ProofSpentOnce
<1> HIDE DEF n
<1>3. QED
  BY <1>1, <1>2

\* A row of either table that is changed.
LEMMA NonceRowType ==
    ASSUME Proofs!TypeOK, NEW n \in Nonce, issued[n].subject # None
    PROVE  issued[n] \in Proofs!IssuedRow
BY DEF Proofs!TypeOK, Proofs!NotIssued

LEMMA IssueActionStep ==
    ASSUME ProofsInv, NEW key \in Key, NEW action \in Action, NEW n \in Nonce,
           Proofs!IssueActionChallenge(key, action, n)
    PROVE  ProofsInv'
<1> DEFINE row == [subject |-> key, action |-> action, consumed |-> FALSE, left |-> Lifetime]
<1>1. row \in Proofs!IssuedRow
  BY ConstantsAssumption DEF Proofs!PossessionAssumption, Proofs!IssuedRow
<1>2. /\ issued' = [issued EXCEPT ![n] = row] /\ issued[n] = Proofs!NotIssued
      /\ UNCHANGED <<receipts, outstanding, registered, accepted>>
  BY DEF Proofs!IssueActionChallenge
<1>3. issued[n].consumed = FALSE
  BY <1>2 DEF Proofs!NotIssued
<1> HIDE DEF row
<1>4. Proofs!TypeOK'
  BY <1>1, <1>2 DEF ProofsInv, Proofs!TypeOK
<1>5. \A m \in Nonce : issued[m].consumed = TRUE => issued'[m] = issued[m]
  BY <1>2, <1>3 DEF ProofsInv, Proofs!TypeOK
<1>6. AcceptedInv'
  BY <1>2, <1>5 DEF ProofsInv, AcceptedInv
<1>7. ProofSpentOnce'
  BY <1>2, <1>6 DEF ProofsInv, AcceptedInv, ProofSpentOnce, Proofs!ProofSpentOnce
<1>8. OutstandingInv'
  BY <1>2 DEF ProofsInv, OutstandingInv
<1>9. QED
  BY <1>4, <1>6, <1>7, <1>8 DEF ProofsInv

LEMMA ActStep ==
    ASSUME ProofsInv, NEW key \in Key, NEW action \in Action, NEW n \in Nonce,
           NEW jti \in Jti, Proofs!Act(key, n, action, jti)
    PROVE  ProofsInv'
<1> DEFINE p == [key |-> key, action |-> action, challenge |-> n, jti |-> jti]
           row == [issued[n] EXCEPT !.consumed = TRUE]
<1>1. /\ p \in Proofs!Proof /\ p.challenge = n /\ p.jti = jti /\ p.action = action
      /\ p.key = key
  BY DEF Proofs!Proof
<1>2. /\ issued[n].subject = key /\ issued[n].action = action
      /\ issued[n].consumed = FALSE /\ issued[n] \in Proofs!IssuedRow
      /\ jti \notin receipts
  <2>1. /\ issued[n].subject = key /\ issued[n].action = action
        /\ ~issued[n].consumed /\ jti \notin receipts
    BY DEF Proofs!Act, Proofs!Consumable, Proofs!Waits
  <2>2. issued[n] \in Proofs!IssuedRow
    BY <2>1, NonceRowType, ConstantsAssumption DEF Proofs!PossessionAssumption, ProofsInv
  <2>3. issued[n].consumed \in BOOLEAN
    BY <2>2 DEF Proofs!IssuedRow
  <2>4. QED
    BY <2>1, <2>2, <2>3
<1>3. /\ row \in Proofs!IssuedRow
      /\ row.consumed = TRUE /\ row.subject = key /\ row.action = action
  BY <1>2 DEF Proofs!IssuedRow
<1>4. /\ issued' = [issued EXCEPT ![n] = row]
      /\ receipts' = receipts \cup {jti}
      /\ accepted' = Append(accepted, p)
      /\ UNCHANGED <<outstanding, registered>>
  BY DEF Proofs!Act, Proofs!Accept, ProofsInv, Proofs!TypeOK
<1> HIDE DEF p, row
<1>5. n \notin Challenge /\ action # "register"
  BY ConstantsAssumption DEF Proofs!PossessionAssumption
<1>6. /\ accepted' \in Seq(Proofs!Proof)
      /\ DOMAIN accepted' = DOMAIN accepted \cup {Len(accepted) + 1}
      /\ accepted'[Len(accepted) + 1] = p
      /\ \A i \in DOMAIN accepted : accepted'[i] = accepted[i]
  BY <1>1, <1>4, AcceptedDomain DEF ProofsInv
<1>7. Proofs!TypeOK'
  BY <1>3, <1>4, <1>6 DEF ProofsInv, Proofs!TypeOK
<1>8. /\ issued'[n] = row
      /\ \A m \in Nonce : m # n => issued'[m] = issued[m]
  BY <1>4 DEF ProofsInv, Proofs!TypeOK
<1>9. AcceptedInv'
  <2> SUFFICES ASSUME NEW i \in DOMAIN accepted'
               PROVE  /\ accepted'[i].challenge \in Nonce =>
                            /\ issued'[accepted'[i].challenge].consumed = TRUE
                            /\ issued'[accepted'[i].challenge].action = accepted'[i].action
                            /\ issued'[accepted'[i].challenge].subject = accepted'[i].key
                      /\ accepted'[i].challenge \in Challenge =>
                            outstanding'[accepted'[i].challenge].consumed = TRUE
                      /\ accepted'[i].jti # None => accepted'[i].jti \in receipts'
    BY DEF AcceptedInv
  <2>1. CASE i \in DOMAIN accepted
    <3>1. accepted'[i] = accepted[i]
      BY <1>6, <2>1
    <3>2. accepted[i].challenge \in Nonce => accepted[i].challenge # n
      BY <1>2, <2>1 DEF ProofsInv, AcceptedInv
    <3>3. QED
      BY <1>4, <1>8, <2>1, <3>1, <3>2 DEF ProofsInv, AcceptedInv
  <2>2. CASE i = Len(accepted) + 1
    BY <1>1, <1>3, <1>4, <1>5, <1>6, <1>8, <2>2
  <2>3. QED
    BY <1>6, <2>1, <2>2
<1>10. ProofSpentOnce'
  <2>1. \A i, j \in DOMAIN accepted' : i # j =>
           /\ accepted'[i].challenge # accepted'[j].challenge
           /\ accepted'[i].jti = accepted'[j].jti => accepted'[i].jti = None
    BY <1>1, <1>2, <1>4, <1>5, AcceptStep
  <2>2. registered' = {accepted'[i].key : i \in
                         {k \in DOMAIN accepted' : accepted'[k].action = "register"}}
    BY <1>1, <1>4, <1>5, RegisteredStep
  <2>3. QED
    BY <1>9, <2>1, <2>2 DEF AcceptedInv, ProofSpentOnce, Proofs!ProofSpentOnce
<1>11. OutstandingInv'
  BY <1>4 DEF ProofsInv, OutstandingInv
<1>12. QED
  BY <1>7, <1>9, <1>10, <1>11 DEF ProofsInv

LEMMA IssueRegistrationStep ==
    ASSUME ProofsInv, NEW c \in Challenge, Proofs!IssueRegistrationChallenge(c)
    PROVE  ProofsInv'
<1> DEFINE row == [made |-> TRUE, consumed |-> FALSE, left |-> MaxAge]
<1>1. /\ row \in Proofs!OutstandingRow /\ row.made = TRUE
  BY ConstantsAssumption DEF Proofs!PossessionAssumption, Proofs!OutstandingRow
<1>2. /\ outstanding' = [outstanding EXCEPT ![c] = row]
      /\ UNCHANGED <<issued, receipts, registered, accepted>>
  BY DEF Proofs!IssueRegistrationChallenge
<1> HIDE DEF row
<1>3. \A d \in Challenge : outstanding'[d] = IF d = c THEN row ELSE outstanding[d]
  BY <1>2 DEF ProofsInv, Proofs!TypeOK
<1>4. outstanding[c].consumed # TRUE
  BY DEF Proofs!IssueRegistrationChallenge, ProofsInv, OutstandingInv
<1>5. Proofs!TypeOK'
  BY <1>1, <1>2 DEF ProofsInv, Proofs!TypeOK
<1>6. OutstandingInv'
  BY <1>1, <1>3 DEF ProofsInv, OutstandingInv
<1>7. AcceptedInv'
  BY <1>2, <1>3, <1>4 DEF ProofsInv, AcceptedInv
<1>8. ProofSpentOnce'
  BY <1>2 DEF ProofsInv, ProofSpentOnce, Proofs!ProofSpentOnce
<1>9. QED
  BY <1>5, <1>6, <1>7, <1>8 DEF ProofsInv

LEMMA RegisterStep ==
    ASSUME ProofsInv, NEW key \in Key, NEW c \in Challenge, Proofs!Register(key, c)
    PROVE  ProofsInv'
<1> DEFINE p == [key |-> key, action |-> "register", challenge |-> c, jti |-> None]
           row == [outstanding[c] EXCEPT !.consumed = TRUE]
<1>1. /\ p \in Proofs!Proof /\ p.challenge = c /\ p.jti = None /\ p.action = "register"
      /\ p.key = key
  BY DEF Proofs!Proof
<1>2. outstanding[c] \in Proofs!OutstandingRow /\ outstanding[c].consumed = FALSE
  <2>1. outstanding[c] \in Proofs!OutstandingRow /\ ~outstanding[c].consumed
    BY DEF Proofs!Register, ProofsInv, Proofs!TypeOK
  <2>2. outstanding[c].consumed \in BOOLEAN
    BY <2>1 DEF Proofs!OutstandingRow
  <2>3. QED
    BY <2>1, <2>2
<1>3. /\ row \in Proofs!OutstandingRow
      /\ row.consumed = TRUE /\ row.made = outstanding[c].made
      /\ row.left = outstanding[c].left
  BY <1>2 DEF Proofs!OutstandingRow
<1>4. /\ outstanding' = [outstanding EXCEPT ![c] = row]
      /\ registered' = registered \cup {key}
      /\ accepted' = Append(accepted, p)
      /\ UNCHANGED <<issued, receipts>>
  BY DEF Proofs!Register, Proofs!Accept, ProofsInv, Proofs!TypeOK
<1> HIDE DEF p, row
<1>5. c \notin Nonce
  BY ConstantsAssumption DEF Proofs!PossessionAssumption
<1>6. outstanding[c].made = TRUE
  BY DEF Proofs!Register, ProofsInv, OutstandingInv
<1>7. /\ accepted' \in Seq(Proofs!Proof)
      /\ DOMAIN accepted' = DOMAIN accepted \cup {Len(accepted) + 1}
      /\ accepted'[Len(accepted) + 1] = p
      /\ \A i \in DOMAIN accepted : accepted'[i] = accepted[i]
  BY <1>1, <1>4, AcceptedDomain DEF ProofsInv
<1>8. \A d \in Challenge : outstanding'[d] = IF d = c THEN row ELSE outstanding[d]
  BY <1>4 DEF ProofsInv, Proofs!TypeOK
<1>9. Proofs!TypeOK'
  <2>1. registered' \subseteq Key
    BY <1>4 DEF ProofsInv, Proofs!TypeOK
  <2>2. outstanding' \in [Challenge -> Proofs!OutstandingRow]
    BY <1>3, <1>4 DEF ProofsInv, Proofs!TypeOK
  <2>3. QED
    BY <1>4, <1>7, <2>1, <2>2 DEF ProofsInv, Proofs!TypeOK
<1>10. OutstandingInv'
  BY <1>3, <1>6, <1>8 DEF ProofsInv, OutstandingInv
<1>11. AcceptedInv'
  <2> SUFFICES ASSUME NEW i \in DOMAIN accepted'
               PROVE  /\ accepted'[i].challenge \in Nonce =>
                            /\ issued'[accepted'[i].challenge].consumed = TRUE
                            /\ issued'[accepted'[i].challenge].action = accepted'[i].action
                            /\ issued'[accepted'[i].challenge].subject = accepted'[i].key
                      /\ accepted'[i].challenge \in Challenge =>
                            outstanding'[accepted'[i].challenge].consumed = TRUE
                      /\ accepted'[i].jti # None => accepted'[i].jti \in receipts'
    BY DEF AcceptedInv
  <2>1. CASE i \in DOMAIN accepted
    BY <1>3, <1>4, <1>7, <1>8, <2>1 DEF ProofsInv, AcceptedInv
  <2>2. CASE i = Len(accepted) + 1
    BY <1>1, <1>3, <1>5, <1>7, <1>8, <2>2
  <2>3. QED
    BY <1>7, <2>1, <2>2
<1>12. ProofSpentOnce'
  <2>1. \A i, j \in DOMAIN accepted' : i # j =>
           /\ accepted'[i].challenge # accepted'[j].challenge
           /\ accepted'[i].jti = accepted'[j].jti => accepted'[i].jti = None
    BY <1>1, <1>2, <1>4, <1>5, AcceptStep
  <2>2. registered' = {accepted'[i].key : i \in
                         {k \in DOMAIN accepted' : accepted'[k].action = "register"}}
    BY <1>1, <1>4, RegisteredStep
  <2>3. QED
    BY <1>11, <2>1, <2>2 DEF AcceptedInv, ProofSpentOnce, Proofs!ProofSpentOnce
<1>13. QED
  BY <1>9, <1>10, <1>11, <1>12 DEF ProofsInv

LEMMA ProofsTickStep ==
    ASSUME ProofsInv, Proofs!Tick
    PROVE  ProofsInv'
<1>1. /\ issued' \in [Nonce -> Proofs!IssuedRow \cup {Proofs!NotIssued}]
      /\ \A n \in Nonce : /\ issued'[n].consumed = issued[n].consumed
                          /\ issued'[n].action = issued[n].action
                          /\ issued'[n].subject = issued[n].subject
  <2> SUFFICES ASSUME NEW n \in Nonce
               PROVE  /\ issued'[n] \in Proofs!IssuedRow \cup {Proofs!NotIssued}
                      /\ issued'[n].consumed = issued[n].consumed
                      /\ issued'[n].action = issued[n].action
                      /\ issued'[n].subject = issued[n].subject
    BY DEF Proofs!Tick, Proofs!Older
  <2>1. CASE issued[n].left > 0
    <3>1. issued[n] \in Proofs!IssuedRow
      BY <2>1 DEF ProofsInv, Proofs!TypeOK, Proofs!NotIssued
    <3>2. issued'[n] = [issued[n] EXCEPT !.left = issued[n].left - 1]
      BY <2>1 DEF Proofs!Tick, Proofs!Older
    <3>3. issued[n].left - 1 \in 0..Lifetime
      BY <2>1, <3>1, ConstantsAssumption DEF Proofs!IssuedRow, Proofs!PossessionAssumption
    <3>4. QED
      BY <3>1, <3>2, <3>3 DEF Proofs!IssuedRow
  <2>2. CASE ~(issued[n].left > 0)
    BY <2>2 DEF Proofs!Tick, Proofs!Older, ProofsInv, Proofs!TypeOK
  <2>3. QED
    BY <2>1, <2>2
<1>2. /\ outstanding' \in [Challenge -> Proofs!OutstandingRow]
      /\ \A c \in Challenge : /\ outstanding'[c].consumed = outstanding[c].consumed
                              /\ outstanding'[c].made = outstanding[c].made
                              /\ outstanding'[c].left > 0 => outstanding[c].left > 0
  <2> SUFFICES ASSUME NEW c \in Challenge
               PROVE  /\ outstanding'[c] \in Proofs!OutstandingRow
                      /\ outstanding'[c].consumed = outstanding[c].consumed
                      /\ outstanding'[c].made = outstanding[c].made
                      /\ outstanding'[c].left > 0 => outstanding[c].left > 0
    BY DEF Proofs!Tick, Proofs!Older
  <2>1. outstanding[c] \in Proofs!OutstandingRow
    BY DEF ProofsInv, Proofs!TypeOK
  <2>2. CASE outstanding[c].left > 0
    <3>1. outstanding'[c] = [outstanding[c] EXCEPT !.left = outstanding[c].left - 1]
      BY <2>2 DEF Proofs!Tick, Proofs!Older
    <3>2. outstanding[c].left - 1 \in 0..MaxAge
      BY <2>1, <2>2, ConstantsAssumption DEF Proofs!OutstandingRow, Proofs!PossessionAssumption
    <3>3. QED
      BY <2>1, <2>2, <3>1, <3>2 DEF Proofs!OutstandingRow
  <2>3. CASE ~(outstanding[c].left > 0)
    BY <2>1, <2>3 DEF Proofs!Tick, Proofs!Older
  <2>4. QED
    BY <2>2, <2>3
<1>3. UNCHANGED <<receipts, registered, accepted>>
  BY DEF Proofs!Tick
<1>4. Proofs!TypeOK'
  BY <1>1, <1>2, <1>3 DEF ProofsInv, Proofs!TypeOK
<1>5. OutstandingInv' /\ AcceptedInv'
  BY <1>1, <1>2, <1>3 DEF ProofsInv, OutstandingInv, AcceptedInv
<1>6. ProofSpentOnce'
  BY <1>1, <1>3 DEF ProofsInv, ProofSpentOnce, Proofs!ProofSpentOnce
<1>7. QED
  BY <1>4, <1>5, <1>6 DEF ProofsInv

LEMMA ProofsStep ==
    ASSUME ProofsInv, [Proofs!Next]_rvars
    PROVE  ProofsInv'
<1>1. CASE UNCHANGED rvars
  BY <1>1 DEF rvars, ProofsInv, OutstandingInv, AcceptedInv, Proofs!TypeOK,
     ProofSpentOnce, Proofs!ProofSpentOnce
<1>2. QED
  BY <1>1, IssueActionStep, ActStep, IssueRegistrationStep, RegisterStep, ProofsTickStep
     DEF Proofs!Next

----------------------------------------------------------------------------
(* Identity presentation.                                                  *)

PresentingType == Presenting!TypeOK

LEMMA IdRowType ==
    ASSUME PresentingType, NEW r \in Request, idRequests[r].status # "none"
    PROVE  idRequests[r] \in Presenting!RequestRow
BY DEF PresentingType, Presenting!TypeOK, Presenting!NoIdRequest

\* A request becomes another row.
LEMMA IdRowSet ==
    ASSUME PresentingType, NEW r \in Request, NEW row \in Presenting!RequestRow,
           idRequests' = [idRequests EXCEPT ![r] = row]
    PROVE  /\ idRequests' \in [Request -> Presenting!RequestRow \cup {Presenting!NoIdRequest}]
           /\ \A q \in Request : idRequests'[q] = IF q = r THEN row ELSE idRequests[q]
BY DEF PresentingType, Presenting!TypeOK

\* How a request moves as a slot.
SlotMove(r) ==
    \/ /\ \/ Presenting!BoxOf(r)' = Presenting!BoxOf(r)
          \/ <<Presenting!BoxOf(r), Presenting!BoxOf(r)'>>
                \in {<<"unused", "open">>, <<"open", "full">>, <<"open", "closed">>}
       /\ delivered'[r] = delivered[r]
    \/ /\ Presenting!BoxOf(r) = "full" /\ Presenting!BoxOf(r)' = "taken"
       /\ delivered'[r] = delivered[r] + 1

LEMMA SameSlot ==
    ASSUME NEW r \in Request, idRequests'[r] = idRequests[r],
           r \in live' <=> r \in live, delivered'[r] = delivered[r]
    PROVE  SlotMove(r)
BY DEF SlotMove, Presenting!BoxOf

\* Every step keeps the shape of rows and moves requests as slots.
PresentingMoves == PresentingType' /\ \A r \in Request : SlotMove(r)

LEMMA AskMoves ==
    ASSUME PresentingType, NEW s \in Session, NEW r \in Request,
           NEW elements \in SUBSET Element, NEW required \in SUBSET Element,
           Presenting!Ask(s, r, elements, required)
    PROVE  PresentingMoves
<1> DEFINE row == [session |-> s, elements |-> elements, required |-> required,
                   status |-> "active", result |-> None]
<1>1. row \in Presenting!RequestRow /\ row.status = "active"
  BY DEF Presenting!RequestRow
<1>2. /\ idRequests' = [idRequests EXCEPT ![r] = row]
      /\ live' = live \cup {r}
      /\ UNCHANGED <<credentials, issuer, delivered>>
  BY DEF Presenting!Ask
<1>3. idRequests[r].status = "none"
  BY DEF Presenting!Ask, Presenting!NoIdRequest
<1> HIDE DEF row
<1>4. /\ idRequests' \in [Request -> Presenting!RequestRow \cup {Presenting!NoIdRequest}]
      /\ \A q \in Request : idRequests'[q] = IF q = r THEN row ELSE idRequests[q]
  BY <1>1, <1>2, IdRowSet
<1>5. PresentingType'
  BY <1>2, <1>4 DEF PresentingType, Presenting!TypeOK, Presenting!TrustedKeys
<1>6. SlotMove(r)
  BY <1>1, <1>2, <1>3, <1>4 DEF SlotMove, Presenting!BoxOf
<1>7. \A q \in Request : q # r => SlotMove(q)
  BY <1>2, <1>4, SameSlot
<1>8. QED
  BY <1>5, <1>6, <1>7 DEF PresentingMoves

LEMMA DeclineMoves ==
    ASSUME PresentingType, NEW s \in Session, NEW r \in Request, Presenting!Decline(s, r)
    PROVE  PresentingMoves
<1> DEFINE row == [idRequests[r] EXCEPT !.status = "declined"]
<1>1. idRequests[r].status = "active" /\ idRequests[r] \in Presenting!RequestRow
  BY IdRowType DEF Presenting!Decline
<1>2. row \in Presenting!RequestRow /\ row.status = "declined"
  BY <1>1 DEF Presenting!RequestRow
<1>3. /\ idRequests' = [idRequests EXCEPT ![r] = row]
      /\ UNCHANGED <<live, credentials, issuer, delivered>>
  BY DEF Presenting!Decline, PresentingType, Presenting!TypeOK
<1> HIDE DEF row
<1>4. /\ idRequests' \in [Request -> Presenting!RequestRow \cup {Presenting!NoIdRequest}]
      /\ \A q \in Request : idRequests'[q] = IF q = r THEN row ELSE idRequests[q]
  BY <1>2, <1>3, IdRowSet
<1>5. PresentingType'
  BY <1>3, <1>4 DEF PresentingType, Presenting!TypeOK, Presenting!TrustedKeys
<1>6. SlotMove(r)
  BY <1>1, <1>2, <1>3, <1>4 DEF SlotMove, Presenting!BoxOf
<1>7. \A q \in Request : q # r => SlotMove(q)
  BY <1>3, <1>4, SameSlot
<1>8. QED
  BY <1>5, <1>6, <1>7 DEF PresentingMoves

LEMMA ExpireMoves ==
    ASSUME PresentingType, NEW r \in Request, Presenting!Expire(r)
    PROVE  PresentingMoves
<1>1. live' = live \ {r} /\ UNCHANGED <<idRequests, credentials, issuer, delivered>>
  BY DEF Presenting!Expire
<1>2. PresentingType'
  BY <1>1 DEF PresentingType, Presenting!TypeOK, Presenting!TrustedKeys
<1>3. idRequests[r].status \in {"none", "active", "used", "declined"}
  BY DEF PresentingType, Presenting!TypeOK, Presenting!RequestRow, Presenting!NoIdRequest
<1>4. SlotMove(r)
  BY <1>1, <1>3 DEF SlotMove, Presenting!BoxOf
<1>5. \A q \in Request : q # r => SlotMove(q)
  BY <1>1, SameSlot
<1>6. QED
  BY <1>2, <1>4, <1>5 DEF PresentingMoves

LEMMA VerifyMoves ==
    ASSUME PresentingType, NEW s \in Session, NEW r \in Request,
           NEW p \in Presenting!Presented, Presenting!Verify(s, r, p)
    PROVE  PresentingMoves
<1> DEFINE row == [idRequests[r] EXCEPT !.status = "used", !.result = p.disclosed]
<1>1. idRequests[r].status = "active" /\ r \in live
  BY DEF Presenting!Verify, Presenting!Open
<1>2. idRequests[r] \in Presenting!RequestRow
  BY <1>1, IdRowType
<1>3. p.disclosed \in SUBSET Element /\ p.disclosed # None
  BY ConstantsAssumption DEF Presenting!Presented, Presenting!PresentationAssumption
<1>4. row \in Presenting!RequestRow /\ row.status = "used" /\ row.result # None
  BY <1>2, <1>3 DEF Presenting!RequestRow
<1>5. /\ idRequests' = [idRequests EXCEPT ![r] = row]
      /\ UNCHANGED <<live, credentials, issuer, delivered>>
  BY DEF Presenting!Verify, PresentingType, Presenting!TypeOK
<1> HIDE DEF row
<1>6. /\ idRequests' \in [Request -> Presenting!RequestRow \cup {Presenting!NoIdRequest}]
      /\ \A q \in Request : idRequests'[q] = IF q = r THEN row ELSE idRequests[q]
  BY <1>4, <1>5, IdRowSet
<1>7. PresentingType'
  BY <1>5, <1>6 DEF PresentingType, Presenting!TypeOK, Presenting!TrustedKeys
<1>8. SlotMove(r)
  BY <1>1, <1>4, <1>5, <1>6 DEF SlotMove, Presenting!BoxOf
<1>9. \A q \in Request : q # r => SlotMove(q)
  BY <1>5, <1>6, SameSlot
<1>10. QED
  BY <1>7, <1>8, <1>9 DEF PresentingMoves

LEMMA ReadMoves ==
    ASSUME PresentingType, NEW s \in Session, NEW r \in Request, Presenting!Read(s, r)
    PROVE  PresentingMoves
<1> DEFINE row == [idRequests[r] EXCEPT !.result = None]
<1>1. idRequests[r].status = "used" /\ idRequests[r].result # None
  BY DEF Presenting!Read
<1>2. idRequests[r] \in Presenting!RequestRow
  BY <1>1, IdRowType
<1>3. row \in Presenting!RequestRow /\ row.status = "used" /\ row.result = None
  BY <1>1, <1>2 DEF Presenting!RequestRow
<1>4. /\ idRequests' = [idRequests EXCEPT ![r] = row]
      /\ delivered' = [delivered EXCEPT ![r] = delivered[r] + 1]
      /\ UNCHANGED <<live, credentials, issuer>>
  BY DEF Presenting!Read, PresentingType, Presenting!TypeOK
<1> HIDE DEF row
<1>5. /\ idRequests' \in [Request -> Presenting!RequestRow \cup {Presenting!NoIdRequest}]
      /\ \A q \in Request : idRequests'[q] = IF q = r THEN row ELSE idRequests[q]
  BY <1>3, <1>4, IdRowSet
<1>6. delivered' \in [Request -> Nat]
  BY <1>4 DEF PresentingType, Presenting!TypeOK
<1>7. PresentingType'
  BY <1>4, <1>5, <1>6 DEF PresentingType, Presenting!TypeOK, Presenting!TrustedKeys
<1>8. delivered'[r] = delivered[r] + 1 /\ \A q \in Request : q # r => delivered'[q] = delivered[q]
  BY <1>4 DEF PresentingType, Presenting!TypeOK
<1>9. SlotMove(r)
  BY <1>1, <1>3, <1>5, <1>8 DEF SlotMove, Presenting!BoxOf
<1>10. \A q \in Request : q # r => SlotMove(q)
  BY <1>4, <1>5, <1>8, SameSlot
<1>11. QED
  BY <1>7, <1>9, <1>10 DEF PresentingMoves

\* Credentials and keys come and go without touching any request.
LEMMA KeysMove ==
    ASSUME PresentingType, UNCHANGED <<idRequests, live, delivered>>,
           credentials' \in [Credential -> Presenting!CredentialRow
                                             \cup {Presenting!NoCredential}],
           issuer' \in [current: Key, previous: Key \cup {None}, revoked: SUBSET Key],
           issuer'.current \notin issuer'.revoked
    PROVE  PresentingMoves
<1>1. issuer'.current # None
  BY ConstantsAssumption DEF Presenting!PresentationAssumption
<1>2. PresentingType'
  BY <1>1 DEF PresentingType, Presenting!TypeOK, Presenting!TrustedKeys
<1>3. \A r \in Request : SlotMove(r)
  BY SameSlot
<1>4. QED
  BY <1>2, <1>3 DEF PresentingMoves

LEMMA PresentingStep ==
    ASSUME PresentingType, [Presenting!Next]_ivars
    PROVE  PresentingMoves
<1>1. /\ issuer \in [current: Key, previous: Key \cup {None}, revoked: SUBSET Key]
      /\ issuer.current \notin issuer.revoked
      /\ credentials \in [Credential -> Presenting!CredentialRow \cup {Presenting!NoCredential}]
  BY DEF PresentingType, Presenting!TypeOK, Presenting!TrustedKeys
<1>2. ASSUME NEW c \in Credential, NEW s \in Session, NEW claims \in SUBSET Element,
             Presenting!IssueCredential(s, c, claims)
      PROVE  PresentingMoves
  <2>1. [subject |-> s, key |-> issuer.current, claims |-> claims, status |-> "active"]
           \in Presenting!CredentialRow
    BY <1>1 DEF Presenting!CredentialRow, Presenting!CredentialStatus
  <2>2. credentials' \in [Credential -> Presenting!CredentialRow \cup {Presenting!NoCredential}]
    BY <1>1, <1>2, <2>1 DEF Presenting!IssueCredential
  <2>3. QED
    BY <1>1, <1>2, <2>2, KeysMove DEF Presenting!IssueCredential
<1>3. ASSUME NEW c \in Credential, NEW status \in Presenting!CredentialStatus,
             Presenting!ChangeStatus(c, status)
      PROVE  PresentingMoves
  <2>1. credentials[c].status \in {"active", "suspended"}
    BY <1>3 DEF Presenting!ChangeStatus
  <2>2. credentials[c] \in Presenting!CredentialRow
    BY <1>1, <2>1 DEF Presenting!NoCredential
  <2>3. [credentials[c] EXCEPT !.status = status] \in Presenting!CredentialRow
    BY <2>2 DEF Presenting!CredentialRow
  <2>4. credentials' = [credentials EXCEPT ![c] = [credentials[c] EXCEPT !.status = status]]
    BY <1>1, <1>3 DEF Presenting!ChangeStatus
  <2>5. credentials' \in [Credential -> Presenting!CredentialRow \cup {Presenting!NoCredential}]
    BY <1>1, <2>3, <2>4
  <2>6. QED
    BY <1>1, <1>3, <2>5, KeysMove DEF Presenting!ChangeStatus
<1>4. ASSUME NEW current \in Key, NEW previous \in Key \cup {None}, NEW revoked \in SUBSET Key,
             Presenting!Redeploy(current, previous, revoked)
      PROVE  PresentingMoves
  BY <1>1, <1>4, KeysMove DEF Presenting!Redeploy
<1>5. CASE UNCHANGED ivars
  BY <1>1, <1>5, KeysMove DEF ivars
<1>6. QED
  BY <1>2, <1>3, <1>4, <1>5, AskMoves, DeclineMoves, ExpireMoves, VerifyMoves, ReadMoves
     DEF Presenting!Next

LEMMA PresentingRefines ==
    ASSUME PresentingType, PresentingMoves
    PROVE  Presenting!Mailbox!Next
<1> DEFINE Box == [r \in Request |-> Presenting!BoxOf(r)]
<1>1. \A r \in Request : Presenting!Mailbox!SlotStep(r)
  BY DEF PresentingMoves, SlotMove, Presenting!Mailbox!SlotStep, Presenting!Mailbox!Moves
<1>2. delivered' \in [Request -> Nat]
  BY DEF PresentingMoves, PresentingType, Presenting!TypeOK
<1>3. \A r \in Request : Presenting!BoxOf(r)' \in Presenting!Mailbox!SlotState
  <2> SUFFICES ASSUME NEW r \in Request
               PROVE  Presenting!BoxOf(r)' \in Presenting!Mailbox!SlotState
    OBVIOUS
  <2>1. idRequests'[r].status \in {"none", "active", "used", "declined"}
    BY DEF PresentingMoves, PresentingType, Presenting!TypeOK, Presenting!RequestRow,
       Presenting!NoIdRequest
  <2>2. QED
    BY <2>1 DEF Presenting!BoxOf, Presenting!Mailbox!SlotState
<1>4. Box' \in [Request -> Presenting!Mailbox!SlotState]
  BY <1>3
<1>5. QED
  BY <1>1, <1>2, <1>4 DEF Presenting!Mailbox!Next

----------------------------------------------------------------------------
(* The rate limiter and the abuse monitor.                                 *)

\* Entries of a sliding window are in the order of their ages: a window that
\* is pruned of the oldest holds recent entries only.
Ordered(ages) == \A i, j \in 1..Len(ages) : i <= j => ages[i] >= ages[j]

LimiterInv == Limiter!TypeOK /\ \A a \in Address : Ordered(refusals[a])

\* There is a first recent entry, or a place past the end.
LEMMA FirstRecentIsFirst ==
    ASSUME NEW ages \in Seq(0..Window)
    PROVE  LET i == Limiter!FirstRecent(ages) IN
           /\ i \in 1..Len(ages) + 1
           /\ i <= Len(ages) => ages[i] < Window
<1> DEFINE S == {i \in 1..Len(ages) + 1 : i <= Len(ages) => ages[i] < Window}
<1>1. Len(ages) \in Nat /\ Window \in Nat /\ \A i \in 1..Len(ages) : ages[i] \in 0..Window
  BY LenProperties, ElementOfSeq, ConstantsAssumption DEF Limiter!LimiterAssumption
<1>2. S \subseteq Nat /\ S # {}
  <2>1. Len(ages) + 1 \in S
    BY <1>1
  <2>2. QED
    BY <1>1, <2>1
<1>3. \E m \in S : \A i \in S : ~ (<<i, m>> \in OpToRel(<, Nat))
  BY <1>2, WFMin, NatLessThanWellFounded, Zenon
<1>4. PICK m \in S : \A i \in S : ~ (i < m)
  BY <1>2, <1>3 DEF OpToRel
<1>5. ASSUME NEW j \in 1..m - 1
      PROVE  ages[j] >= Window
  <2>1. j \in 1..Len(ages) + 1 /\ j < m /\ j <= Len(ages)
    BY <1>1, <1>4
  <2>2. j \notin S
    BY <1>4, <2>1
  <2>3. ~ (ages[j] < Window)
    BY <2>1, <2>2
  <2>4. QED
    BY <1>1, <2>1, <2>3
<1>6. QED
  BY <1>4, <1>5 DEF Limiter!FirstRecent

\* What is left of a sliding window is recent, and still in order.
LEMMA RecentAges ==
    ASSUME NEW ages \in Seq(0..Window), Ordered(ages)
    PROVE  /\ Limiter!Recent(ages) \in Seq(0..Window - 1)
           /\ Ordered(Limiter!Recent(ages))
<1> DEFINE m == Limiter!FirstRecent(ages)
           n == Len(ages)
           recent == Limiter!Recent(ages)
<1>1. /\ n \in Nat /\ Window \in Nat \ {0}
      /\ \A i \in 1..n : ages[i] \in 0..Window
  BY LenProperties, ElementOfSeq, ConstantsAssumption DEF Limiter!LimiterAssumption
<1>2. m \in 1..n + 1 /\ (m <= n => ages[m] < Window)
  BY FirstRecentIsFirst
<1>3. recent = SubSeq(ages, m, n)
  BY DEF Limiter!Recent
<1> HIDE DEF m, n, recent
<1>4. \A i \in m..n : ages[i] \in 0..Window - 1
  <2> SUFFICES ASSUME NEW i \in m..n
               PROVE  ages[i] \in 0..Window - 1
    OBVIOUS
  <2>1. m \in 1..n /\ i \in 1..n /\ m <= i
    BY <1>1, <1>2
  <2>2. ages[m] >= ages[i] /\ ages[m] < Window
    BY <1>2, <2>1 DEF Ordered, n
  <2>3. QED
    BY <1>1, <2>1, <2>2
<1>5. /\ recent \in Seq(0..Window - 1)
      /\ Len(recent) = IF m <= n THEN n - m + 1 ELSE 0
      /\ \A i \in 1..n - m + 1 : recent[i] = ages[m + i - 1]
  <2>1. m \in Int /\ n \in Int
    BY <1>1, <1>2
  <2>2. QED
    BY ONLY <1>3, <1>4, <2>1, SubSeqProperties
<1>6. ASSUME NEW i \in 1..Len(recent), NEW j \in 1..Len(recent), i <= j
      PROVE  recent[i] >= recent[j]
  <2>1. /\ recent[i] = ages[m + i - 1] /\ recent[j] = ages[m + j - 1]
        /\ m + i - 1 \in 1..n /\ m + j - 1 \in 1..n /\ m + i - 1 <= m + j - 1
    BY <1>1, <1>2, <1>5, <1>6
  <2>2. QED
    BY <2>1 DEF Ordered, n
<1>7. Ordered(recent)
  BY <1>6 DEF Ordered
<1>8. QED
  BY <1>5, <1>7 DEF recent

\* The buffer of events takes one more and stays within its size.
LEMMA BufferBounded ==
    ASSUME NEW buffer \in Seq({"refused", "alert"}), Len(buffer) <= MaxEvents,
           NEW kind \in {"refused", "alert"}
    PROVE  /\ Limiter!Buffered(buffer, kind) \in Seq({"refused", "alert"})
           /\ Len(Limiter!Buffered(buffer, kind)) <= MaxEvents
<1> DEFINE full == Append(buffer, kind)
<1>1. MaxEvents \in Nat /\ Len(buffer) \in Nat
  BY LenProperties, ConstantsAssumption DEF Limiter!LimiterAssumption
<1>2. full \in Seq({"refused", "alert"}) /\ full # <<>> /\ Len(full) = Len(buffer) + 1
  BY AppendProperties
<1>3. Tail(full) \in Seq({"refused", "alert"}) /\ Len(Tail(full)) = Len(buffer)
  BY <1>1, <1>2, HeadTailProperties
<1>4. QED
  BY <1>1, <1>2, <1>3 DEF Limiter!Buffered

LEMMA AdmitStep ==
    ASSUME LimiterInv, NEW c \in Limiter!Client, Limiter!Admit(c)
    PROVE  LimiterInv'
<1> DEFINE row == [Limiter!Open(c) EXCEPT !.count = @ + 1]
<1>1. /\ Limit \in Nat /\ Window \in Nat \ {0}
  BY ConstantsAssumption DEF Limiter!LimiterAssumption
<1>2. Limiter!Open(c) \in Limiter!WindowRow /\ Limiter!Open(c).left # 0
  BY <1>1 DEF LimiterInv, Limiter!TypeOK, Limiter!Open, Limiter!WindowRow
<1>3. row \in Limiter!WindowRow /\ row.left # 0
  BY <1>1, <1>2 DEF Limiter!Admit, Limiter!WindowRow
<1>4. windows' = [windows EXCEPT ![c] = row] /\ UNCHANGED <<refusals, events>>
  BY DEF Limiter!Admit
<1> HIDE DEF row
<1>5. QED
  BY <1>3, <1>4 DEF LimiterInv, Limiter!TypeOK

\* The newest entries of a sliding window are in order too.
LEMMA NewestAges ==
    ASSUME NEW ages \in Seq(0..Window), Ordered(ages), Len(ages) > 0
    PROVE  Limiter!Newest(ages) \in Seq(0..Window) /\ Ordered(Limiter!Newest(ages))
<1>1. Len(ages) \in Nat /\ ages # <<>>
  BY LenProperties, EmptySeq
<1>2. /\ Tail(ages) \in Seq(0..Window) /\ Len(Tail(ages)) = Len(ages) - 1
      /\ \A i \in 1..Len(Tail(ages)) : Tail(ages)[i] = ages[i + 1]
  BY <1>1, HeadTailProperties
<1>3. Ordered(Tail(ages))
  <2> SUFFICES ASSUME NEW i \in 1..Len(Tail(ages)), NEW j \in 1..Len(Tail(ages)), i <= j
               PROVE  Tail(ages)[i] >= Tail(ages)[j]
    BY DEF Ordered
  <2>1. i + 1 \in 1..Len(ages) /\ j + 1 \in 1..Len(ages) /\ i + 1 <= j + 1
    BY <1>1, <1>2
  <2>2. ages[i + 1] >= ages[j + 1]
    BY <2>1 DEF Ordered
  <2>3. QED
    BY <1>2, <2>2
<1>4. QED
  BY <1>2, <1>3 DEF Limiter!Newest

\* A refusal that is recorded, the limiter's or a handler's.
LEMMA RecordStep ==
    ASSUME LimiterInv, NEW a \in Address, Limiter!Record(a), UNCHANGED windows
    PROVE  LimiterInv'
<1> DEFINE recent == Limiter!Recent(refusals[a])
           ages == Append(recent, 0)
           newest == Limiter!Newest(ages)
           refused == Limiter!Buffered(events, "refused")
<1>1. /\ refusals' = [refusals EXCEPT ![a] = newest]
      /\ events' = IF Len(ages) >= AlertAt THEN Limiter!Buffered(refused, "alert") ELSE refused
  BY DEF Limiter!Record
<1>2. Window \in Nat \ {0}
  BY ConstantsAssumption DEF Limiter!LimiterAssumption
<1>3. recent \in Seq(0..Window - 1) /\ Ordered(recent)
  BY RecentAges DEF LimiterInv, Limiter!TypeOK
<1> HIDE DEF recent
<1>4. recent \in Seq(0..Window) /\ Len(recent) \in Nat
  <2>1. 0..Window - 1 \subseteq 0..Window
    BY <1>2
  <2>2. recent \in Seq(0..Window)
    BY <1>3, <2>1, SeqMonotonic
  <2>3. QED
    BY <2>2, LenProperties
<1>5. /\ ages \in Seq(0..Window) /\ Len(ages) = Len(recent) + 1
      /\ ages[Len(recent) + 1] = 0
      /\ \A i \in 1..Len(recent) : ages[i] = recent[i] /\ ages[i] \in 0..Window
  <2>1. 0 \in 0..Window
    BY <1>2
  <2>2. QED
    <3>1. \A i \in 1..Len(recent) : recent[i] \in 0..Window
      BY <1>4, ElementOfSeq
    <3>2. /\ ages \in Seq(0..Window) /\ Len(ages) = Len(recent) + 1
          /\ ages[Len(recent) + 1] = 0
          /\ \A i \in 1..Len(recent) : ages[i] = recent[i]
      BY <1>4, <2>1, AppendProperties
    <3>3. QED
      BY <3>1, <3>2
<1>6. Ordered(ages)
  <2> HIDE DEF ages
  <2> SUFFICES ASSUME NEW i \in 1..Len(ages), NEW j \in 1..Len(ages), i <= j
               PROVE  ages[i] >= ages[j]
    BY DEF Ordered
  <2>1. CASE j = Len(recent) + 1
    <3>1. ages[j] = 0 /\ (i \in 1..Len(recent) \/ i = j)
      BY <1>4, <1>5, <2>1
    <3>2. QED
      BY <1>2, <1>5, <3>1
  <2>2. CASE j # Len(recent) + 1
    <3>1. i \in 1..Len(recent) /\ j \in 1..Len(recent)
      BY <1>4, <1>5, <2>2
    <3>2. QED
      BY <1>3, <1>5, <3>1 DEF Ordered
  <2>3. QED
    BY <2>1, <2>2
<1> HIDE DEF ages
<1>7. newest \in Seq(0..Window) /\ Ordered(newest)
  BY <1>5, <1>6, NewestAges
<1> HIDE DEF newest
<1>8. refused \in Seq({"refused", "alert"}) /\ Len(refused) <= MaxEvents
  BY BufferBounded DEF LimiterInv, Limiter!TypeOK
<1> HIDE DEF refused
<1>9. events' \in Seq({"refused", "alert"}) /\ Len(events') <= MaxEvents
  BY <1>1, <1>8, BufferBounded
<1>10. QED
  BY <1>1, <1>7, <1>9 DEF LimiterInv, Limiter!TypeOK

LEMMA RefuseStep ==
    ASSUME LimiterInv, NEW c \in Limiter!Client, Limiter!Refuse(c)
    PROVE  LimiterInv'
<1>1. c[1] \in Address
  BY DEF Limiter!Client
<1>2. QED
  BY <1>1, RecordStep DEF Limiter!Refuse

\* Sliding windows that are cleared.
LEMMA ClearedWindows ==
    ASSUME refusals' = [a \in Address |-> <<>>]
    PROVE  refusals' \in [Address -> Seq(0..Window)] /\ \A a \in Address : Ordered(refusals'[a])
<1>1. <<>> \in Seq(0..Window) /\ Len(<<>>) = 0
  BY EmptySeq
<1>2. Ordered(<<>>)
  BY <1>1 DEF Ordered
<1>3. QED
  BY <1>1, <1>2

LEMMA LimiterTickStep ==
    ASSUME LimiterInv, Limiter!Tick
    PROVE  LimiterInv'
<1>1. Window \in Nat \ {0}
  BY ConstantsAssumption DEF Limiter!LimiterAssumption
<1>2. ASSUME NEW c \in Limiter!Client
      PROVE  /\ windows'[c] \in Limiter!WindowRow
             /\ windows'[c].left = 0 => windows'[c] = Limiter!NoWindow
  <2>1. windows[c] \in Limiter!WindowRow
    BY DEF LimiterInv, Limiter!TypeOK
  <2>2. CASE windows[c].left > 1
    <3> DEFINE row == [windows[c] EXCEPT !.left = @ - 1]
    <3>1. row \in Limiter!WindowRow /\ row.left # 0
      BY <1>1, <2>1, <2>2 DEF Limiter!WindowRow
    <3>2. windows'[c] = row
      BY <2>2 DEF Limiter!Tick
    <3> HIDE DEF row
    <3>3. QED
      BY <3>1, <3>2
  <2>3. CASE ~(windows[c].left > 1)
    <3>1. windows'[c] = Limiter!NoWindow
      BY <2>3 DEF Limiter!Tick
    <3>2. Limiter!NoWindow \in Limiter!WindowRow
      BY <1>1, ConstantsAssumption
         DEF Limiter!NoWindow, Limiter!WindowRow, Limiter!LimiterAssumption
    <3>3. QED
      BY <3>1, <3>2
  <2>4. QED
    BY <2>2, <2>3
<1>3. ASSUME NEW a \in Address
      PROVE  refusals'[a] \in Seq(0..Window) /\ Ordered(refusals'[a])
  <2> DEFINE recent == Limiter!Recent(refusals[a])
             older == [i \in DOMAIN recent |-> recent[i] + 1]
  <2>1. refusals'[a] = older
    BY DEF Limiter!Tick
  <2>2. recent \in Seq(0..Window - 1) /\ Ordered(recent)
    BY RecentAges DEF LimiterInv, Limiter!TypeOK
  <2> HIDE DEF recent
  <2>3. /\ Len(recent) \in Nat /\ DOMAIN recent = 1..Len(recent)
        /\ \A i \in 1..Len(recent) : recent[i] \in 0..Window - 1
    BY <2>2, LenProperties, ElementOfSeq
  <2>4. older \in [1..Len(recent) -> 0..Window]
    BY <1>1, <2>3
  <2>5. older \in Seq(0..Window) /\ Len(older) = Len(recent)
    <3>1. older \in Seq(0..Window)
      BY <2>3, <2>4, SeqDef
    <3>2. QED
      BY <2>3, <2>4, <3>1, LenProperties
  <2>6. Ordered(older)
    BY <1>1, <2>2, <2>3, <2>5 DEF Ordered
  <2>7. QED
    BY <2>1, <2>5, <2>6
<1>4. windows' \in [Limiter!Client -> Limiter!WindowRow] /\ refusals' \in [Address -> Seq(0..Window)]
  BY <1>2, <1>3 DEF Limiter!Tick
<1>5. QED
  BY <1>2, <1>3, <1>4 DEF Limiter!Tick, LimiterInv, Limiter!TypeOK

LEMMA LimiterStep ==
    ASSUME LimiterInv, [Limiter!Next]_lvars
    PROVE  LimiterInv'
<1>1. CASE Limiter!RotateSalt
  BY <1>1, ClearedWindows DEF Limiter!RotateSalt, LimiterInv, Limiter!TypeOK
<1>2. CASE Limiter!Restart
  <2>1. Limiter!NoWindow \in Limiter!WindowRow
    BY ConstantsAssumption
       DEF Limiter!NoWindow, Limiter!WindowRow, Limiter!LimiterAssumption
  <2>2. <<>> \in Seq({"refused", "alert"}) /\ Len(<<>>) <= MaxEvents
    BY EmptySeq, ConstantsAssumption DEF Limiter!LimiterAssumption
  <2>3. QED
    BY <1>2, <2>1, <2>2, ClearedWindows DEF Limiter!Restart, LimiterInv, Limiter!TypeOK
<1>3. CASE UNCHANGED lvars
  BY <1>3 DEF lvars, LimiterInv, Limiter!TypeOK, Ordered
<1>4. QED
  <2>1. CASE \E a \in Address : Limiter!RefuseInHandler(a)
    BY <2>1, RecordStep DEF Limiter!RefuseInHandler
  <2>2. QED
    BY <1>1, <1>2, <1>3, <2>1, AdmitStep, RefuseStep, LimiterTickStep
       DEF Limiter!Next

----------------------------------------------------------------------------
(* What a refused caller waits for.  CanAskAgain says that it comes to     *)
(* pass when time goes on; here, that only time is needed, and no more of  *)
(* it than is left.                                                        *)

\* No step prolongs a challenge, a signature request or a window of the
\* limiter that has not run out.
NothingProlongs ==
    /\ \A n \in Nonce : issued[n].left > 0 => issued'[n].left <= issued[n].left
    /\ \A i \in SignId :
          signRequests[i].left > 0 => signRequests'[i].left <= signRequests[i].left
    /\ \A c \in Limiter!Client : windows[c].left > 0 => windows'[c].left <= windows[c].left

\* While one may not ask, nothing is added to what one waits for.
NothingJoins ==
    /\ \A key \in Key : ~(Cardinality(Proofs!PendingOf(key)) < MaxPending) =>
          Proofs!PendingOf(key)' \subseteq Proofs!PendingOf(key)
    /\ \A s \in Session : ~(Cardinality(Signing!Pending(s)) < MaxPending) =>
          Signing!Pending(s)' \subseteq Signing!Pending(s)

\* The clock shortens all that has not run out.
ClockShortens ==
    /\ Proofs!Tick =>
          \A n \in Nonce : issued[n].left > 0 => issued'[n].left < issued[n].left
    /\ Signing!Tick =>
          \A i \in SignId :
             signRequests[i].left > 0 => signRequests'[i].left < signRequests[i].left
    /\ Limiter!Tick =>
          \A c \in Limiter!Client : windows[c].left > 0 => windows'[c].left < windows[c].left

\* What has run out keeps nobody out.
RunOutLetsIn ==
    /\ \A key \in Key :
          (\A n \in Nonce : issued[n].subject = key => issued[n].left = 0)
             => Cardinality(Proofs!PendingOf(key)) < MaxPending
    /\ \A s \in Session :
          (\A i \in SignId : signRequests[i].session = s => signRequests[i].left = 0)
             => Cardinality(Signing!Pending(s)) < MaxPending
    /\ \A c \in Limiter!Client : windows[c].left = 0 => Limiter!Open(c).count < Limit

\* A challenge that no step issues is of whom it was, as used as it was or
\* more, and no younger.
Fades(n) ==
    /\ issued'[n].subject = issued[n].subject
    /\ issued[n].consumed => issued'[n].consumed
    /\ issued'[n].left <= issued[n].left

LEMMA NonceLeft ==
    ASSUME ProofsInv, NEW n \in Nonce
    PROVE  issued[n].left \in Nat /\ issued[n].left \in Int
<1>1. issued[n] \in Proofs!IssuedRow \cup {Proofs!NotIssued}
  BY DEF ProofsInv, Proofs!TypeOK
<1>2. QED
  BY <1>1, ConstantsAssumption DEF Proofs!PossessionAssumption, Proofs!IssuedRow,
     Proofs!NotIssued

\* A step issues one challenge, to a key below its cap, or none.
LEMMA ChallengesFade ==
    ASSUME ProofsInv, [Proofs!Next]_rvars
    PROVE  \/ \A n \in Nonce : Fades(n)
           \/ \E key \in Key, n \in Nonce :
                 /\ Cardinality(Proofs!PendingOf(key)) < MaxPending
                 /\ issued[n].left = 0
                 /\ issued'[n].subject = key
                 /\ \A m \in Nonce \ {n} : Fades(m)
<1>1. issued \in [Nonce -> Proofs!IssuedRow \cup {Proofs!NotIssued}]
  BY DEF ProofsInv, Proofs!TypeOK
<1>2. ASSUME UNCHANGED issued PROVE \A n \in Nonce : Fades(n)
  BY <1>2, NonceLeft DEF Fades
<1>3. ASSUME NEW key \in Key, NEW action \in Action, NEW n \in Nonce,
             Proofs!IssueActionChallenge(key, action, n)
      PROVE  /\ Cardinality(Proofs!PendingOf(key)) < MaxPending
             /\ issued[n].left = 0
             /\ issued'[n].subject = key
             /\ \A m \in Nonce \ {n} : Fades(m)
  <2>1. \A m \in Nonce \ {n} : issued'[m] = issued[m]
    BY <1>1, <1>3 DEF Proofs!IssueActionChallenge
  <2>2. issued'[n].subject = key
    BY <1>1, <1>3 DEF Proofs!IssueActionChallenge
  <2>3. \A m \in Nonce \ {n} : Fades(m)
    BY <2>1, NonceLeft DEF Fades
  <2>4. Cardinality(Proofs!PendingOf(key)) < MaxPending /\ issued[n].left = 0
    BY <1>3, SameCardinality DEF Proofs!IssueActionChallenge, Proofs!NotIssued
  <2>5. QED
    BY <2>2, <2>3, <2>4
<1>4. ASSUME NEW key \in Key, NEW action \in Action, NEW n \in Nonce, NEW jti \in Jti,
             Proofs!Act(key, n, action, jti)
      PROVE  \A m \in Nonce : Fades(m)
  <2>1. issued' = [issued EXCEPT ![n].consumed = TRUE]
    BY <1>4 DEF Proofs!Act
  <2>2. issued[n] \in Proofs!IssuedRow \cup {Proofs!NotIssued}
    BY <1>1
  <2>3. /\ issued'[n].subject = issued[n].subject
        /\ issued'[n].left = issued[n].left
        /\ issued'[n].consumed
    BY <1>1, <2>1, <2>2 DEF Proofs!IssuedRow, Proofs!NotIssued
  <2>4. \A m \in Nonce \ {n} : issued'[m] = issued[m]
    BY <1>1, <2>1
  <2>5. QED
    BY <2>3, <2>4, NonceLeft DEF Fades
<1>5. ASSUME Proofs!Tick PROVE \A n \in Nonce : Fades(n)
  <2> SUFFICES ASSUME NEW n \in Nonce PROVE Fades(n)
    OBVIOUS
  <2>1. issued[n] \in Proofs!IssuedRow \cup {Proofs!NotIssued}
    BY <1>1
  <2>2. \/ issued'[n] = issued[n]
        \/ issued'[n] = [issued[n] EXCEPT !.left = @ - 1]
    BY <1>5 DEF Proofs!Tick, Proofs!Older
  <2>3. QED
    BY <2>1, <2>2, NonceLeft DEF Fades, Proofs!IssuedRow, Proofs!NotIssued
<1>6. ASSUME NEW c \in Challenge,
             \/ Proofs!IssueRegistrationChallenge(c)
             \/ \E key \in Key : Proofs!Register(key, c)
      PROVE  UNCHANGED issued
  BY <1>6 DEF Proofs!IssueRegistrationChallenge, Proofs!Register
<1>7. CASE UNCHANGED rvars
  BY <1>2, <1>7 DEF rvars
<1>8. QED
  BY <1>2, <1>3, <1>4, <1>5, <1>6, <1>7 DEF Proofs!Next

LEMMA ChallengesWait ==
    ASSUME ProofsInv, [Proofs!Next]_rvars
    PROVE  /\ \A n \in Nonce : issued[n].left > 0 => issued'[n].left <= issued[n].left
           /\ \A key \in Key : ~(Cardinality(Proofs!PendingOf(key)) < MaxPending) =>
                 Proofs!PendingOf(key)' \subseteq Proofs!PendingOf(key)
<1>1. ASSUME NEW n \in Nonce
      PROVE  issued[n].left \in Int /\ issued'[n].left \in Int
  <2>1. ProofsInv'
    BY ProofsStep
  <2>2. issued'[n] \in Proofs!IssuedRow \cup {Proofs!NotIssued}
    BY <2>1 DEF ProofsInv, Proofs!TypeOK
  <2>3. QED
    BY <2>2, NonceLeft, ConstantsAssumption
       DEF Proofs!PossessionAssumption, Proofs!IssuedRow, Proofs!NotIssued
<1>2. ASSUME NEW n \in Nonce, Fades(n)
      PROVE  /\ issued'[n].left <= issued[n].left
             /\ issued'[n].subject = issued[n].subject
             /\ Proofs!Waits(issued'[n]) => Proofs!Waits(issued[n])
  BY <1>1, <1>2 DEF Fades, Proofs!Waits
<1>3. CASE \A n \in Nonce : Fades(n)
  BY <1>2, <1>3 DEF Proofs!PendingOf
<1>4. ASSUME NEW key \in Key, NEW n \in Nonce,
             Cardinality(Proofs!PendingOf(key)) < MaxPending,
             issued[n].left = 0, issued'[n].subject = key,
             \A m \in Nonce \ {n} : Fades(m)
      PROVE  /\ \A m \in Nonce : issued[m].left > 0 => issued'[m].left <= issued[m].left
             /\ \A k \in Key : ~(Cardinality(Proofs!PendingOf(k)) < MaxPending) =>
                   Proofs!PendingOf(k)' \subseteq Proofs!PendingOf(k)
  <2>1. \A m \in Nonce : issued[m].left > 0 => issued'[m].left <= issued[m].left
    BY <1>2, <1>4
  <2>2. ASSUME NEW k \in Key, k # key
        PROVE  Proofs!PendingOf(k)' \subseteq Proofs!PendingOf(k)
    BY <1>2, <1>4, <2>2 DEF Proofs!PendingOf
  <2>3. QED
    BY <1>4, <2>1, <2>2
<1>5. QED
  BY <1>3, <1>4, ChallengesFade

\* Signature requests.
LEMMA SignRowType ==
    ASSUME SigningInv, NEW i \in SignId
    PROVE  /\ signRequests[i] \in
                 Signing!SignRequest \cup {Signing!NoSignRequest, Signing!Deleted}
           /\ signRequests[i].left \in Int
           /\ signRequests[i].left >= 0
<1>1. signRequests[i] \in Signing!SignRequest \cup {Signing!NoSignRequest, Signing!Deleted}
  BY DEF SigningInv, Signing!TypeOK
<1>2. QED
  BY <1>1, ConstantsAssumption DEF Signing!SignRelayAssumption, Signing!SignRequest,
     Signing!NoSignRequest, Signing!Deleted

\* What waits is what has time left.
Waiting(s) == {i \in SignId : /\ signRequests[i].session = s
                               /\ signRequests[i].status = "pending"
                               /\ signRequests[i].left > 0}

PendingWait == \A s \in Session : Signing!Pending(s) = Waiting(s)

LEMMA PendingIs == SigningInv => PendingWait
<1> SUFFICES ASSUME SigningInv, NEW s \in Session
             PROVE  Signing!Pending(s) = Waiting(s)
  BY DEF PendingWait
<1>1. None # s
  BY ConstantsAssumption DEF Signing!SignRelayAssumption
<1>2. ASSUME NEW i \in SignId
      PROVE  (/\ Signing!Pruned(signRequests)[i].session = s
              /\ Signing!Pruned(signRequests)[i].status = "pending")
             <=> (/\ signRequests[i].session = s
                  /\ signRequests[i].status = "pending"
                  /\ signRequests[i].left > 0)
  BY <1>1, DeletedRow, SignRowType DEF Signing!Pruned, Signing!IsRow
<1>3. QED
  BY <1>2 DEF Signing!Pending, Waiting

\* A request that no step makes is whose it was, waits if it waited, and is no
\* younger.
Stays(i) ==
    /\ signRequests'[i].status = "pending" =>
          /\ signRequests[i].status = "pending"
          /\ signRequests'[i].session = signRequests[i].session
    /\ signRequests'[i].left <= signRequests[i].left

LEMMA PrunedStays ==
    ASSUME SigningInv, NEW i \in SignId, signRequests'[i] = Signing!Pruned(signRequests)[i]
    PROVE  Stays(i)
<1>1. CASE signRequests'[i] = signRequests[i]
  BY <1>1, SignRowType DEF Stays
<1>2. CASE signRequests'[i] = Signing!Deleted
  BY <1>2, SignRowType DEF Stays, Signing!Deleted, Signing!NoSignRequest
<1>3. QED
  BY <1>1, <1>2, PrunedRow DEF SigningInv

\* A step makes one request, of a session below its cap, or none.
LEMMA RequestsStay ==
    ASSUME SigningInv, [Signing!Next]_svars
    PROVE  \/ \A i \in SignId : Stays(i)
           \/ \E s \in Session, i \in SignId :
                 /\ Cardinality(Signing!Pending(s)) < MaxPending
                 /\ signRequests[i].left = 0
                 /\ signRequests'[i].session = s
                 /\ \A j \in SignId \ {i} : Stays(j)
<1> DEFINE pruned == Signing!Pruned(signRequests)
<1>1. /\ pruned = [i \in SignId |-> pruned[i]]
      /\ \A i \in SignId : signRequests'[i] = pruned[i] => Stays(i)
  BY PrunedStays DEF Signing!Pruned
<1>2. ASSUME NEW s \in Session, NEW i \in SignId, Signing!Create(s, i)
      PROVE  /\ Cardinality(Signing!Pending(s)) < MaxPending
             /\ signRequests[i].left = 0
             /\ signRequests'[i].session = s
             /\ \A j \in SignId \ {i} : Stays(j)
  <2>1. Cardinality(Signing!Pending(s)) < MaxPending /\ signRequests[i].left = 0
    BY <1>2, SameCardinality DEF Signing!Create, Signing!NoSignRequest
  <2> HIDE DEF pruned
  <2>2. signRequests' = [pruned EXCEPT ![i] = [session |-> s, status |-> "pending",
                                               signer |-> None, left |-> Lifetime]]
    BY <1>2 DEF Signing!Create, pruned
  <2>3. /\ signRequests'[i].session = s
        /\ \A j \in SignId \ {i} : signRequests'[j] = pruned[j]
    BY <1>1, <2>2
  <2>4. QED
    BY <1>1, <2>1, <2>3
<1>3. ASSUME NEW s \in Session, NEW i \in SignId, NEW key \in Key, Signing!Fulfill(s, i, key)
      PROVE  \A j \in SignId : Stays(j)
  <2>1. pruned[i] = signRequests[i] /\ signRequests[i] \in Signing!SignRequest
    BY <1>3, SessionsRow DEF Signing!Fulfill, SigningInv
  <2> HIDE DEF pruned
  <2>2. signRequests' = [pruned EXCEPT ![i] =
            [pruned[i] EXCEPT !.status = "fulfilled", !.signer = key]]
    BY <1>1, <1>3 DEF Signing!Fulfill, pruned
  <2>3. /\ signRequests'[i] = [signRequests[i] EXCEPT !.status = "fulfilled", !.signer = key]
        /\ \A j \in SignId \ {i} : signRequests'[j] = pruned[j]
    BY <1>1, <2>1, <2>2
  <2>4. signRequests'[i].status = "fulfilled" /\ signRequests'[i].left = signRequests[i].left
    BY <2>1, <2>3 DEF Signing!SignRequest
  <2>5. Stays(i)
    BY <2>4, SignRowType DEF Stays
  <2>6. QED
    BY <1>1, <2>3, <2>5
<1>4. CASE signRequests' = pruned
  BY <1>1, <1>4
<1>5. ASSUME Signing!Tick PROVE \A i \in SignId : Stays(i)
  <2> SUFFICES ASSUME NEW i \in SignId PROVE Stays(i)
    OBVIOUS
  <2>1. \/ signRequests'[i] = signRequests[i]
        \/ signRequests'[i] = [signRequests[i] EXCEPT !.left = @ - 1]
    BY <1>5 DEF Signing!Tick
  <2>2. signRequests[i] \in Signing!SignRequest \cup {Signing!NoSignRequest, Signing!Deleted}
    BY SignRowType
  <2>3. /\ signRequests'[i].status = signRequests[i].status
        /\ signRequests'[i].session = signRequests[i].session
        /\ \/ signRequests'[i].left = signRequests[i].left
           \/ signRequests'[i].left = signRequests[i].left - 1
    BY <2>1, <2>2 DEF Signing!SignRequest, Signing!NoSignRequest, Signing!Deleted
  <2>4. QED
    BY <2>3, SignRowType DEF Stays
<1>6. CASE UNCHANGED svars
  BY <1>6, SignRowType DEF svars, Stays
<1>7. QED
  BY <1>2, <1>3, <1>4, <1>5, <1>6 DEF Signing!Next, Signing!Prune, Signing!Get

LEMMA RequestsWait ==
    ASSUME SigningInv, [Signing!Next]_svars
    PROVE  /\ \A i \in SignId :
                 signRequests[i].left > 0 => signRequests'[i].left <= signRequests[i].left
           /\ \A s \in Session : ~(Cardinality(Signing!Pending(s)) < MaxPending) =>
                 Signing!Pending(s)' \subseteq Signing!Pending(s)
<1>1. ASSUME NEW i \in SignId
      PROVE  signRequests[i].left \in Int /\ signRequests'[i].left \in Int
  <2>1. signRequests'[i] \in
           Signing!SignRequest \cup {Signing!NoSignRequest, Signing!Deleted}
    BY SigningStep DEF SigningInv, Signing!TypeOK
  <2>2. QED
    BY <2>1, SignRowType, ConstantsAssumption DEF Signing!SignRelayAssumption,
       Signing!SignRequest, Signing!NoSignRequest, Signing!Deleted
<1>2. ASSUME NEW s \in Session
      PROVE  Signing!Pending(s) = Waiting(s) /\ Signing!Pending(s)' = Waiting(s)'
  <2>1. SigningInv'
    BY SigningStep
  <2>2. PendingWait'
    BY <2>1, PendingIs, PTL
  <2>3. QED
    BY <2>2, PendingIs DEF PendingWait
<1>3. ASSUME NEW i \in SignId, NEW s \in Session, Stays(i), i \in Waiting(s)'
      PROVE  i \in Waiting(s)
  BY <1>1, <1>3 DEF Stays, Waiting
<1>4. CASE \A i \in SignId : Stays(i)
  <2>1. \A s \in Session : Waiting(s)' \subseteq Waiting(s)
    BY <1>3, <1>4 DEF Waiting
  <2>2. QED
    BY <1>2, <1>4, <2>1 DEF Stays
<1>5. ASSUME NEW s \in Session, NEW i \in SignId,
             Cardinality(Signing!Pending(s)) < MaxPending,
             signRequests[i].left = 0, signRequests'[i].session = s,
             \A j \in SignId \ {i} : Stays(j)
      PROVE  /\ \A j \in SignId :
                   signRequests[j].left > 0 => signRequests'[j].left <= signRequests[j].left
             /\ \A t \in Session : ~(Cardinality(Signing!Pending(t)) < MaxPending) =>
                   Signing!Pending(t)' \subseteq Signing!Pending(t)
  <2>1. \A j \in SignId :
           signRequests[j].left > 0 => signRequests'[j].left <= signRequests[j].left
    BY <1>5 DEF Stays
  <2>2. ASSUME NEW t \in Session, t # s PROVE Waiting(t)' \subseteq Waiting(t)
    BY <1>3, <1>5, <2>2 DEF Waiting
  <2>3. QED
    BY <1>2, <1>5, <2>1, <2>2
<1>6. QED
  BY <1>4, <1>5, RequestsStay

\* Windows of the limiter.
LEMMA WindowsWait ==
    ASSUME LimiterInv, [Limiter!Next]_lvars, NEW c \in Limiter!Client, windows[c].left > 0
    PROVE  /\ windows'[c].left <= windows[c].left
           /\ Limiter!Tick => windows'[c].left < windows[c].left
<1>1. /\ windows \in [Limiter!Client -> Limiter!WindowRow]
      /\ windows[c] \in Limiter!WindowRow
      /\ windows[c].left \in Nat
  BY ConstantsAssumption
     DEF LimiterInv, Limiter!TypeOK, Limiter!WindowRow, Limiter!LimiterAssumption
<1>2. ASSUME Limiter!Tick PROVE windows'[c].left < windows[c].left
  <2>1. CASE windows[c].left > 1
    <3>1. windows'[c] = [windows[c] EXCEPT !.left = windows[c].left - 1]
      BY <1>2, <2>1 DEF Limiter!Tick
    <3>2. windows'[c].left = windows[c].left - 1
      BY <1>1, <3>1 DEF Limiter!WindowRow
    <3>3. QED
      BY <1>1, <3>2
  <2>2. CASE ~(windows[c].left > 1)
    BY <1>2, <2>2 DEF Limiter!Tick, Limiter!NoWindow
  <2>3. QED
    BY <2>1, <2>2
<1>3. ASSUME NEW d \in Limiter!Client, Limiter!Admit(d) PROVE windows'[c].left = windows[c].left
  <2>1. Limiter!Open(c) = windows[c]
    BY DEF Limiter!Open
  <2>2. windows' = [windows EXCEPT ![d] =
                       [Limiter!Open(d) EXCEPT !.count = Limiter!Open(d).count + 1]]
    BY <1>3 DEF Limiter!Admit
  <2>3. CASE d = c
    <3>1. windows'[c] = [windows[c] EXCEPT !.count = windows[c].count + 1]
      BY <1>1, <2>1, <2>2, <2>3
    <3>2. QED
      BY <1>1, <3>1 DEF Limiter!WindowRow
  <2>4. CASE d # c
    BY <1>1, <2>2, <2>4
  <2>5. QED
    BY <2>3, <2>4
<1>4. ASSUME Limiter!Restart PROVE windows'[c].left <= windows[c].left
  BY <1>1, <1>4 DEF Limiter!Restart, Limiter!NoWindow
<1>5. ASSUME UNCHANGED windows PROVE windows'[c].left <= windows[c].left
  BY <1>1, <1>5
<1>6. windows'[c].left <= windows[c].left
  <2>1. CASE Limiter!Tick
    <3>1. windows'[c].left < windows[c].left
      BY <1>2, <2>1
    <3>2. windows'[c].left \in Int
      BY LimiterStep, ConstantsAssumption
         DEF LimiterInv, Limiter!TypeOK, Limiter!WindowRow, Limiter!LimiterAssumption
    <3>3. QED
      BY <1>1, <3>1, <3>2
  <2>2. CASE \E d \in Limiter!Client : Limiter!Admit(d)
    BY <1>1, <1>3, <2>2
  <2>3. CASE UNCHANGED windows
    BY <1>5, <2>3
  <2>4. QED
    BY <1>4, <2>1, <2>2, <2>3
       DEF Limiter!Next, Limiter!Refuse, Limiter!RefuseInHandler, Limiter!RotateSalt, lvars
<1>7. QED
  BY <1>2, <1>6

----------------------------------------------------------------------------
(* Theorems.                                                               *)

RelaysInv == SigningInv /\ ProofsInv /\ PresentingType /\ LimiterInv

RelaysMove ==
    /\ [Signing!Next]_svars /\ [Proofs!Next]_rvars
    /\ [Presenting!Next]_ivars /\ [Limiter!Next]_lvars

LEMMA RelaysInit == Init => RelaysInv
<1> SUFFICES ASSUME Init PROVE RelaysInv
  OBVIOUS
<1>1. SigningInv
  BY DEF Init, Signing!Init, SigningInv, AnswerInv, Signing!TypeOK, Signing!NoSignRequest
<1>2. ProofsInv
  <2>1. Proofs!TypeOK
    BY ConstantsAssumption DEF Init, Proofs!Init, Proofs!TypeOK, Proofs!OutstandingRow,
       Proofs!PossessionAssumption
  <2>2. DOMAIN accepted = {} /\ registered = {}
    BY DEF Init, Proofs!Init
  <2>3. OutstandingInv
    BY DEF Init, Proofs!Init, OutstandingInv
  <2>4. QED
    BY <2>1, <2>2, <2>3 DEF ProofsInv, AcceptedInv, ProofSpentOnce, Proofs!ProofSpentOnce
<1>3. PresentingType
  <2>1. (CHOOSE k \in Key : TRUE) \in Key
    BY ConstantsAssumption DEF Presenting!PresentationAssumption
  <2>2. QED
    BY <2>1, ConstantsAssumption DEF Init, Presenting!Init, PresentingType,
       Presenting!TypeOK, Presenting!TrustedKeys, Presenting!PresentationAssumption
<1>4. LimiterInv
  <2>1. refusals = [a \in Address |-> <<>>] /\ events = <<>>
    BY DEF Init, Limiter!Init
  <2>2. /\ <<>> \in Seq(0..Window) /\ Len(<<>>) = 0
        /\ <<>> \in Seq({"refused", "alert"})
    BY EmptySeq
  <2>3. /\ windows \in [Limiter!Client -> Limiter!WindowRow]
        /\ \A c \in Limiter!Client : windows[c] = Limiter!NoWindow
    BY ConstantsAssumption DEF Init, Limiter!Init, Limiter!NoWindow, Limiter!WindowRow,
       Limiter!LimiterAssumption
  <2>4. \A a \in Address : Ordered(refusals[a])
    BY <2>1, <2>2 DEF Ordered
  <2>5. QED
    BY <2>1, <2>2, <2>3, <2>4, ConstantsAssumption
       DEF LimiterInv, Limiter!TypeOK, Limiter!LimiterAssumption
<1>5. QED
  BY <1>1, <1>2, <1>3, <1>4 DEF RelaysInv

LEMMA RelaysStep == RelaysInv /\ RelaysMove => RelaysInv'
BY SigningStep, ProofsStep, PresentingStep, LimiterStep
   DEF RelaysInv, RelaysMove, PresentingMoves

\* The four components side by side.
Together == Init /\ [][RelaysMove]_vars

LEMMA TogetherInvariant == Together => []RelaysInv /\ [][RelaysMove]_vars
<1>1. [RelaysMove]_vars => RelaysMove
  BY DEF RelaysMove, vars
<1>2. QED
  BY RelaysInit, RelaysStep, <1>1, PTL DEF Together

\* A behaviour of one of them is one in which the others stand still.
LEMMA OneAtATime == Spec => Together
<1>1. [Next]_vars => RelaysMove
  BY DEF RelaysMove, Next, vars
<1>2. QED
  BY <1>1, PTL DEF Spec, Together

LEMMA RelaysInvariant == Spec => []RelaysInv /\ [][RelaysMove]_vars
BY OneAtATime, TogetherInvariant

\* The rows of challenges, signature requests and identity requests have the
\* shape the code gives them; a client's window admits no more than its limit,
\* and the buffer of events stays within its size, whatever the limits are
\* (RateLimitMiddleware.handle, pushEvent, incrementWindowCounter).
THEOREM TypeCorrect == Spec => []TypeOK
<1>1. RelaysInv => TypeOK
  BY DEF RelaysInv, SigningInv, ProofsInv, PresentingType, LimiterInv, TypeOK
<1>2. QED
  BY <1>1, RelaysInvariant, PTL

\* Challenges and one-time ids are spent once, and a challenge of the broker
\* for the action and the key it was issued for, however many proofs of however
\* many keys arrive in whatever order (consumeChallenge, registerIdentity).
THEOREM ProofsSpentOnce == Spec => []ProofSpentOnce
<1>1. RelaysInv => ProofSpentOnce
  BY DEF RelaysInv, ProofsInv
<1>2. QED
  BY <1>1, RelaysInvariant, PTL

\* A signature request has one answer, whoever polls for it and posts to it,
\* and whenever what has expired is deleted (fulfillMatrixSignRequest).
THEOREM OneAnswerEach == Spec => []OneAnswer
<1>1. RelaysInv => OneAnswer
  BY SigningAnswers DEF RelaysInv
<1>2. QED
  BY <1>1, RelaysInvariant, PTL

Slots == [r \in Request |-> Presenting!BoxOf(r)]

LEMMA MailboxTogether == Together => PresentationIsMailbox
<1>1. Init => Presenting!Mailbox!Init
  BY DEF Init, Presenting!Init, Presenting!BoxOf, Presenting!NoIdRequest,
     Presenting!Mailbox!Init
<1>2. RelaysInv /\ RelaysMove => [Presenting!Mailbox!Next]_<<Slots, delivered>>
  BY PresentingStep, PresentingRefines DEF RelaysInv, RelaysMove
<1>3. UNCHANGED vars => UNCHANGED <<Slots, delivered>>
  BY DEF vars, ivars, Slots, Presenting!BoxOf
<1>4. QED
  BY <1>1, <1>2, <1>3, TogetherInvariant, PTL
     DEF Together, PresentationIsMailbox, Presenting!PresentationIsMailbox,
         Presenting!Mailbox!Spec, Slots

\* The relay of identity requests implements the one-time mailbox.
THEOREM PresentationImplementsMailbox == Spec => PresentationIsMailbox
BY OneAtATime, MailboxTogether

MailboxTheorems == INSTANCE OneTimeMailbox_proofs WITH
                       Slot <- Request, box <- Slots, reads <- delivered

\* So no result of a presentation is handed out twice
\* (readIdentityRequestOutcome).
THEOREM ResultsReadOnce == Spec => []Presenting!Mailbox!ReadAtMostOnce
<1>1. Presenting!Mailbox!Init => MailboxTheorems!Init
  BY DEF Presenting!Mailbox!Init, MailboxTheorems!Init, Slots
<1>2. [Presenting!Mailbox!Next]_<<Slots, delivered>>
         => [MailboxTheorems!Next]_<<Slots, delivered>>
  BY DEF Slots, Presenting!Mailbox!Next, MailboxTheorems!Next,
         Presenting!Mailbox!SlotStep, MailboxTheorems!SlotStep,
         Presenting!Mailbox!Moves, MailboxTheorems!Moves,
         Presenting!Mailbox!SlotState, MailboxTheorems!SlotState
<1>3. MailboxTheorems!ReadAtMostOnce => Presenting!Mailbox!ReadAtMostOnce
  BY DEF Slots, Presenting!Mailbox!ReadAtMostOnce, MailboxTheorems!ReadAtMostOnce
<1>4. QED
  BY <1>1, <1>2, <1>3, PresentationImplementsMailbox, MailboxTheorems!ReadOnce, PTL
     DEF PresentationIsMailbox, Presenting!PresentationIsMailbox, Presenting!Mailbox!Spec,
         MailboxTheorems!Spec, Slots

\* Time shortens what is left, and nobody waits for what has none left.
LEMMA Shortens ==
    ASSUME RelaysInv, RelaysMove
    PROVE  ClockShortens
<1>1. ASSUME Proofs!Tick, NEW n \in Nonce, issued[n].left > 0
      PROVE  issued'[n].left < issued[n].left
  <2>1. issued[n] \in Proofs!IssuedRow /\ issued[n].left \in Int
    BY <1>1, NonceLeft DEF RelaysInv, ProofsInv, Proofs!TypeOK, Proofs!NotIssued
  <2>2. issued'[n] = [issued[n] EXCEPT !.left = issued[n].left - 1]
    BY <1>1 DEF Proofs!Tick, Proofs!Older
  <2>3. issued'[n].left = issued[n].left - 1
    BY <2>1, <2>2 DEF Proofs!IssuedRow
  <2>4. QED
    BY <2>1, <2>3
<1>2. ASSUME Signing!Tick, NEW i \in SignId, signRequests[i].left > 0
      PROVE  signRequests'[i].left < signRequests[i].left
  <2>1. signRequests[i] \in Signing!SignRequest /\ signRequests[i].left \in Int
    BY <1>2, SignRowType DEF RelaysInv, Signing!NoSignRequest, Signing!Deleted
  <2>2. signRequests'[i] = [signRequests[i] EXCEPT !.left = signRequests[i].left - 1]
    BY <1>2 DEF Signing!Tick
  <2>3. signRequests'[i].left = signRequests[i].left - 1
    BY <2>1, <2>2 DEF Signing!SignRequest
  <2>4. QED
    BY <2>1, <2>3
<1>3. ASSUME Limiter!Tick, NEW c \in Limiter!Client, windows[c].left > 0
      PROVE  windows'[c].left < windows[c].left
  BY <1>3, WindowsWait DEF RelaysInv, RelaysMove
<1>4. QED
  BY <1>1, <1>2, <1>3 DEF ClockShortens

LEMMA LetsIn ==
    ASSUME RelaysInv
    PROVE  RunOutLetsIn
<1>1. MaxPending > 0 /\ Limit > 0 /\ Cardinality({}) = 0
  BY ConstantsAssumption, FS_EmptySet
     DEF Proofs!PossessionAssumption, Limiter!LimiterAssumption
<1>2. ASSUME NEW key \in Key, \A n \in Nonce : issued[n].subject = key => issued[n].left = 0
      PROVE  Cardinality(Proofs!PendingOf(key)) < MaxPending
  <2>1. Proofs!PendingOf(key) = {}
    BY <1>2 DEF Proofs!PendingOf, Proofs!Waits
  <2>2. QED
    BY <1>1, <2>1
<1>3. ASSUME NEW s \in Session,
             \A i \in SignId : signRequests[i].session = s => signRequests[i].left = 0
      PROVE  Cardinality(Signing!Pending(s)) < MaxPending
  <2>1. Signing!Pending(s) = {}
    BY <1>3, PendingIs DEF RelaysInv, PendingWait, Waiting
  <2>2. QED
    BY <1>1, <2>1
<1>4. ASSUME NEW c \in Limiter!Client, windows[c].left = 0 PROVE Limiter!Open(c).count < Limit
  BY <1>1, <1>4 DEF Limiter!Open
<1>5. QED
  BY <1>2, <1>3, <1>4 DEF RunOutLetsIn

\* A key, session or client that is refused because of its challenges, requests
\* or refusals waits for the clock alone: no step, its own next tries included,
\* prolongs what it waits for or adds to it, every tick shortens it, and once
\* it has run out it keeps nobody out (issueChallenge,
\* createMatrixSignRequest, RateLimitMiddleware.handle).
THEOREM WaitsRunOut ==
    Spec => [][NothingProlongs /\ NothingJoins /\ ClockShortens]_vars /\ []RunOutLetsIn
<1>1. RelaysInv /\ RelaysMove => NothingProlongs /\ NothingJoins /\ ClockShortens
  <2> SUFFICES ASSUME RelaysInv, RelaysMove
               PROVE  NothingProlongs /\ NothingJoins /\ ClockShortens
    OBVIOUS
  <2>1. NothingProlongs
    BY ChallengesWait, RequestsWait, WindowsWait
       DEF RelaysInv, RelaysMove, NothingProlongs
  <2>2. NothingJoins
    BY ChallengesWait, RequestsWait DEF RelaysInv, RelaysMove, NothingJoins
  <2>3. QED
    BY <2>1, <2>2, Shortens
<1>2. RelaysInv => RunOutLetsIn
  BY LetsIn
<1>3. QED
  BY <1>1, <1>2, RelaysInvariant, PTL

\* One component to a behaviour is a choice of the runs alone: what is proved
\* holds as well when the steps of the four interleave, or fall together.
THEOREM SafeTogether ==
    Together => [](TypeOK /\ ProofSpentOnce /\ OneAnswer) /\ PresentationIsMailbox
<1>1. RelaysInv => TypeOK /\ ProofSpentOnce /\ OneAnswer
  BY SigningAnswers
     DEF RelaysInv, SigningInv, ProofsInv, PresentingType, LimiterInv, TypeOK
<1>2. QED
  BY <1>1, TogetherInvariant, MailboxTogether, PTL
=============================================================================
