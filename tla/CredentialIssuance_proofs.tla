---------------------- MODULE CredentialIssuance_proofs ----------------------
(***************************************************************************)
(* The safety properties of CredentialIssuance, and that its relay is a    *)
(* one-time mailbox, for any number of bindings, keys, enrollments and     *)
(* concurrent requests.                                                    *)
(***************************************************************************)
EXTENDS CredentialIssuance, TLAPS

----------------------------------------------------------------------------
(* Types.                                                                  *)

\* What the states of a row and of a request say of their other fields.
ShapeInv ==
    /\ TypeOK
    /\ \A b \in Binding : bindings[b].status = "bound" => bindings[b].key \in Key
    /\ \A b \in Binding : bindings[b].status = "issued" =>
          /\ bindings[b].content \in Enrollment
          /\ enrollments[bindings[b].content] # NoEnrollmentRow
    /\ \A r \in Request : requests[r].pc \in {"hashing", "signing"} =>
          requests[r].commitment \in Commitment
    /\ \A r \in Request : requests[r].pc = "signing" =>
          /\ requests[r].enrollment \in Enrollment
          /\ enrollments[requests[r].enrollment] # NoEnrollmentRow

LEMMA InFlightType ==
    ASSUME TypeOK, NEW r \in Request, requests[r].pc # "idle"
    PROVE  requests[r] \in Issuance
  BY DEF TypeOK, NoRequest

LEMMA FreshBindingType ==
    /\ NoBindingRow \in BindingRow
    /\ [NoBindingRow EXCEPT !.status = "pruned"] \in BindingRow
    /\ \A c \in 0..MaxChallenge :
          [NoBindingRow EXCEPT !.status = "pending", !.challenge = c] \in BindingRow
<1>1. 0 \in 0..MaxChallenge
  BY ConstantsAssumption
<1>2. NoBindingRow \in BindingRow
  BY <1>1 DEF NoBindingRow, BindingRow
<1>3. [NoBindingRow EXCEPT !.status = "pruned"] \in BindingRow
  BY <1>2 DEF BindingRow
<1>4. ASSUME NEW c \in 0..MaxChallenge
      PROVE  [NoBindingRow EXCEPT !.status = "pending", !.challenge = c] \in BindingRow
  BY <1>2 DEF BindingRow
<1>5. QED
  BY <1>2, <1>3, <1>4

\* Pruning deletes rows, and leaves the others as they are.
LEMMA PrunedRows ==
    ASSUME TypeOK
    PROVE  /\ Pruned \in [Binding -> BindingRow]
           /\ \A b \in Binding :
                 \/ Pruned[b] = bindings[b]
                 \/ Stored(b) /\ Pruned[b] = [NoBindingRow EXCEPT !.status = "pruned"]
  BY FreshBindingType DEF TypeOK, Pruned

\* A row keeps its shape when some of its fields are given values of theirs.
LEMMA RowUpdate ==
    ASSUME NEW row \in BindingRow,
           NEW s \in {"pending", "bound", "issued", "collected", "declined", "pruned"},
           NEW e \in Enrollment \cup {NoEnrollment}
    PROVE  /\ [row EXCEPT !.status = s] \in BindingRow
           /\ \A k \in Key : [row EXCEPT !.status = s, !.key = k] \in BindingRow
           /\ [row EXCEPT !.status = s, !.content = e] \in BindingRow
           /\ [row EXCEPT !.status = s, !.content = e, !.overdue = FALSE] \in BindingRow
           /\ [row EXCEPT !.overdue = TRUE] \in BindingRow
  BY DEF BindingRow

\* Every issuance starts by using up a challenge.
LEMMA StartType ==
    ASSUME TypeOK, NEW r \in Request, NEW b \in Binding \cup {NoBinding}, NEW k \in Key,
           StartIssuance(r, b, k)
    PROVE  /\ challenge \in 1..MaxChallenge /\ challenge' \in 0..MaxChallenge
           /\ requests' \in [Request -> Issuance \cup {NoRequest}]
           /\ UNCHANGED <<enrollments, reads, answered>>
<1>1. challenge \in 1..MaxChallenge /\ challenge' \in 0..MaxChallenge
  BY ConstantsAssumption DEF StartIssuance, UseUpChallenge
<1>2. [NoRequest EXCEPT !.pc = "proving", !.challenge = challenge,
                        !.binding = b, !.key = k] \in Issuance
  BY <1>1 DEF NoRequest, Issuance
<1>3. QED
  BY <1>1, <1>2 DEF StartIssuance, TypeOK

LEMMA InitTypeOK == Init => TypeOK
<1>1. 0 \in 0..MaxChallenge
  BY ConstantsAssumption
<1>2. Init => bindings \in [Binding -> BindingRow]
  BY FreshBindingType DEF Init
<1>3. Init => enrollments \in [Enrollment -> EnrollmentRow \cup {NoEnrollmentRow}]
  BY DEF Init
<1>4. Init => requests \in [Request -> Issuance \cup {NoRequest}]
  BY DEF Init
<1>5. Init => reads \in [Binding -> Nat] /\ challenge \in 0..MaxChallenge /\ answered \subseteq Binding
  BY <1>1 DEF Init
<1>6. QED
  BY <1>2, <1>3, <1>4, <1>5 DEF TypeOK

LEMMA NextTypeOK == ShapeInv /\ [Next]_vars => TypeOK'
<1> SUFFICES ASSUME ShapeInv, TypeOK, [Next]_vars PROVE TypeOK'
  BY DEF ShapeInv
<1>a. EnsureChallenge \in 1..MaxChallenge
  BY ConstantsAssumption DEF TypeOK, EnsureChallenge
<1>1. CASE ShowSession
  BY <1>1, <1>a DEF ShowSession, TypeOK
<1>2. ASSUME NEW b \in Binding, CreateBindingRequest(b) PROVE TypeOK'
  <2>1. [NoBindingRow EXCEPT !.status = "pending", !.challenge = EnsureChallenge]
           \in BindingRow
    <3>1. EnsureChallenge \in 0..MaxChallenge
      BY <1>a
    <3>2. QED
      BY <3>1, FreshBindingType
  <2>2. bindings' \in [Binding -> BindingRow]
    BY <1>2, <2>1, PrunedRows DEF CreateBindingRequest
  <2>3. QED
    BY <1>2, <1>a, <2>2 DEF CreateBindingRequest, TypeOK
<1>3. CASE Poll
  BY <1>3, PrunedRows DEF Poll, TypeOK
<1>4. ASSUME NEW b \in Binding, NEW k \in Key, FulfillBindingRequest(b, k) PROVE TypeOK'
  <2>1. Pruned[b] \in BindingRow
    BY PrunedRows
  <2>2. [Pruned[b] EXCEPT !.status = "bound", !.key = k] \in BindingRow
    BY <2>1, RowUpdate
  <2>3. bindings' = [Pruned EXCEPT ![b] = [Pruned[b] EXCEPT !.status = "bound", !.key = k]]
    BY <1>4, PrunedRows DEF FulfillBindingRequest
  <2>4. bindings' \in [Binding -> BindingRow]
    BY <2>2, <2>3, PrunedRows
  <2>5. QED
    BY <1>4, <2>4 DEF FulfillBindingRequest, TypeOK
<1>5. ASSUME NEW b \in Binding, DeclineBindingRequest(b) PROVE TypeOK'
  <2>1. [Pruned[b] EXCEPT !.status = "declined"] \in BindingRow
    BY PrunedRows DEF BindingRow
  <2>2. bindings' = [Pruned EXCEPT ![b] = [Pruned[b] EXCEPT !.status = "declined"]]
    BY <1>5, PrunedRows DEF DeclineBindingRequest
  <2>3. bindings' \in [Binding -> BindingRow]
    BY <2>1, <2>2, PrunedRows
  <2>4. QED
    BY <1>5, <2>3 DEF DeclineBindingRequest, TypeOK
<1>6. ASSUME NEW b \in Binding, CollectCredentials(b) PROVE TypeOK'
  <2>1. Emptied(Pruned[b]) \in BindingRow
    <3>1. Pruned[b] \in BindingRow
      BY PrunedRows
    <3>2. QED
      BY <3>1, RowUpdate DEF Emptied
  <2>2. bindings' \in [Binding -> BindingRow]
    BY <1>6, <2>1, PrunedRows DEF CollectCredentials
  <2>3. QED
    BY <1>6, <2>2 DEF CollectCredentials, TypeOK
<1>7. ASSUME NEW b \in Binding, BindingOverdue(b) PROVE TypeOK'
  BY <1>7 DEF BindingOverdue, TypeOK, BindingRow
<1>8. ASSUME NEW r \in Request, NEW k \in Key, IssueDirectly(r, k) PROVE TypeOK'
  <2>1. StartIssuance(r, NoBinding, k) /\ UNCHANGED bindings
    BY <1>8 DEF IssueDirectly
  <2>2. QED
    BY <2>1, StartType DEF TypeOK
<1>9. CASE RefuseHolderKey
  BY <1>9, ConstantsAssumption DEF RefuseHolderKey, UseUpChallenge, TypeOK
<1>10. ASSUME NEW r \in Request, NEW b \in Binding, IssueThroughWallet(r, b) PROVE TypeOK'
  <2>1. Pruned[b] = bindings[b] /\ bindings[b].key \in Key
    BY <1>10, PrunedRows DEF IssueThroughWallet, Usable, ShapeInv, NoBindingRow
  <2>2. StartIssuance(r, b, bindings[b].key) /\ bindings' = Pruned
    BY <1>10 DEF IssueThroughWallet
  <2>3. QED
    BY <2>1, <2>2, StartType, PrunedRows DEF TypeOK
<1>11. ASSUME NEW r \in Request, FailIssuance(r) PROVE TypeOK'
  BY <1>11 DEF FailIssuance, End, TypeOK
<1>12. ASSUME NEW r \in Request, NEW m \in Commitment, AcceptProofs(r, m) PROVE TypeOK'
  <2>1. requests[r] \in Issuance
    BY <1>12, InFlightType DEF AcceptProofs
  <2>2. [requests[r] EXCEPT !.pc = "hashing", !.commitment = m] \in Issuance
    BY <2>1 DEF Issuance
  <2>3. requests' = [requests EXCEPT ![r] = [requests[r] EXCEPT !.pc = "hashing",
                                                                !.commitment = m]]
    BY <1>12 DEF AcceptProofs, TypeOK
  <2>4. QED
    BY <1>12, <2>2, <2>3 DEF AcceptProofs, TypeOK
<1>13. ASSUME NEW r \in Request, NEW e \in Enrollment, RecordEnrollment(r, e) PROVE TypeOK'
  <2>1. requests[r] \in Issuance /\ requests[r].commitment \in Commitment
    BY <1>13, InFlightType DEF RecordEnrollment, ShapeInv
  <2>2. [requests[r] EXCEPT !.pc = "signing", !.enrollment = e] \in Issuance
    BY <2>1 DEF Issuance
  <2>3. requests' = [requests EXCEPT ![r] = [requests[r] EXCEPT !.pc = "signing",
                                                                !.enrollment = e]]
    BY <1>13 DEF RecordEnrollment, TypeOK
  <2>4. [status |-> "active", commitment |-> requests[r].commitment,
         challenge |-> requests[r].challenge, key |-> requests[r].key] \in EnrollmentRow
    BY <2>1 DEF Issuance, EnrollmentRow
  <2>5. enrollments' \in [Enrollment -> EnrollmentRow \cup {NoEnrollmentRow}]
    BY <1>13, <2>4 DEF RecordEnrollment, TypeOK
  <2>6. QED
    BY <1>13, <2>2, <2>3, <2>5 DEF RecordEnrollment, TypeOK
<1>14. ASSUME NEW r \in Request, DeliverDirectly(r) PROVE TypeOK'
  BY <1>14 DEF DeliverDirectly, End, TypeOK
<1>15. ASSUME NEW r \in Request, DeliverToWallet(r) PROVE TypeOK'
  <2> DEFINE q == requests[r]
  <2>1. q \in Issuance /\ q.binding \in Binding /\ q.enrollment \in Enrollment
    BY <1>15, InFlightType DEF DeliverToWallet, ShapeInv, Issuance
  <2>2. Deposited(bindings[q.binding], q.enrollment) \in BindingRow
    <3>1. bindings[q.binding] \in BindingRow
      BY <2>1 DEF TypeOK
    <3> HIDE DEF q
    <3>2. QED
      BY <2>1, <3>1, RowUpdate DEF Deposited
  <2>3. bindings' = [bindings EXCEPT ![q.binding] = Deposited(bindings[q.binding], q.enrollment)]
    BY <1>15 DEF DeliverToWallet, TypeOK
  <2>4. requests' \in [Request -> Issuance \cup {NoRequest}]
    BY <1>15 DEF DeliverToWallet, End, TypeOK
  <2>5. answered' \subseteq Binding
    BY <1>15, <2>1 DEF DeliverToWallet, TypeOK
  <2> HIDE DEF q
  <2>6. QED
    BY <1>15, <2>1, <2>2, <2>3, <2>4, <2>5 DEF DeliverToWallet, TypeOK
<1>16. ASSUME NEW e \in Enrollment, RevokeEnrollment(e) PROVE TypeOK'
  BY <1>16 DEF RevokeEnrollment, EnrollmentRow, NoEnrollmentRow, TypeOK
<1>17. CASE Crash
  BY <1>17 DEF Crash, TypeOK
<1>18. CASE UNCHANGED vars
  BY <1>18 DEF vars, TypeOK
<1>19. QED
  BY <1>1, <1>2, <1>3, <1>4, <1>5, <1>6, <1>7, <1>8, <1>9, <1>10, <1>11, <1>12,
     <1>13, <1>14, <1>15, <1>16, <1>17, <1>18 DEF Next

----------------------------------------------------------------------------
(* Steps that only concern the relay.                                      *)

RelayStep ==
    \/ ShowSession
    \/ \E b \in Binding : CreateBindingRequest(b)
    \/ Poll
    \/ \E b \in Binding, k \in Key : FulfillBindingRequest(b, k)
    \/ \E b \in Binding : DeclineBindingRequest(b)
    \/ \E b \in Binding : CollectCredentials(b)
    \/ \E b \in Binding : BindingOverdue(b)
    \/ RefuseHolderKey

SameBinding(row, new) ==
    /\ new.status = row.status
    /\ new.challenge = row.challenge
    /\ new.key = row.key
    /\ new.content = row.content

\* What such a step can do to a row.
RelayMove(row, new) ==
    \/ SameBinding(row, new)
    \/ row.status # "none" /\ new.status \in {"pruned", "declined", "collected"}
    \/ row.status = "none" /\ new.status = "pending"
    \/ row.status = "pending" /\ new.status = "bound" /\ new.key \in Key

LEMMA PrunedMoves ==
    ASSUME TypeOK, NEW b \in Binding
    PROVE  /\ RelayMove(bindings[b], Pruned[b])
           /\ Pruned[b].status # "pruned" => Pruned[b] = bindings[b]
  BY PrunedRows DEF RelayMove, SameBinding, Stored, NoBindingRow

LEMMA RelayStepMoves ==
    ASSUME TypeOK, RelayStep
    PROVE  /\ UNCHANGED <<enrollments, requests>>
           /\ challenge' >= challenge
           /\ \A b \in Binding : RelayMove(bindings[b], bindings'[b])
<1> DEFINE Moves == /\ UNCHANGED <<enrollments, requests>>
                    /\ challenge' >= challenge
                    /\ \A c \in Binding : RelayMove(bindings[c], bindings'[c])
<1>a. challenge \in Nat /\ EnsureChallenge \in Nat /\ EnsureChallenge >= challenge
  BY ConstantsAssumption DEF TypeOK, EnsureChallenge
<1>b. \A c \in Binding : bindings' = bindings => RelayMove(bindings[c], bindings'[c])
  BY DEF RelayMove, SameBinding
<1>1. CASE ShowSession
  BY <1>1, <1>a, <1>b DEF ShowSession
<1>2. ASSUME NEW b \in Binding, CreateBindingRequest(b) PROVE Moves
  <2>1. RelayMove(bindings[b], bindings'[b])
    BY <1>2, PrunedRows DEF CreateBindingRequest, RelayMove, NoBindingRow
  <2>2. ASSUME NEW c \in Binding, c # b PROVE bindings'[c] = Pruned[c]
    BY <1>2, <2>2, PrunedRows DEF CreateBindingRequest
  <2>3. QED
    BY <1>2, <1>a, <2>1, <2>2, PrunedMoves DEF CreateBindingRequest
<1>3. CASE Poll
  BY <1>3, <1>a, PrunedMoves DEF Poll
<1>4. ASSUME NEW b \in Binding, NEW k \in Key, FulfillBindingRequest(b, k) PROVE Moves
  <2>1. Pruned[b] = bindings[b] /\ Pruned[b] \in BindingRow
    BY <1>4, PrunedRows, PrunedMoves DEF FulfillBindingRequest, Fulfillable
  <2>2. bindings'[b].status = "bound" /\ bindings'[b].key = k
    BY <1>4, <2>1, PrunedRows DEF FulfillBindingRequest, BindingRow
  <2>3. ASSUME NEW c \in Binding, c # b PROVE bindings'[c] = Pruned[c]
    BY <1>4, <2>3, PrunedRows DEF FulfillBindingRequest
  <2>4. RelayMove(bindings[b], bindings'[b])
    BY <1>4, <2>1, <2>2 DEF FulfillBindingRequest, Fulfillable, RelayMove
  <2>5. \A c \in Binding : RelayMove(bindings[c], bindings'[c])
    BY <2>3, <2>4, PrunedMoves
  <2>6. UNCHANGED <<challenge, enrollments, requests>>
    BY <1>4 DEF FulfillBindingRequest
  <2>7. QED
    BY <1>a, <2>5, <2>6
<1>5. ASSUME NEW b \in Binding, DeclineBindingRequest(b) PROVE Moves
  <2>1. Pruned[b] = bindings[b] /\ Pruned[b] \in BindingRow
    BY <1>5, PrunedRows, PrunedMoves DEF DeclineBindingRequest
  <2>2. bindings'[b].status = "declined"
    BY <1>5, <2>1, PrunedRows DEF DeclineBindingRequest, BindingRow
  <2>3. ASSUME NEW c \in Binding, c # b PROVE bindings'[c] = Pruned[c]
    BY <1>5, <2>3, PrunedRows DEF DeclineBindingRequest
  <2>4. RelayMove(bindings[b], bindings'[b])
    BY <1>5, <2>1, <2>2 DEF DeclineBindingRequest, RelayMove
  <2>5. \A c \in Binding : RelayMove(bindings[c], bindings'[c])
    BY <2>3, <2>4, PrunedMoves
  <2>6. UNCHANGED <<challenge, enrollments, requests>>
    BY <1>5 DEF DeclineBindingRequest
  <2>7. QED
    BY <1>a, <2>5, <2>6
<1>6. ASSUME NEW b \in Binding, CollectCredentials(b) PROVE Moves
  <2>1. Pruned[b] = bindings[b] /\ Pruned[b] \in BindingRow
    BY <1>6, PrunedRows, PrunedMoves DEF CollectCredentials
  <2>2. bindings'[b].status = "collected"
    BY <1>6, <2>1, PrunedRows DEF CollectCredentials, Emptied, BindingRow
  <2>3. ASSUME NEW c \in Binding, c # b PROVE bindings'[c] = Pruned[c]
    BY <1>6, <2>3, PrunedRows DEF CollectCredentials
  <2>4. RelayMove(bindings[b], bindings'[b])
    BY <1>6, <2>1, <2>2 DEF CollectCredentials, RelayMove
  <2>5. \A c \in Binding : RelayMove(bindings[c], bindings'[c])
    BY <2>3, <2>4, PrunedMoves
  <2>6. UNCHANGED <<challenge, enrollments, requests>>
    BY <1>6 DEF CollectCredentials
  <2>7. QED
    BY <1>a, <2>5, <2>6
<1>7. ASSUME NEW b \in Binding, BindingOverdue(b) PROVE Moves
  <2>1. ASSUME NEW c \in Binding PROVE SameBinding(bindings[c], bindings'[c])
    BY <1>7 DEF BindingOverdue, SameBinding, TypeOK, BindingRow
  <2>2. \A c \in Binding : RelayMove(bindings[c], bindings'[c])
    BY <2>1 DEF RelayMove
  <2>3. UNCHANGED <<challenge, enrollments, requests>>
    BY <1>7 DEF BindingOverdue
  <2>4. QED
    BY <1>a, <2>2, <2>3
<1>8. CASE RefuseHolderKey
  BY <1>8, <1>a, <1>b, ConstantsAssumption DEF RefuseHolderKey, UseUpChallenge
<1>9. QED
  BY <1>1, <1>2, <1>3, <1>4, <1>5, <1>6, <1>7, <1>8 DEF RelayStep

----------------------------------------------------------------------------
(* The inductive invariant.                                                *)

\* A request in flight carries a challenge that is used up, and its own.
ChallengeInv ==
    /\ ChallengeUsedOnce
    /\ \A r \in Request : requests[r].pc # "idle" => requests[r].challenge < challenge
    /\ \A r, s \in Request :
          r # s /\ requests[r].pc # "idle" /\ requests[s].pc # "idle" =>
              requests[r].challenge # requests[s].challenge

\* A request stands for the enrollment it recorded, and for the key and the
\* challenge of the binding it uses as long as that one is bound.
WalletInv ==
    /\ MailboxHoldsOwnKey
    /\ \A r \in Request : requests[r].pc = "signing" =>
          LET e == enrollments[requests[r].enrollment] IN
          e.key = requests[r].key /\ e.challenge = requests[r].challenge
    /\ \A r \in Request :
          requests[r].pc # "idle" /\ requests[r].binding # NoBinding =>
              LET row == bindings[requests[r].binding] IN
              /\ row.status \notin {"none", "pending"}
              /\ row.status = "bound" =>
                     row.key = requests[r].key /\ row.challenge = requests[r].challenge

IInv ==
    /\ ShapeInv
    /\ ChallengeInv
    /\ WalletInv
    /\ OneActivePerCommitment

LEMMA InitIInv == Init => IInv
<1> SUFFICES ASSUME Init PROVE IInv
  OBVIOUS
<1>1. ShapeInv
  BY InitTypeOK DEF Init, ShapeInv, NoBindingRow, NoRequest
<1>2. ChallengeInv
  BY DEF Init, ChallengeInv, ChallengeUsedOnce, NoRequest, NoEnrollmentRow
<1>3. WalletInv
  BY DEF Init, WalletInv, MailboxHoldsOwnKey, NoBindingRow, NoRequest
<1>4. OneActivePerCommitment
  BY DEF Init, OneActivePerCommitment, NoEnrollmentRow
<1>5. QED
  BY <1>1, <1>2, <1>3, <1>4 DEF IInv

LEMMA RelayStepIInv ==
    ASSUME IInv, TypeOK', RelayStep
    PROVE  IInv'
<1> USE DEF IInv, ShapeInv
<1>1. /\ UNCHANGED <<enrollments, requests>>
      /\ challenge' >= challenge
      /\ \A b \in Binding : RelayMove(bindings[b], bindings'[b])
  BY RelayStepMoves
<1>2. ShapeInv'
  BY <1>1 DEF RelayMove, SameBinding
<1>3. challenge \in Nat /\ challenge' \in Nat
  BY DEF TypeOK
<1>4. \A r \in Request : requests[r].challenge \in Nat
  BY ConstantsAssumption DEF TypeOK, Issuance, NoRequest
<1>5. \A e \in Enrollment : enrollments[e].challenge \in Nat
  BY DEF TypeOK, EnrollmentRow, NoEnrollmentRow
<1>6. ChallengeInv'
  BY <1>1, <1>3, <1>4, <1>5 DEF ChallengeInv, ChallengeUsedOnce
<1>7. MailboxHoldsOwnKey'
  BY <1>1 DEF WalletInv, MailboxHoldsOwnKey, RelayMove, SameBinding
<1>8. ASSUME NEW r \in Request, requests[r].pc # "idle", requests[r].binding # NoBinding
      PROVE  LET row == bindings'[requests[r].binding] IN
             /\ row.status \notin {"none", "pending"}
             /\ row.status = "bound" =>
                    row.key = requests[r].key /\ row.challenge = requests[r].challenge
  <2>1. requests[r].binding \in Binding
    BY <1>8, InFlightType DEF Issuance
  <2>2. QED
    BY <1>1, <1>8, <2>1 DEF WalletInv, RelayMove, SameBinding
<1>9. WalletInv'
  BY <1>1, <1>7, <1>8 DEF WalletInv
<1>10. OneActivePerCommitment'
  BY <1>1 DEF OneActivePerCommitment
<1>11. QED
  BY <1>2, <1>6, <1>9, <1>10

\* Requests end, and nothing else happens.
LEMMA EndIInv ==
    ASSUME IInv, TypeOK', UNCHANGED <<challenge, bindings, enrollments>>,
           \A r \in Request : requests'[r] \in {requests[r], NoRequest}
    PROVE  IInv'
<1> USE DEF IInv
<1>1. ShapeInv'
  BY DEF ShapeInv, NoRequest
<1>2. ChallengeInv'
  BY DEF ChallengeInv, ChallengeUsedOnce, NoRequest
<1>3. WalletInv'
  BY DEF WalletInv, MailboxHoldsOwnKey, NoRequest
<1>4. OneActivePerCommitment'
  BY DEF OneActivePerCommitment
<1>5. QED
  BY <1>1, <1>2, <1>3, <1>4

\* A request starts with the current challenge, which it uses up.
LEMMA StartIInv ==
    ASSUME IInv, TypeOK', NEW r \in Request, NEW b \in Binding \cup {NoBinding},
           NEW k \in Key, StartIssuance(r, b, k),
           bindings' = bindings \/ bindings' = Pruned,
           b # NoBinding => /\ bindings'[b].status = "bound"
                            /\ bindings'[b].key = k
                            /\ bindings'[b].challenge = challenge
    PROVE  IInv'
<1> USE DEF IInv, ShapeInv
<1>1. /\ challenge \in Nat \ {0} /\ challenge' = challenge + 1
      /\ UNCHANGED enrollments
      /\ requests[r] = NoRequest
  BY DEF StartIssuance, UseUpChallenge
<1>2. /\ \A s \in Request : s # r => requests'[s] = requests[s]
      /\ requests'[r].pc = "proving" /\ requests'[r].challenge = challenge
      /\ requests'[r].binding = b /\ requests'[r].key = k
  BY DEF StartIssuance, TypeOK, NoRequest
<1>3. \A c \in Binding : RelayMove(bindings[c], bindings'[c])
  BY PrunedMoves DEF RelayMove, SameBinding
<1>4. \A c \in Binding : bindings'[c].status = "pruned" \/ bindings'[c] = bindings[c]
  BY PrunedRows DEF NoBindingRow, TypeOK, BindingRow
<1>5. ShapeInv'
  BY <1>1, <1>2, <1>4
<1>6. \A s \in Request : requests[s].challenge \in Nat
  BY ConstantsAssumption DEF TypeOK, Issuance, NoRequest
<1>7. \A e \in Enrollment : enrollments[e].challenge \in Nat
  BY DEF TypeOK, EnrollmentRow, NoEnrollmentRow
<1>8. ChallengeUsedOnce'
  BY <1>1, <1>2, <1>6, <1>7 DEF ChallengeInv, ChallengeUsedOnce
<1>9. ChallengeInv'
  BY <1>1, <1>2, <1>6, <1>8 DEF ChallengeInv
<1>10. MailboxHoldsOwnKey'
  BY <1>1, <1>4 DEF WalletInv, MailboxHoldsOwnKey
<1>11. ASSUME NEW s \in Request, requests'[s].pc # "idle", requests'[s].binding # NoBinding
       PROVE  LET row == bindings'[requests'[s].binding] IN
              /\ row.status \notin {"none", "pending"}
              /\ row.status = "bound" =>
                     row.key = requests'[s].key /\ row.challenge = requests'[s].challenge
  <2>1. CASE s = r
    BY <1>2, <1>11, <2>1
  <2>2. CASE s # r
    <3>1. requests'[s] = requests[s] /\ requests[s].binding \in Binding
      BY <1>2, <1>11, <2>2, InFlightType DEF Issuance
    <3>2. QED
      BY <1>4, <1>11, <3>1 DEF WalletInv
  <2>3. QED
    BY <2>1, <2>2
<1>12. WalletInv'
  BY <1>1, <1>2, <1>10, <1>11 DEF WalletInv
<1>13. OneActivePerCommitment'
  BY <1>1 DEF OneActivePerCommitment
<1>14. QED
  BY <1>5, <1>9, <1>12, <1>13

LEMMA AcceptProofsIInv ==
    ASSUME IInv, TypeOK', NEW r \in Request, NEW m \in Commitment, AcceptProofs(r, m)
    PROVE  IInv'
<1> USE DEF IInv, ShapeInv
<1>1. /\ UNCHANGED <<challenge, bindings, enrollments>>
      /\ requests[r].pc = "proving"
  BY DEF AcceptProofs
<1>2. requests[r] \in Issuance
  BY <1>1, InFlightType
<1>3. /\ \A s \in Request : s # r => requests'[s] = requests[s]
      /\ requests'[r].pc = "hashing" /\ requests'[r].commitment = m
      /\ requests'[r].challenge = requests[r].challenge
      /\ requests'[r].binding = requests[r].binding
      /\ requests'[r].key = requests[r].key
  BY <1>2 DEF AcceptProofs, TypeOK, Issuance
<1>4. ShapeInv'
  BY <1>1, <1>3
<1>5. ChallengeInv'
  BY <1>1, <1>3 DEF ChallengeInv, ChallengeUsedOnce
<1>6. WalletInv'
  BY <1>1, <1>3 DEF WalletInv, MailboxHoldsOwnKey
<1>7. OneActivePerCommitment'
  BY <1>1 DEF OneActivePerCommitment
<1>8. QED
  BY <1>4, <1>5, <1>6, <1>7

LEMMA RecordEnrollmentIInv ==
    ASSUME IInv, TypeOK', NEW r \in Request, NEW e \in Enrollment, RecordEnrollment(r, e)
    PROVE  IInv'
<1> USE DEF IInv, ShapeInv
<1>1. /\ UNCHANGED <<challenge, bindings>>
      /\ requests[r].pc = "hashing"
      /\ enrollments[e] = NoEnrollmentRow
      /\ ~Registered(requests[r].commitment)
  BY DEF RecordEnrollment, Insertable
<1>2. requests[r] \in Issuance /\ requests[r].challenge \in Nat \ {0}
  BY <1>1, InFlightType, ConstantsAssumption DEF Issuance
<1>3. /\ \A s \in Request : s # r => requests'[s] = requests[s]
      /\ requests'[r].pc = "signing" /\ requests'[r].enrollment = e
      /\ requests'[r].commitment = requests[r].commitment
      /\ requests'[r].challenge = requests[r].challenge
      /\ requests'[r].binding = requests[r].binding
      /\ requests'[r].key = requests[r].key
  BY <1>2 DEF RecordEnrollment, TypeOK, Issuance
<1>4. /\ \A d \in Enrollment : d # e => enrollments'[d] = enrollments[d]
      /\ enrollments'[e].status = "active"
      /\ enrollments'[e].commitment = requests[r].commitment
      /\ enrollments'[e].challenge = requests[r].challenge
      /\ enrollments'[e].key = requests[r].key
  BY DEF RecordEnrollment, TypeOK
<1>5. ShapeInv'
  BY <1>1, <1>3, <1>4 DEF NoEnrollmentRow
<1>6. ChallengeUsedOnce'
  BY <1>1, <1>2, <1>3, <1>4 DEF ChallengeInv, ChallengeUsedOnce
<1>7. ChallengeInv'
  BY <1>1, <1>3, <1>6 DEF ChallengeInv
<1>8. MailboxHoldsOwnKey'
  BY <1>1, <1>4 DEF WalletInv, MailboxHoldsOwnKey
<1>9. ASSUME NEW s \in Request, requests'[s].pc = "signing"
      PROVE  LET d == enrollments'[requests'[s].enrollment] IN
             d.key = requests'[s].key /\ d.challenge = requests'[s].challenge
  BY <1>1, <1>3, <1>4, <1>9 DEF WalletInv
<1>10. WalletInv'
  BY <1>1, <1>3, <1>8, <1>9 DEF WalletInv
<1>11. OneActivePerCommitment'
  BY <1>1, <1>4 DEF OneActivePerCommitment, Registered
<1>12. QED
  BY <1>5, <1>7, <1>10, <1>11

LEMMA DeliverToWalletIInv ==
    ASSUME IInv, TypeOK', NEW r \in Request, DeliverToWallet(r)
    PROVE  IInv'
<1> USE DEF IInv, ShapeInv
<1> DEFINE c == requests[r].binding
           e == requests[r].enrollment
<1>1. /\ UNCHANGED <<challenge, enrollments>>
      /\ requests[r].pc = "signing" /\ c # NoBinding
      /\ requests' = [requests EXCEPT ![r] = NoRequest]
  BY DEF DeliverToWallet, End
<1>2. c \in Binding /\ e \in Enrollment /\ enrollments[e] # NoEnrollmentRow
  BY <1>1, InFlightType DEF Issuance
<1>3. \A b \in Binding : b # c => bindings'[b] = bindings[b]
  BY DEF DeliverToWallet, TypeOK
<1>4. \/ bindings'[c] = bindings[c]
      \/ /\ bindings[c].status = "bound" /\ bindings'[c].status = "issued"
         /\ bindings'[c].content = e
         /\ bindings'[c].key = bindings[c].key
         /\ bindings'[c].challenge = bindings[c].challenge
  BY <1>2 DEF DeliverToWallet, Deposited, TypeOK, BindingRow
<1>5. \A s \in Request : requests'[s] \in {requests[s], NoRequest}
  BY <1>1 DEF TypeOK
<1> HIDE DEF c, e
<1>6. ShapeInv'
  BY <1>1, <1>2, <1>3, <1>4, <1>5 DEF NoRequest
<1>7. ChallengeInv'
  BY <1>1, <1>5 DEF ChallengeInv, ChallengeUsedOnce, NoRequest
<1>8. bindings[c].status = "bound" =>
          /\ enrollments[e].key = bindings[c].key
          /\ enrollments[e].challenge = bindings[c].challenge
  BY <1>1, <1>2 DEF WalletInv, c, e
<1>9. MailboxHoldsOwnKey'
  BY <1>1, <1>2, <1>3, <1>4, <1>8 DEF WalletInv, MailboxHoldsOwnKey
<1>10. ASSUME NEW s \in Request, requests'[s].pc # "idle", requests'[s].binding # NoBinding
       PROVE  LET row == bindings'[requests'[s].binding] IN
              /\ row.status \notin {"none", "pending"}
              /\ row.status = "bound" =>
                     row.key = requests'[s].key /\ row.challenge = requests'[s].challenge
  <2>1. requests'[s] = requests[s] /\ requests[s].binding \in Binding
    BY <1>5, <1>10, InFlightType DEF NoRequest, Issuance
  <2>2. QED
    BY <1>3, <1>4, <1>10, <2>1 DEF WalletInv
<1>11. WalletInv'
  BY <1>1, <1>5, <1>9, <1>10 DEF WalletInv, NoRequest
<1>12. OneActivePerCommitment'
  BY <1>1 DEF OneActivePerCommitment
<1>13. QED
  BY <1>6, <1>7, <1>11, <1>12

LEMMA RevokeEnrollmentIInv ==
    ASSUME IInv, TypeOK', NEW e \in Enrollment, RevokeEnrollment(e)
    PROVE  IInv'
<1> USE DEF IInv, ShapeInv
<1>1. UNCHANGED <<challenge, bindings, requests>>
  BY DEF RevokeEnrollment
<1>2. \A d \in Enrollment :
          /\ enrollments'[d].key = enrollments[d].key
          /\ enrollments'[d].challenge = enrollments[d].challenge
          /\ enrollments'[d].commitment = enrollments[d].commitment
          /\ enrollments'[d].status = "active" => enrollments[d].status = "active"
          /\ enrollments[d] # NoEnrollmentRow => enrollments'[d] # NoEnrollmentRow
  BY DEF RevokeEnrollment, TypeOK, EnrollmentRow, NoEnrollmentRow
<1>3. ShapeInv'
  BY <1>1, <1>2
<1>4. ChallengeInv'
  BY <1>1, <1>2 DEF ChallengeInv, ChallengeUsedOnce
<1>5. WalletInv'
  BY <1>1, <1>2 DEF WalletInv, MailboxHoldsOwnKey
<1>6. OneActivePerCommitment'
  BY <1>2 DEF OneActivePerCommitment
<1>7. QED
  BY <1>3, <1>4, <1>5, <1>6

LEMMA NextIInv == IInv /\ [Next]_vars => IInv'
<1> SUFFICES ASSUME IInv, [Next]_vars PROVE IInv'
  OBVIOUS
<1>0. TypeOK' /\ TypeOK /\ ShapeInv
  BY NextTypeOK DEF IInv, ShapeInv
<1>1. CASE RelayStep
  BY <1>0, <1>1, RelayStepIInv
<1>2. ASSUME NEW r \in Request, NEW k \in Key, IssueDirectly(r, k) PROVE IInv'
  <2>1. StartIssuance(r, NoBinding, k) /\ bindings' = bindings
    BY <1>2 DEF IssueDirectly
  <2>2. QED
    BY <1>0, <2>1, StartIInv
<1>3. ASSUME NEW r \in Request, NEW b \in Binding, IssueThroughWallet(r, b) PROVE IInv'
  <2>1. /\ StartIssuance(r, b, bindings[b].key)
        /\ bindings' = Pruned
        /\ Pruned[b].status = "bound" /\ bindings[b].challenge = challenge
    BY <1>3 DEF IssueThroughWallet, Usable
  <2>2. Pruned[b] = bindings[b]
    BY <1>0, <2>1, PrunedMoves
  <2>3. bindings[b].key \in Key
    BY <1>0, <2>1, <2>2 DEF ShapeInv
  <2>4. QED
    BY <1>0, <2>1, <2>2, <2>3, StartIInv
<1>4. ASSUME NEW r \in Request, FailIssuance(r) PROVE IInv'
  BY <1>0, <1>4, EndIInv DEF FailIssuance, End, TypeOK
<1>5. ASSUME NEW r \in Request, NEW m \in Commitment, AcceptProofs(r, m) PROVE IInv'
  BY <1>0, <1>5, AcceptProofsIInv
<1>6. ASSUME NEW r \in Request, NEW e \in Enrollment, RecordEnrollment(r, e) PROVE IInv'
  BY <1>0, <1>6, RecordEnrollmentIInv
<1>7. ASSUME NEW r \in Request, DeliverDirectly(r) PROVE IInv'
  BY <1>0, <1>7, EndIInv DEF DeliverDirectly, End, TypeOK
<1>8. ASSUME NEW r \in Request, DeliverToWallet(r) PROVE IInv'
  BY <1>0, <1>8, DeliverToWalletIInv
<1>9. ASSUME NEW e \in Enrollment, RevokeEnrollment(e) PROVE IInv'
  BY <1>0, <1>9, RevokeEnrollmentIInv
<1>10. CASE Crash
  BY <1>0, <1>10, EndIInv DEF Crash
<1>11. CASE UNCHANGED vars
  BY <1>0, <1>11, EndIInv DEF vars
<1>12. QED
  BY <1>1, <1>2, <1>3, <1>4, <1>5, <1>6, <1>7, <1>8, <1>9, <1>10, <1>11
     DEF Next, RelayStep

----------------------------------------------------------------------------
(* The relay is a one-time mailbox.                                        *)

StatusMoves == {<<"none", "pending">>, <<"pending", "bound">>, <<"pending", "declined">>,
                <<"bound", "declined">>, <<"bound", "issued">>}

\* What a step can do to the status of a row, and to the count of its reads.
MailMove(b) ==
    LET from == bindings[b].status
        to == bindings'[b].status
    IN  \/ /\ \/ from = to
              \/ <<from, to>> \in StatusMoves
              \/ from # "none" /\ to = "pruned"
           /\ reads'[b] = reads[b]
        \/ /\ from = "issued" /\ to = "collected"
           /\ reads'[b] = reads[b] + 1

LEMMA MailMoveIsSlotStep ==
    ASSUME TypeOK, TypeOK', NEW b \in Binding, MailMove(b)
    PROVE  Mailbox!SlotStep(b)
<1>1. bindings[b] \in BindingRow /\ bindings'[b] \in BindingRow
  BY DEF TypeOK
<1>2. /\ bindings[b].status \in {"none", "pending", "bound", "issued", "collected",
                                 "declined", "pruned"}
      /\ bindings'[b].status \in {"none", "pending", "bound", "issued", "collected",
                                  "declined", "pruned"}
  BY <1>1 DEF BindingRow
<1>3. QED
  BY <1>2 DEF MailMove, StatusMoves, Box, Mailbox!SlotStep, Mailbox!Moves

LEMMA SameMail ==
    ASSUME UNCHANGED <<bindings, reads>>
    PROVE  \A b \in Binding : MailMove(b)
  BY DEF MailMove

LEMMA PrunedMail ==
    ASSUME TypeOK, NEW b \in Binding, bindings'[b] = Pruned[b], reads'[b] = reads[b]
    PROVE  MailMove(b)
  BY PrunedRows DEF MailMove, Stored, NoBindingRow

LEMMA NextMail == IInv /\ [Next]_vars => \A b \in Binding : MailMove(b)
<1> SUFFICES ASSUME IInv, TypeOK, [Next]_vars PROVE \A c \in Binding : MailMove(c)
  BY DEF IInv, ShapeInv
<1>1. ASSUME NEW b \in Binding, CreateBindingRequest(b), NEW c \in Binding
      PROVE  MailMove(c)
  <2>1. CASE c = b
    BY <1>1, <2>1, PrunedRows DEF CreateBindingRequest, MailMove, StatusMoves, NoBindingRow
  <2>2. CASE c # b
    BY <1>1, <2>2, PrunedRows, PrunedMail DEF CreateBindingRequest
  <2>3. QED
    BY <2>1, <2>2
<1>2. ASSUME Poll, NEW c \in Binding PROVE MailMove(c)
  BY <1>2, PrunedMail DEF Poll
<1>3. ASSUME NEW b \in Binding, NEW k \in Key, FulfillBindingRequest(b, k), NEW c \in Binding
      PROVE  MailMove(c)
  <2>1. Pruned[b] = bindings[b] /\ bindings[b].status = "pending" /\ Pruned[b] \in BindingRow
    BY <1>3, PrunedRows, PrunedMoves DEF FulfillBindingRequest, Fulfillable
  <2>2. reads'[c] = reads[c]
    BY <1>3 DEF FulfillBindingRequest
  <2>3. CASE c = b
    <3>1. bindings'[b].status = "bound"
      BY <1>3, <2>1, PrunedRows DEF FulfillBindingRequest, BindingRow
    <3>2. QED
      BY <2>1, <2>2, <2>3, <3>1 DEF MailMove, StatusMoves
  <2>4. CASE c # b
    BY <1>3, <2>2, <2>4, PrunedRows, PrunedMail DEF FulfillBindingRequest
  <2>5. QED
    BY <2>3, <2>4
<1>4. ASSUME NEW b \in Binding, DeclineBindingRequest(b), NEW c \in Binding
      PROVE  MailMove(c)
  <2>1. /\ Pruned[b] = bindings[b] /\ bindings[b].status \in {"pending", "bound"}
        /\ Pruned[b] \in BindingRow
    BY <1>4, PrunedRows, PrunedMoves DEF DeclineBindingRequest
  <2>2. reads'[c] = reads[c]
    BY <1>4 DEF DeclineBindingRequest
  <2>3. CASE c = b
    <3>1. bindings'[b].status = "declined"
      BY <1>4, <2>1, PrunedRows DEF DeclineBindingRequest, BindingRow
    <3>2. QED
      BY <2>1, <2>2, <2>3, <3>1 DEF MailMove, StatusMoves
  <2>4. CASE c # b
    BY <1>4, <2>2, <2>4, PrunedRows, PrunedMail DEF DeclineBindingRequest
  <2>5. QED
    BY <2>3, <2>4
<1>5. ASSUME NEW b \in Binding, CollectCredentials(b), NEW c \in Binding
      PROVE  MailMove(c)
  <2>1. Pruned[b] = bindings[b] /\ bindings[b].status = "issued" /\ Pruned[b] \in BindingRow
    BY <1>5, PrunedRows, PrunedMoves DEF CollectCredentials
  <2>2. reads' = [reads EXCEPT ![b] = reads[b] + 1]
    BY <1>5 DEF CollectCredentials
  <2>3. CASE c = b
    <3>1. bindings'[b].status = "collected"
      BY <1>5, <2>1, PrunedRows DEF CollectCredentials, Emptied, BindingRow
    <3>2. reads'[b] = reads[b] + 1
      BY <2>2 DEF TypeOK
    <3>3. QED
      BY <2>1, <2>3, <3>1, <3>2 DEF MailMove
  <2>4. CASE c # b
    <3>1. reads'[c] = reads[c]
      BY <2>2, <2>4 DEF TypeOK
    <3>2. QED
      BY <1>5, <2>4, <3>1, PrunedRows, PrunedMail DEF CollectCredentials
  <2>5. QED
    BY <2>3, <2>4
<1>6. ASSUME NEW b \in Binding, BindingOverdue(b), NEW c \in Binding
      PROVE  MailMove(c)
  <2>1. bindings'[c].status = bindings[c].status
    BY <1>6 DEF BindingOverdue, TypeOK, BindingRow
  <2>2. QED
    BY <1>6, <2>1 DEF BindingOverdue, MailMove
<1>7. ASSUME NEW r \in Request, NEW b \in Binding, IssueThroughWallet(r, b), NEW c \in Binding
      PROVE  MailMove(c)
  BY <1>7, PrunedMail DEF IssueThroughWallet, StartIssuance
<1>8. ASSUME NEW r \in Request, DeliverToWallet(r), NEW c \in Binding
      PROVE  MailMove(c)
  <2>1. reads'[c] = reads[c]
    BY <1>8 DEF DeliverToWallet
  <2>2. \/ bindings'[c] = bindings[c]
        \/ bindings[c].status = "bound" /\ bindings'[c].status = "issued"
    BY <1>8 DEF DeliverToWallet, Deposited, TypeOK, BindingRow
  <2>3. QED
    BY <2>1, <2>2 DEF MailMove, StatusMoves
<1>9. CASE ShowSession
  BY <1>9, SameMail DEF ShowSession
<1>10. CASE RefuseHolderKey
  BY <1>10, SameMail DEF RefuseHolderKey
<1>11. ASSUME NEW r \in Request, NEW k \in Key, IssueDirectly(r, k)
       PROVE  UNCHANGED <<bindings, reads>>
  BY <1>11 DEF IssueDirectly, StartIssuance
<1>12. ASSUME NEW r \in Request,
              \/ FailIssuance(r)
              \/ DeliverDirectly(r)
              \/ \E m \in Commitment : AcceptProofs(r, m)
              \/ \E e \in Enrollment : RecordEnrollment(r, e)
       PROVE  UNCHANGED <<bindings, reads>>
  BY <1>12 DEF FailIssuance, DeliverDirectly, AcceptProofs, RecordEnrollment
<1>13. ASSUME NEW e \in Enrollment, RevokeEnrollment(e) PROVE UNCHANGED <<bindings, reads>>
  BY <1>13 DEF RevokeEnrollment
<1>14. CASE Crash \/ UNCHANGED vars
  BY <1>14, SameMail DEF Crash, vars
<1>15. QED
  BY <1>1, <1>2, <1>3, <1>4, <1>5, <1>6, <1>7, <1>8, <1>9, <1>10, <1>11, <1>12,
     <1>13, <1>14, SameMail DEF Next

LEMMA StepRefines ==
    ASSUME IInv, IInv', [Next]_vars
    PROVE  Mailbox!Next
<1>1. TypeOK /\ TypeOK' /\ \A b \in Binding : MailMove(b)
  BY NextMail DEF IInv, ShapeInv
<1>2. \A b \in Binding : Mailbox!SlotStep(b)
  BY <1>1, MailMoveIsSlotStep
<1>3. reads' \in [Binding -> Nat]
  BY <1>1 DEF TypeOK
<1>4. Box' \in [Binding -> Mailbox!SlotState]
  BY DEF Box, Mailbox!SlotState
<1>5. QED
  BY <1>2, <1>3, <1>4 DEF Mailbox!Next

----------------------------------------------------------------------------
(* What becomes of credentials that were answered as delivered.            *)

\* A binding in use is used by one issuance, and nothing was deposited in it.
BindingsInv ==
    \A r \in Request : requests[r].pc # "idle" /\ requests[r].binding # NoBinding =>
        /\ bindings[requests[r].binding].status \in {"bound", "declined", "pruned"}
        /\ \A s \in Request : s # r /\ requests[s].pc # "idle" =>
              requests[s].binding # requests[r].binding

\* A deposit reached its mailbox, unless the wallet had declined or the row was
\* pruned while the issuance awaited.
Delivers == \A b \in answered' \ answered :
                bindings'[b].status \in {"issued", "declined", "pruned"}

\* Every issuance answered as delivered ended in one of these ways.
AnsweredEnds == \A b \in answered :
                    bindings[b].status \in {"issued", "collected", "declined", "pruned"}

\* Requests go on or end, and bindings in use are not answered.
LEMMA BindingsKeep ==
    ASSUME IInv, BindingsInv,
           \A r \in Request : \/ requests'[r].pc = "idle"
                              \/ /\ requests[r].pc # "idle"
                                 /\ requests'[r].binding = requests[r].binding,
           \A b \in Binding : \/ bindings'[b].status = bindings[b].status
                              \/ bindings'[b].status \in {"declined", "pruned"}
                              \/ bindings[b].status \notin {"bound", "declined", "pruned"}
    PROVE  BindingsInv'
<1> SUFFICES ASSUME NEW r \in Request, requests'[r].pc # "idle",
                    requests'[r].binding # NoBinding
             PROVE  /\ bindings'[requests'[r].binding].status \in {"bound", "declined", "pruned"}
                    /\ \A s \in Request : s # r /\ requests'[s].pc # "idle" =>
                          requests'[s].binding # requests'[r].binding
  BY DEF BindingsInv
<1>1. /\ requests[r].pc # "idle" /\ requests[r].binding \in Binding
      /\ requests'[r].binding = requests[r].binding
  BY InFlightType DEF IInv, ShapeInv, Issuance
<1>2. bindings'[requests'[r].binding].status \in {"bound", "declined", "pruned"}
  BY <1>1 DEF BindingsInv
<1>3. \A s \in Request : s # r /\ requests'[s].pc # "idle" =>
          requests'[s].binding # requests'[r].binding
  BY <1>1 DEF BindingsInv
<1>4. QED
  BY <1>2, <1>3

\* The binding a request starts with is in no other request: it was made for
\* the challenge that is presented, and every request used one up already.
LEMMA BindingsStart ==
    ASSUME IInv, BindingsInv, NEW r \in Request, NEW c \in Binding, IssueThroughWallet(r, c)
    PROVE  BindingsInv'
<1> USE DEF IInv, ShapeInv
<1>1. /\ Pruned[c] = bindings[c] /\ bindings[c].status = "bound"
      /\ bindings[c].challenge = challenge /\ bindings' = Pruned
      /\ requests[r] = NoRequest /\ challenge \in Nat
  BY PrunedMoves DEF IssueThroughWallet, Usable, StartIssuance, UseUpChallenge
<1>2. /\ \A s \in Request : s # r => requests'[s] = requests[s]
      /\ requests'[r].pc = "proving" /\ requests'[r].binding = c
  BY DEF IssueThroughWallet, StartIssuance, TypeOK, NoRequest
<1>3. \A s \in Request : requests[s].pc # "idle" => requests[s].binding # c
  <2>1. ASSUME NEW s \in Request, requests[s].pc # "idle", requests[s].binding = c
        PROVE  FALSE
    <3>1. c # NoBinding /\ requests[s].challenge \in Nat
      BY <2>1, InFlightType, ConstantsAssumption DEF Issuance
    <3>2. requests[s].challenge < challenge
      BY <2>1 DEF ChallengeInv
    <3>3. requests[s].challenge = challenge
      BY <1>1, <2>1, <3>1 DEF WalletInv
    <3>4. QED
      BY <1>1, <3>1, <3>2, <3>3
  <2>2. QED
    BY <2>1
<1>4. \A b \in Binding : bindings'[b] = bindings[b] \/ bindings'[b].status = "pruned"
  BY <1>1, PrunedMoves
<1>5. \A s \in Request : requests[s].pc # "idle" /\ requests[s].binding # NoBinding =>
          requests[s].binding \in Binding
  BY InFlightType DEF Issuance
<1>6. ASSUME NEW s \in Request, requests'[s].pc # "idle", requests'[s].binding # NoBinding
      PROVE  /\ bindings'[requests'[s].binding].status \in {"bound", "declined", "pruned"}
             /\ \A q \in Request : q # s /\ requests'[q].pc # "idle" =>
                   requests'[q].binding # requests'[s].binding
  <2>1. CASE s = r
    BY <1>1, <1>2, <1>3, <2>1
  <2>2. CASE s # r
    BY <1>2, <1>3, <1>4, <1>5, <1>6, <2>2 DEF BindingsInv
  <2>3. QED
    BY <2>1, <2>2
<1>7. QED
  BY <1>6 DEF BindingsInv

LEMMA BindingsDeliver ==
    ASSUME IInv, BindingsInv, NEW r \in Request, DeliverToWallet(r)
    PROVE  BindingsInv' /\ Delivers
<1> USE DEF IInv, ShapeInv
<1> DEFINE c == requests[r].binding
<1>1. /\ requests[r].pc = "signing" /\ c # NoBinding
      /\ requests' = [requests EXCEPT ![r] = NoRequest]
      /\ answered' = answered \cup {c}
  BY DEF DeliverToWallet, End
<1>2. c \in Binding
  BY <1>1, InFlightType DEF Issuance
<1>3. \A b \in Binding : b # c => bindings'[b] = bindings[b]
  BY DEF DeliverToWallet, TypeOK
<1>4. \/ bindings[c].status # "bound" /\ bindings'[c] = bindings[c]
      \/ bindings[c].status = "bound" /\ bindings'[c].status = "issued"
  BY <1>2 DEF DeliverToWallet, Deposited, TypeOK, BindingRow
<1>5. /\ \A s \in Request : s # r => requests'[s] = requests[s]
      /\ requests'[r].pc = "idle"
  BY <1>1 DEF TypeOK, NoRequest
<1>6. \A s \in Request : requests[s].pc # "idle" /\ requests[s].binding # NoBinding =>
          requests[s].binding \in Binding
  BY InFlightType DEF Issuance
<1>7. bindings[c].status \in {"bound", "declined", "pruned"}
  BY <1>1 DEF BindingsInv
<1> HIDE DEF c
<1>8. \A s \in Request : s # r /\ requests[s].pc # "idle" => requests[s].binding # c
  BY <1>1 DEF BindingsInv, c
<1>9. BindingsInv'
  BY <1>3, <1>5, <1>6, <1>8 DEF BindingsInv
<1>10. Delivers
  BY <1>1, <1>4, <1>7 DEF Delivers
<1>11. QED
  BY <1>9, <1>10

LEMMA DeliverStep ==
    ASSUME IInv, BindingsInv, AnsweredEnds, [Next]_vars
    PROVE  BindingsInv' /\ AnsweredEnds' /\ Delivers
<1> USE DEF IInv, ShapeInv
<1>0. \A b \in Binding : MailMove(b)
  BY NextMail
<1>1. \A b \in answered : bindings'[b].status \in {"issued", "collected", "declined", "pruned"}
  BY <1>0 DEF AnsweredEnds, MailMove, StatusMoves, TypeOK
<1>2. ASSUME BindingsInv', answered' = answered
      PROVE  BindingsInv' /\ AnsweredEnds' /\ Delivers
  BY <1>1, <1>2 DEF AnsweredEnds, Delivers
<1>3. ASSUME UNCHANGED bindings, answered' = answered,
             \A r \in Request : \/ requests'[r].pc = "idle"
                                \/ /\ requests[r].pc # "idle"
                                   /\ requests'[r].binding = requests[r].binding
      PROVE  BindingsInv' /\ AnsweredEnds' /\ Delivers
  BY <1>2, <1>3, BindingsKeep
<1>4. CASE RelayStep
  <2>1. /\ UNCHANGED <<requests, answered>>
        /\ \A b \in Binding : RelayMove(bindings[b], bindings'[b])
    BY <1>4, RelayStepMoves DEF RelayStep, ShowSession, CreateBindingRequest, Poll,
       FulfillBindingRequest, DeclineBindingRequest, CollectCredentials, BindingOverdue,
       RefuseHolderKey
  <2>2. \A b \in Binding : \/ bindings'[b].status = bindings[b].status
                           \/ bindings'[b].status \in {"declined", "pruned"}
                           \/ bindings[b].status \notin {"bound", "declined", "pruned"}
    BY <1>0, <2>1 DEF MailMove, RelayMove, SameBinding, StatusMoves
  <2>3. \A r \in Request : requests'[r].pc = "idle" \/ requests[r].pc # "idle"
    BY <2>1
  <2>4. BindingsInv'
    BY <2>1, <2>2, <2>3, BindingsKeep
  <2>5. QED
    BY <1>2, <2>1, <2>4
<1>5. ASSUME NEW r \in Request, NEW k \in Key, IssueDirectly(r, k)
      PROVE  BindingsInv' /\ AnsweredEnds' /\ Delivers
  <2>1. /\ UNCHANGED <<bindings, answered>>
        /\ \A s \in Request : s # r => requests'[s] = requests[s]
        /\ requests'[r].binding = NoBinding
    BY <1>5 DEF IssueDirectly, StartIssuance, TypeOK, NoRequest
  <2>2. BindingsInv'
    BY <2>1 DEF BindingsInv
  <2>3. QED
    BY <1>2, <2>1, <2>2
<1>6. ASSUME NEW r \in Request, NEW b \in Binding, IssueThroughWallet(r, b)
      PROVE  BindingsInv' /\ AnsweredEnds' /\ Delivers
  BY <1>2, <1>6, BindingsStart DEF IssueThroughWallet, StartIssuance
<1>7. ASSUME NEW r \in Request, DeliverToWallet(r)
      PROVE  BindingsInv' /\ AnsweredEnds' /\ Delivers
  <2>1. BindingsInv' /\ Delivers
    BY <1>7, BindingsDeliver
  <2>2. AnsweredEnds'
    BY <1>1, <2>1 DEF AnsweredEnds, Delivers
  <2>3. QED
    BY <2>1, <2>2
<1>8. ASSUME NEW r \in Request, FailIssuance(r) \/ DeliverDirectly(r)
      PROVE  BindingsInv' /\ AnsweredEnds' /\ Delivers
  BY <1>3, <1>8 DEF FailIssuance, DeliverDirectly, End, TypeOK, NoRequest
<1>9. ASSUME NEW r \in Request, NEW m \in Commitment, AcceptProofs(r, m)
      PROVE  BindingsInv' /\ AnsweredEnds' /\ Delivers
  <2>1. requests[r] \in Issuance
    BY <1>9, InFlightType DEF AcceptProofs
  <2>2. QED
    BY <1>3, <1>9, <2>1 DEF AcceptProofs, TypeOK, Issuance
<1>10. ASSUME NEW r \in Request, NEW e \in Enrollment, RecordEnrollment(r, e)
       PROVE  BindingsInv' /\ AnsweredEnds' /\ Delivers
  <2>1. requests[r] \in Issuance
    BY <1>10, InFlightType DEF RecordEnrollment
  <2>2. QED
    BY <1>3, <1>10, <2>1 DEF RecordEnrollment, TypeOK, Issuance
<1>11. ASSUME NEW e \in Enrollment, RevokeEnrollment(e)
       PROVE  BindingsInv' /\ AnsweredEnds' /\ Delivers
  BY <1>3, <1>11 DEF RevokeEnrollment
<1>12. CASE Crash
  BY <1>3, <1>12 DEF Crash, NoRequest
<1>13. CASE UNCHANGED vars
  BY <1>3, <1>13 DEF vars
<1>14. QED
  BY <1>4, <1>5, <1>6, <1>7, <1>8, <1>9, <1>10, <1>11, <1>12, <1>13
     DEF Next, RelayStep

----------------------------------------------------------------------------
(* What is proved.                                                         *)

LEMMA Invariance == Spec => []IInv
<1>1. Init => IInv
  BY InitIInv
<1>2. IInv /\ [Next]_vars => IInv'
  BY NextIInv
<1>3. QED
  BY <1>1, <1>2, PTL DEF Spec

\* Every row and request keeps the shape the code gives it.
THEOREM TypeCorrect == Spec => []TypeOK
<1>1. IInv => TypeOK
  BY DEF IInv, ShapeInv
<1>2. QED
  BY <1>1, Invariance, PTL

\* An issuance challenge yields one enrollment, whatever requests present it
\* and however they interleave (ineCredential).
THEOREM ChallengesAreSingleUse == Spec => []ChallengeUsedOnce
<1>1. IInv => ChallengeUsedOnce
  BY DEF IInv, ChallengeInv
<1>2. QED
  BY <1>1, Invariance, PTL

\* Credentials that wait in a wallet's mailbox were issued for the key it
\* bound, against the challenge it signed (depositIssuedCredentials).
THEOREM MailboxIsOwn == Spec => []MailboxHoldsOwnKey
<1>1. IInv => MailboxHoldsOwnKey
  BY DEF IInv, WalletInv
<1>2. QED
  BY <1>1, Invariance, PTL

\* A commitment is enrolled once at a time (recordIneCredential).
THEOREM CommitmentsAreUnique == Spec => []OneActivePerCommitment
<1>1. IInv => OneActivePerCommitment
  BY DEF IInv
<1>2. QED
  BY <1>1, Invariance, PTL

\* What a caller is told was delivered is in the wallet's mailbox or was handed
\* to it, unless the wallet had declined or the request's time had passed: no
\* other step takes the row away under an issuance, and no other issuance
\* deposits in it (depositIssuedCredentials).
THEOREM DeliveredOrWithdrawn == Spec => [][Delivers]_vars /\ []AnsweredEnds
<1>1. Init => BindingsInv /\ AnsweredEnds
  BY DEF Init, BindingsInv, AnsweredEnds, NoRequest
<1>2. IInv /\ BindingsInv /\ AnsweredEnds /\ [Next]_vars =>
          BindingsInv' /\ AnsweredEnds' /\ [Delivers]_vars
  BY DeliverStep
<1>3. QED
  BY <1>1, <1>2, Invariance, PTL DEF Spec

\* The wallet relay implements the one-time mailbox.
THEOREM RelayImplementsMailbox == Spec => RelayIsMailbox
<1>1. Init => Mailbox!Init
  BY DEF Init, NoBindingRow, Box, Mailbox!Init
<1>2. IInv /\ IInv' /\ [Next]_vars => [Mailbox!Next]_<<Box, reads>>
  BY StepRefines
<1>3. QED
  BY <1>1, <1>2, Invariance, PTL DEF Spec, RelayIsMailbox, Mailbox!Spec

MailboxTheorems == INSTANCE OneTimeMailbox_proofs WITH Slot <- Binding, box <- Box

\* So no credential is handed to a wallet twice (collectIssuedCredentials).
THEOREM CollectedOnce == Spec => []Mailbox!ReadAtMostOnce
<1>1. Mailbox!Init => MailboxTheorems!Init
  BY DEF Mailbox!Init, MailboxTheorems!Init
<1>2. [Mailbox!Next]_<<Box, reads>> => [MailboxTheorems!Next]_<<Box, reads>>
  BY DEF Mailbox!Next, MailboxTheorems!Next, Mailbox!SlotStep, MailboxTheorems!SlotStep,
         Mailbox!Moves, MailboxTheorems!Moves, Mailbox!SlotState, MailboxTheorems!SlotState
<1>3. MailboxTheorems!ReadAtMostOnce => Mailbox!ReadAtMostOnce
  BY DEF Mailbox!ReadAtMostOnce, MailboxTheorems!ReadAtMostOnce
<1>4. QED
  BY <1>1, <1>2, <1>3, RelayImplementsMailbox, MailboxTheorems!ReadOnce, PTL
     DEF RelayIsMailbox, Mailbox!Spec, MailboxTheorems!Spec
=============================================================================
