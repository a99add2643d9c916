--------------------- MODULE CommunityGovernance_proofs ---------------------
(***************************************************************************)
(* The safety properties of CommunityGovernance for any number of people,  *)
(* actions and concurrent vote requests.                                   *)
(***************************************************************************)
EXTENDS CommunityGovernance, FiniteSetTheorems, TLAPS

\* What a row and a request in flight say of each other and of the votes.
RowsInv ==
    /\ \A a \in ActionId : actions[a].status = "none" =>
          /\ \A d \in Did : votes[a][d] = "none"
          /\ applied[a] = 0
    /\ \A a \in ActionId : actions[a].status # "none" =>
          /\ actions[a].required >= 2
          /\ community = "active"
    /\ \A r \in Request : requests[r].pc # "idle" =>
          actions[requests[r].action].status # "none"
    /\ \A r \in Request : requests[r].pc = "syncing" =>
          Approvals(votes[requests[r].action]) >= actions[requests[r].action].required
    /\ community = "none" => \A d \in Did : admins[d] = "none"

----------------------------------------------------------------------------
(* Counting.                                                               *)

LEMMA SubsetsOfDid ==
    ASSUME NEW S \in SUBSET Did
    PROVE  IsFiniteSet(S) /\ Cardinality(S) \in Nat
  BY ConstantsAssumption, FS_Subset, FS_CardinalityType

LEMMA AdminCountType == AdminCount \in Nat
  BY SubsetsOfDid DEF AdminCount, ActiveAdmins

\* The voters before and after one more vote by someone who had not voted.
LEMMA OneMoreVote ==
    ASSUME NEW box \in [Did -> Ballot \cup {"none"}],
           NEW d \in Did, NEW v \in Ballot, box[d] = "none"
    PROVE  LET new == [box EXCEPT ![d] = v] IN
           /\ Cardinality(AllVoters(new)) = Cardinality(AllVoters(box)) + 1
           /\ Cardinality(Voters(new, "approve")) >= Cardinality(Voters(box, "approve"))
           /\ Cardinality(Voters(new, "approve")) <= Cardinality(AllVoters(new))
           /\ Cardinality(AllVoters(box)) \in Nat
           /\ Cardinality(Voters(box, "approve")) \in Nat
           /\ Cardinality(Voters(new, "approve")) \in Nat
<1> DEFINE new == [box EXCEPT ![d] = v]
<1>1. AllVoters(new) = AllVoters(box) \cup {d} /\ d \notin AllVoters(box)
  BY DEF AllVoters, Ballot
<1>2. Voters(box, "approve") \subseteq Voters(new, "approve")
  BY DEF Voters
<1>3. Voters(new, "approve") \subseteq AllVoters(new)
  BY DEF Voters, AllVoters
<1>4. /\ AllVoters(box) \in SUBSET Did /\ AllVoters(new) \in SUBSET Did
      /\ Voters(box, "approve") \in SUBSET Did /\ Voters(new, "approve") \in SUBSET Did
  BY DEF Voters, AllVoters
<1>5. Cardinality(AllVoters(new)) = Cardinality(AllVoters(box)) + 1
  BY <1>1, <1>4, SubsetsOfDid, FS_AddElement
<1>6. Cardinality(Voters(box, "approve")) <= Cardinality(Voters(new, "approve"))
  BY <1>2, <1>4, SubsetsOfDid, FS_Subset
<1>7. Cardinality(Voters(new, "approve")) <= Cardinality(AllVoters(new))
  BY <1>3, <1>4, SubsetsOfDid, FS_Subset
<1> HIDE DEF new
<1>8. QED
  BY <1>4, <1>5, <1>6, <1>7, SubsetsOfDid DEF new

----------------------------------------------------------------------------
(* Types.                                                                  *)

LEMMA InitShapeOK == Init => ShapeOK
<1>1. AbsentRow \in ActionRow
  BY DEF AbsentRow, ActionRow, ActionStatus, AllTypes, Payload
<1>2. Init => bootstrapUsed \in BOOLEAN /\ keys \in BOOLEAN
  BY DEF Init
<1>3. QED
  BY <1>1, <1>2 DEF Init, ShapeOK

LEMMA StatusUpdateType ==
    ASSUME ShapeOK, NEW a \in ActionId, NEW s \in ActionStatus, SetStatus(a, s)
    PROVE  actions' \in [ActionId -> ActionRow]
  BY DEF ShapeOK, SetStatus, ActionRow

LEMMA InFlightType ==
    ASSUME ShapeOK, NEW r \in Request, requests[r].pc # "idle"
    PROVE  /\ requests[r] \in VoteRequest
           /\ requests[r].action \in ActionId
  BY DEF ShapeOK, NoRequest, VoteRequest

LEMMA CountVoteType ==
    ASSUME ShapeOK, NEW r \in Request, NEW w, CountVote(requests[r], w)
    PROVE  /\ requests[r] \in VoteRequest
           /\ requests[r].action \in ActionId
           /\ votes' \in [ActionId -> [Did -> Ballot \cup {"none"}]]
<1>1. requests[r] \in VoteRequest /\ requests[r].action \in ActionId
  BY InFlightType DEF CountVote
<1>2. QED
  BY <1>1 DEF ShapeOK, CountVote, BoxWith, VoteRequest

LEMMA NextShapeOK == ShapeOK /\ [Next]_vars => ShapeOK'
<1> SUFFICES ASSUME ShapeOK, [Next]_vars PROVE ShapeOK'
  OBVIOUS
<1> USE DEF ShapeOK
<1>1. ASSUME NEW d \in Did, CreateCommunity(d) PROVE ShapeOK'
  BY <1>1 DEF CreateCommunity
<1>2. ASSUME NEW d \in Did, NEW k \in 1..2, CrashWhileCreating(d, k) PROVE ShapeOK'
  BY <1>2 DEF CrashWhileCreating
<1>3. ASSUME NEW d \in Did, NEW named \in SUBSET Did, BootstrapAdmins(d, named)
      PROVE  ShapeOK'
  BY <1>3 DEF BootstrapAdmins
<1>4. ASSUME NEW d \in Did, NEW a \in ActionId, NEW t \in Types, NEW p \in Payload,
             ProposeAction(d, a, t, p)
      PROVE  ShapeOK'
  <2>1. RequiredApprovals(t) \in Nat
    BY AdminCountType DEF RequiredApprovals
  <2>2. QED
    BY <1>4, <2>1, ConstantsAssumption DEF ProposeAction, ActionRow, ActionStatus
<1>5. ASSUME NEW r \in Request, NEW d \in Did, NEW a \in ActionId, NEW v \in Ballot,
             BeginVote(r, d, a, v)
      PROVE  ShapeOK'
  BY <1>5 DEF BeginVote, dbVars, VoteRequest
<1>6. ASSUME NEW r \in Request, RefuseVote(r) PROVE ShapeOK'
  BY <1>6 DEF RefuseVote, dbVars
<1>9. ASSUME NEW r \in Request, NEW verdict \in {"pending", "rejected"},
             RecordVote(r, verdict)
      PROVE  ShapeOK'
  <2>1. CountVote(requests[r], verdict) /\ SetStatus(requests[r].action, verdict)
    BY <1>9 DEF RecordVote
  <2>2. verdict \in ActionStatus
    BY DEF ActionStatus
  <2>3. /\ votes' \in [ActionId -> [Did -> Ballot \cup {"none"}]]
        /\ actions' \in [ActionId -> ActionRow]
    BY <2>1, <2>2, CountVoteType, StatusUpdateType
  <2>4. QED
    BY <1>9, <2>3 DEF RecordVote
<1>10. ASSUME NEW r \in Request, ApproveAndExecute(r) PROVE ShapeOK'
  <2>1. CountVote(requests[r], "approved") /\ SetStatus(requests[r].action, "approved")
    BY <1>10 DEF ApproveAndExecute
  <2>2. "approved" \in ActionStatus
    BY DEF ActionStatus
  <2>3. /\ requests[r] \in VoteRequest
        /\ requests[r].action \in ActionId
        /\ votes' \in [ActionId -> [Did -> Ballot \cup {"none"}]]
        /\ actions' \in [ActionId -> ActionRow]
    BY <2>1, <2>2, CountVoteType, StatusUpdateType
  <2>4. admins' \in [Did -> {"none", "active", "removed"}]
    BY <1>10 DEF ApproveAndExecute, ApplyLocalChange
  <2>5. community' \in {"none", "pending_admins", "active"}
    BY <1>10 DEF ApproveAndExecute, ApplyLocalChange
  <2>6. requests' \in [Request -> VoteRequest \cup {NoRequest}]
    BY <1>10, <2>3 DEF ApproveAndExecute, VoteRequest
  <2>7. applied' \in [ActionId -> Nat]
    BY <1>10, <2>3 DEF ApproveAndExecute
  <2>8. QED
    BY <1>10, <2>3, <2>4, <2>5, <2>6, <2>7 DEF ApproveAndExecute
<1>11. ASSUME NEW r \in Request, ApproveAndFail(r) PROVE ShapeOK'
  <2>1. CountVote(requests[r], "approved") /\ SetStatus(requests[r].action, "failed")
    BY <1>11 DEF ApproveAndFail
  <2>2. "failed" \in ActionStatus
    BY DEF ActionStatus
  <2>3. /\ votes' \in [ActionId -> [Did -> Ballot \cup {"none"}]]
        /\ actions' \in [ActionId -> ActionRow]
    BY <2>1, <2>2, CountVoteType, StatusUpdateType
  <2>4. QED
    BY <1>11, <2>3 DEF ApproveAndFail
<1>12. ASSUME NEW r \in Request, FinishExecution(r) PROVE ShapeOK'
  <2>1. requests[r].action \in ActionId
    BY <1>12, InFlightType DEF FinishExecution
  <2>2. "executed" \in ActionStatus
    BY DEF ActionStatus
  <2>3. actions' \in [ActionId -> ActionRow]
    BY <1>12, <2>1, <2>2, StatusUpdateType DEF FinishExecution
  <2>4. QED
    BY <1>12, <2>3 DEF FinishExecution
<1>13. Syncing \subseteq ActionId
  BY InFlightType DEF Syncing
<1>14. CASE Crash
  BY <1>13, <1>14 DEF Crash, dbVars
<1>15. ASSUME NEW r \in Request, CrashBeforeChange(r) PROVE ShapeOK'
  <2>1. CountVote(requests[r], "approved") /\ SetStatus(requests[r].action, "approved")
    BY <1>15 DEF CrashBeforeChange
  <2>2. "approved" \in ActionStatus
    BY DEF ActionStatus
  <2>3. /\ requests[r].action \in ActionId
        /\ votes' \in [ActionId -> [Did -> Ballot \cup {"none"}]]
        /\ actions' \in [ActionId -> ActionRow]
    BY <2>1, <2>2, CountVoteType, StatusUpdateType
  <2>4. QED
    BY <1>13, <1>15, <2>3 DEF CrashBeforeChange
<1>16. CASE UNCHANGED vars
  BY <1>16 DEF vars
<1>17. QED
  BY <1>1, <1>2, <1>3, <1>4, <1>5, <1>6, <1>9, <1>10, <1>11, <1>12, <1>14, <1>15, <1>16
     DEF Next

----------------------------------------------------------------------------
(* What any step does to one action.                                       *)

OneVoteAdded(old, new) ==
    \E d \in Did, v \in Ballot : old[d] = "none" /\ new = [old EXCEPT ![d] = v]

Untouched(a) ==
    /\ actions'[a] = actions[a]
    /\ votes'[a] = votes[a]
    /\ applied'[a] = applied[a]

Proposed(a) ==
    /\ actions[a].status = "none"
    /\ actions'[a].status = "pending"
    /\ actions'[a].required \in Nat /\ actions'[a].required >= 2
    /\ community = "active"
    /\ votes'[a] = votes[a]
    /\ applied'[a] = applied[a]

Voted(a) ==
    /\ \E r \in Request : requests[r].pc = "verifying" /\ requests[r].action = a
    /\ OneVoteAdded(votes[a], votes'[a])
    /\ actions'[a].required = actions[a].required
    /\ applied'[a] \in {applied[a], applied[a] + 1}
    /\ \/ /\ actions'[a].status \in {"approved", "failed"}
          /\ Approvals(votes'[a]) >= actions[a].required
       \/ /\ actions'[a].status \in {"pending", "rejected"}
          /\ applied'[a] = applied[a]
          /\ ~(Approvals(votes'[a]) >= actions[a].required)

Finished(a) ==
    /\ \E r \in Request : requests[r].pc = "syncing" /\ requests[r].action = a
    /\ actions'[a].status = "executed"
    /\ actions'[a].required = actions[a].required
    /\ votes'[a] = votes[a]
    /\ applied'[a] = applied[a]

LEMMA CountVoteEffect ==
    ASSUME ShapeOK, NEW r \in Request, NEW w, CountVote(requests[r], w),
           NEW a \in ActionId
    PROVE  /\ a # requests[r].action => votes'[a] = votes[a]
           /\ a = requests[r].action =>
                 /\ OneVoteAdded(votes[a], votes'[a])
                 /\ w = "approved" <=> Approvals(votes'[a]) >= actions[a].required
<1>1. requests[r] \in VoteRequest
  BY CountVoteType
<1>2. a # requests[r].action => votes'[a] = votes[a]
  BY <1>1 DEF CountVote, ShapeOK
<1>3. ASSUME a = requests[r].action PROVE votes'[a] = BoxWith(requests[r])
  BY <1>1, <1>3 DEF CountVote, ShapeOK, VoteRequest
<1>4. ASSUME a = requests[r].action
      PROVE  OneVoteAdded(votes[a], votes'[a])
  BY <1>1, <1>3, <1>4 DEF CountVote, BoxWith, VoteRequest, OneVoteAdded
<1>5. ASSUME a = requests[r].action
      PROVE  w = "approved" <=> Approvals(votes'[a]) >= actions[a].required
  <2>1. w = Verdict(actions[a], votes'[a])
    BY <1>3, <1>5 DEF CountVote
  <2>2. QED
    BY <2>1 DEF Verdict
<1>6. QED
  BY <1>2, <1>4, <1>5

LEMMA ActionStep ==
    ASSUME ShapeOK, [Next]_vars, NEW a \in ActionId
    PROVE  Untouched(a) \/ Proposed(a) \/ Voted(a) \/ Finished(a)
<1>1. ASSUME NEW d \in Did, CreateCommunity(d) PROVE Untouched(a)
  BY <1>1 DEF CreateCommunity, Untouched
<1>2. ASSUME NEW d \in Did, NEW k \in 1..2, CrashWhileCreating(d, k) PROVE Untouched(a)
  BY <1>2 DEF CrashWhileCreating, Untouched
<1>3. ASSUME NEW d \in Did, NEW named \in SUBSET Did, BootstrapAdmins(d, named)
      PROVE  Untouched(a)
  BY <1>3 DEF BootstrapAdmins, Untouched
<1>4. ASSUME NEW d \in Did, NEW b \in ActionId, NEW t \in Types, NEW p \in Payload,
             ProposeAction(d, b, t, p)
      PROVE  Untouched(a) \/ Proposed(a)
  <2>1. RequiredApprovals(t) \in Nat /\ RequiredApprovals(t) >= 2
    BY AdminCountType DEF RequiredApprovals
  <2>2. QED
    BY <1>4, <2>1 DEF ProposeAction, Untouched, Proposed, ShapeOK
<1>5. ASSUME NEW r \in Request, NEW d \in Did, NEW b \in ActionId, NEW v \in Ballot,
             BeginVote(r, d, b, v)
      PROVE  Untouched(a)
  BY <1>5 DEF BeginVote, dbVars, Untouched
<1>6. ASSUME NEW r \in Request, RefuseVote(r) PROVE Untouched(a)
  BY <1>6 DEF RefuseVote, dbVars, Untouched
<1>7. ASSUME NEW r \in Request, NEW w, CountVote(requests[r], w),
             NEW s \in {"pending", "rejected", "approved", "failed"},
             SetStatus(requests[r].action, s),
             s \in {"approved", "failed"} <=> w = "approved",
             \A b \in ActionId : /\ b # requests[r].action => applied'[b] = applied[b]
                                 /\ applied'[b] \in {applied[b], applied[b] + 1}
                                 /\ w # "approved" => applied'[b] = applied[b]
      PROVE  Untouched(a) \/ Voted(a)
  <2>1. requests[r].pc = "verifying" /\ requests[r].action \in ActionId
    BY <1>7, CountVoteType DEF CountVote
  <2>2. CASE a # requests[r].action
    BY <1>7, <2>1, <2>2, CountVoteEffect DEF Untouched, SetStatus, ShapeOK
  <2>3. CASE a = requests[r].action
    <3>1. actions'[a].status = s /\ actions'[a].required = actions[a].required
      BY <1>7, <2>3 DEF SetStatus, ShapeOK, ActionRow
    <3>0. CountVote(requests[r], w)
      BY <1>7
    <3>2. /\ OneVoteAdded(votes[a], votes'[a])
          /\ w = "approved" <=> Approvals(votes'[a]) >= actions[a].required
      BY <2>3, <3>0, CountVoteEffect
    <3>3. \E q \in Request : requests[q].pc = "verifying" /\ requests[q].action = a
      BY <2>1, <2>3
    <3>4. applied'[a] \in {applied[a], applied[a] + 1}
      BY <1>7
    <3>5. CASE w = "approved"
      BY <1>7, <3>1, <3>2, <3>3, <3>4, <3>5 DEF Voted
    <3>6. CASE w # "approved"
      BY <1>7, <3>1, <3>2, <3>3, <3>4, <3>6 DEF Voted
    <3>7. QED
      BY <3>5, <3>6
  <2>4. QED
    BY <2>2, <2>3
<1>8. ASSUME NEW r \in Request, NEW verdict \in {"pending", "rejected"},
             RecordVote(r, verdict)
      PROVE  Untouched(a) \/ Voted(a)
  <2>1. /\ CountVote(requests[r], verdict)
        /\ SetStatus(requests[r].action, verdict)
        /\ applied' = applied
    BY <1>8 DEF RecordVote
  <2>2. QED
    BY <1>7, <2>1
<1>9. ASSUME NEW r \in Request, ApproveAndExecute(r)
      PROVE  Untouched(a) \/ Voted(a)
  <2>1. /\ CountVote(requests[r], "approved")
        /\ SetStatus(requests[r].action, "approved")
        /\ applied' = [applied EXCEPT ![requests[r].action] = @ + 1]
    BY <1>9 DEF ApproveAndExecute
  <2>2. \A b \in ActionId : /\ b # requests[r].action => applied'[b] = applied[b]
                            /\ applied'[b] \in {applied[b], applied[b] + 1}
    BY <2>1 DEF ShapeOK
  <2>3. QED
    BY <1>7, <2>1, <2>2
<1>10. ASSUME NEW r \in Request, ApproveAndFail(r) PROVE Untouched(a) \/ Voted(a)
  <2>1. /\ CountVote(requests[r], "approved")
        /\ SetStatus(requests[r].action, "failed")
        /\ applied' = applied
    BY <1>10 DEF ApproveAndFail
  <2>2. QED
    BY <1>7, <2>1
<1>11. ASSUME NEW r \in Request, FinishExecution(r) PROVE Untouched(a) \/ Finished(a)
  <2>1. requests[r].action \in ActionId
    BY <1>11, InFlightType DEF FinishExecution
  <2>2. QED
    BY <1>11, <2>1 DEF FinishExecution, SetStatus, Untouched, Finished, ShapeOK, ActionRow
<1>12. CASE Crash
  BY <1>12 DEF Crash, dbVars, Untouched
<1>13. ASSUME NEW r \in Request, CrashBeforeChange(r) PROVE Untouched(a) \/ Voted(a)
  <2>1. /\ CountVote(requests[r], "approved")
        /\ SetStatus(requests[r].action, "approved")
        /\ applied' = applied
    BY <1>13 DEF CrashBeforeChange
  <2>2. QED
    BY <1>7, <2>1
<1>14. CASE UNCHANGED vars
  BY <1>14 DEF vars, Untouched
<1>15. QED
  BY <1>1, <1>2, <1>3, <1>4, <1>5, <1>6, <1>8, <1>9, <1>10, <1>11, <1>12, <1>13, <1>14
     DEF Next

----------------------------------------------------------------------------
(* The rows invariant.                                                     *)

\* Voting never lowers the number of approvals, and what a ballot box holds
\* is counted by natural numbers.
LEMMA ApprovalsGrow ==
    ASSUME ShapeOK, NEW a \in ActionId, Voted(a)
    PROVE  /\ Approvals(votes[a]) \in Nat /\ Approvals(votes'[a]) \in Nat
           /\ Approvals(votes'[a]) >= Approvals(votes[a])
           /\ Cardinality(AllVoters(votes[a])) \in Nat
           /\ Cardinality(AllVoters(votes'[a])) = Cardinality(AllVoters(votes[a])) + 1
           /\ Approvals(votes'[a]) <= Cardinality(AllVoters(votes'[a]))
<1>1. PICK d \in Did, v \in Ballot :
          votes[a][d] = "none" /\ votes'[a] = [votes[a] EXCEPT ![d] = v]
  BY DEF Voted, OneVoteAdded
<1>2. votes[a] \in [Did -> Ballot \cup {"none"}]
  BY DEF ShapeOK
<1>3. QED
  BY <1>1, <1>2, OneMoreVote DEF Approvals

LEMMA ApprovalsType ==
    ASSUME NEW a \in ActionId
    PROVE  Approvals(votes[a]) \in Nat
  BY SubsetsOfDid DEF Approvals, Voters

\* A request in flight after a step was in flight on the same action before
\* it, or has just begun on a pending action.
LEMMA RequestStep ==
    ASSUME ShapeOK, [Next]_vars, NEW r \in Request, requests'[r].pc # "idle"
    PROVE  \/ /\ requests[r].pc # "idle"
              /\ requests'[r].action = requests[r].action
              /\ \/ requests'[r].pc = requests[r].pc
                 \/ CountVote(requests[r], "approved")
           \/ /\ requests'[r].pc = "verifying"
              /\ requests'[r].action \in ActionId
              /\ actions[requests'[r].action].status = "pending"
<1> USE DEF ShapeOK
<1>1. CASE \E d \in Did : CreateCommunity(d)
  BY <1>1 DEF CreateCommunity
<1>2. CASE \E d \in Did, k \in 1..2 : CrashWhileCreating(d, k)
  BY <1>2 DEF CrashWhileCreating
<1>3. CASE \E d \in Did, named \in SUBSET Did : BootstrapAdmins(d, named)
  BY <1>3 DEF BootstrapAdmins
<1>4. CASE \E d \in Did, a \in ActionId, t \in Types, p \in Payload : ProposeAction(d, a, t, p)
  BY <1>4 DEF ProposeAction
<1>5. CASE \E q \in Request, d \in Did, a \in ActionId, v \in Ballot : BeginVote(q, d, a, v)
  BY <1>5 DEF BeginVote
<1>6. CASE \E q \in Request : RefuseVote(q)
  BY <1>6 DEF RefuseVote, NoRequest
<1>7. CASE \E q \in Request, verdict \in {"pending", "rejected"} : RecordVote(q, verdict)
  BY <1>7 DEF RecordVote, NoRequest
<1>8. ASSUME NEW q \in Request, ApproveAndExecute(q)
      PROVE  /\ requests[r].pc # "idle"
             /\ requests'[r].action = requests[r].action
             /\ \/ requests'[r].pc = requests[r].pc
                \/ CountVote(requests[r], "approved")
  <2>1. /\ CountVote(requests[q], "approved")
        /\ requests' = [requests EXCEPT ![q].pc = "syncing"]
    BY <1>8 DEF ApproveAndExecute
  <2>2. requests[q] \in VoteRequest /\ requests[q].pc = "verifying"
    BY <2>1, CountVoteType DEF CountVote
  <2>3. QED
    BY <2>1, <2>2 DEF VoteRequest
<1>9. CASE \E q \in Request : ApproveAndFail(q)
  BY <1>9 DEF ApproveAndFail, NoRequest
<1>10. CASE \E q \in Request : FinishExecution(q)
  BY <1>10 DEF FinishExecution, NoRequest
<1>11. CASE Crash
  BY <1>11 DEF Crash, NoRequest
<1>12. CASE \E q \in Request : CrashBeforeChange(q)
  BY <1>12 DEF CrashBeforeChange, NoRequest
<1>13. CASE UNCHANGED vars
  BY <1>13 DEF vars
<1>14. QED
  BY <1>1, <1>2, <1>3, <1>4, <1>5, <1>6, <1>7, <1>8, <1>9, <1>10, <1>11, <1>12, <1>13
     DEF Next

\* The status of the community only moves forward, and one that is not yet
\* founded has no administrator.
LEMMA CommunityStep ==
    ASSUME ShapeOK, RowsInv, [Next]_vars
    PROVE  /\ community = "active" => community' = "active"
           /\ community' = "none" => \A d \in Did : admins'[d] = "none"
<1> USE DEF ShapeOK
<1>1. CASE \E d \in Did : CreateCommunity(d)
  BY <1>1 DEF CreateCommunity
<1>2. CASE \E d \in Did, k \in 1..2 : CrashWhileCreating(d, k)
  BY <1>2 DEF CrashWhileCreating
<1>3. CASE \E d \in Did, named \in SUBSET Did : BootstrapAdmins(d, named)
  BY <1>3 DEF BootstrapAdmins
<1>4. CASE \E r \in Request : ApproveAndExecute(r)
  <2>1. PICK r \in Request : ApproveAndExecute(r)
    BY <1>4
  <2>2. requests[r].action \in ActionId /\ requests[r].pc # "idle"
    BY <2>1, CountVoteType DEF ApproveAndExecute, CountVote
  <2>3. community = "active"
    BY <2>2 DEF RowsInv
  <2>4. QED
    BY <2>1, <2>3 DEF ApproveAndExecute, ApplyLocalChange
<1>5. CASE UNCHANGED <<community, admins>>
  BY <1>5 DEF RowsInv
<1>6. QED
  BY <1>1, <1>2, <1>3, <1>4, <1>5
     DEF Next, vars, dbVars, ProposeAction, BeginVote, RefuseVote, RecordVote,
         ApproveAndFail, FinishExecution, Crash, CrashBeforeChange

LEMMA InitRows == Init => RowsInv
  BY DEF Init, RowsInv, AbsentRow, NoRequest

LEMMA NextRows == ShapeOK /\ RowsInv /\ [Next]_vars => RowsInv'
<1> SUFFICES ASSUME ShapeOK, RowsInv, [Next]_vars PROVE RowsInv'
  OBVIOUS
<1>1. ShapeOK'
  BY NextShapeOK
<1>2. ASSUME NEW a \in ActionId
      PROVE  /\ actions'[a].status = "none" =>
                   /\ actions[a].status = "none"
                   /\ votes'[a] = votes[a]
                   /\ applied'[a] = applied[a]
             /\ actions'[a].status # "none" => actions'[a].required >= 2
             /\ actions'[a].status # "none" => community = "active"
             /\ actions[a].status # "none" =>
                   /\ actions'[a].status # "none"
                   /\ actions'[a].required = actions[a].required
  <2>1. CASE Untouched(a)
    BY <2>1 DEF Untouched, RowsInv
  <2>2. CASE Proposed(a)
    BY <2>2 DEF Proposed
  <2>3. CASE Voted(a)
    BY <2>3 DEF Voted, RowsInv
  <2>4. CASE Finished(a)
    BY <2>4 DEF Finished, RowsInv
  <2>5. QED
    BY <2>1, <2>2, <2>3, <2>4, ActionStep
<1>3. \A a \in ActionId : actions'[a].status = "none" =>
          /\ \A d \in Did : votes'[a][d] = "none"
          /\ applied'[a] = 0
  BY <1>2 DEF RowsInv
<1>4. \A a \in ActionId : actions'[a].status # "none" =>
          actions'[a].required >= 2 /\ community' = "active"
  BY <1>2, CommunityStep
<1>5. ASSUME NEW r \in Request, requests'[r].pc # "idle"
      PROVE  actions'[requests'[r].action].status # "none"
  <2>1. requests'[r].action \in ActionId
    BY <1>1, <1>5 DEF ShapeOK, VoteRequest, NoRequest
  <2>2. actions[requests'[r].action].status # "none"
    BY <1>5, RequestStep DEF RowsInv
  <2>3. QED
    BY <1>2, <2>1, <2>2
<1>6. ASSUME NEW r \in Request, requests'[r].pc = "syncing"
      PROVE  Approvals(votes'[requests'[r].action]) >= actions'[requests'[r].action].required
  <2> DEFINE a == requests'[r].action
  <2>1. /\ requests[r].pc # "idle" /\ requests[r].action = a
        /\ requests[r].pc = "syncing" \/ CountVote(requests[r], "approved")
    BY <1>6, RequestStep
  <2>2. a \in ActionId
    BY <2>1, InFlightType
  <2>3. actions'[a].required = actions[a].required /\ actions[a].required \in Nat
    BY <1>2, <2>1, <2>2 DEF RowsInv, ShapeOK, ActionRow
  <2>4. CASE CountVote(requests[r], "approved")
    BY <2>1, <2>2, <2>3, <2>4, CountVoteEffect
  <2>5. CASE requests[r].pc = "syncing"
    <3>1. Approvals(votes[a]) >= actions[a].required
      BY <2>1, <2>5 DEF RowsInv
    <3>2. CASE Voted(a)
      BY <2>2, <2>3, <3>1, <3>2, ApprovalsGrow
    <3>3. CASE ~Voted(a)
      <4>1. actions[a].status # "none"
        BY <2>1 DEF RowsInv
      <4>2. votes'[a] = votes[a]
        BY <2>2, <3>3, <4>1, ActionStep DEF Untouched, Proposed, Finished
      <4>3. QED
        BY <2>3, <3>1, <4>2
    <3>4. QED
      BY <3>2, <3>3
  <2>6. QED
    BY <2>1, <2>4, <2>5
<1>7. QED
  BY <1>3, <1>4, <1>5, <1>6, CommunityStep DEF RowsInv

LEMMA RowsCorrect == Spec => [](ShapeOK /\ RowsInv)
<1>1. ShapeOK /\ RowsInv /\ [Next]_vars => (ShapeOK /\ RowsInv)'
  BY NextShapeOK, NextRows
<1>2. Init => ShapeOK /\ RowsInv
  BY InitShapeOK, InitRows
<1>3. QED
  BY <1>1, <1>2, PTL DEF Spec

\* Every reachable state has the shape of the code's rows and requests, which
\* are about actions that exist, in a community that is active.
THEOREM TypeCorrect == Spec => []TypeOK
<1>1. ShapeOK /\ RowsInv => TypeOK
  <2> SUFFICES ASSUME ShapeOK, RowsInv PROVE TypeOK
    OBVIOUS
  <2>1. ASSUME NEW a \in ActionId, actions[a].status = "none"
        PROVE  votes[a] = [d \in Did |-> "none"] /\ applied[a] = 0
    <3>1. votes[a] \in [Did -> Ballot \cup {"none"}]
      BY DEF ShapeOK
    <3>2. \A d \in Did : votes[a][d] = "none"
      BY <2>1 DEF RowsInv
    <3>3. QED
      BY <2>1, <3>1, <3>2 DEF RowsInv
  <2>2. ASSUME NEW r \in Request, requests[r] # NoRequest
        PROVE  actions[requests[r].action].status # "none"
    BY <2>2 DEF ShapeOK, RowsInv, VoteRequest
  <2>3. QED
    BY <2>1, <2>2 DEF TypeOK, RowsInv
<1>2. QED
  BY <1>1, RowsCorrect, PTL

----------------------------------------------------------------------------
(* The outcome of an action and its votes.                                 *)

\* The status of an action agrees with its votes in every reachable state.
THEOREM OutcomeCorrect == Spec => []OutcomeMatchesVotes
<1> USE DEF OutcomeMatchesVotes
<1>1. Init => OutcomeMatchesVotes
  BY DEF Init, AbsentRow
<1>2. ShapeOK /\ RowsInv /\ OutcomeMatchesVotes /\ [Next]_vars => OutcomeMatchesVotes'
  <2> SUFFICES ASSUME ShapeOK, RowsInv, OutcomeMatchesVotes, [Next]_vars,
                      NEW a \in ActionId
               PROVE  actions'[a].status \in {"approved", "executed", "failed"}
                          <=> /\ actions'[a].status # "none"
                              /\ Approvals(votes'[a]) >= actions'[a].required
    OBVIOUS
  <2>1. CASE Untouched(a)
    BY <2>1 DEF Untouched
  <2>2. CASE Proposed(a)
    <3>1. Voters(votes'[a], "approve") = {}
      BY <2>2 DEF Proposed, RowsInv, Voters
    <3>2. Approvals(votes'[a]) = 0
      BY <3>1, FS_EmptySet DEF Approvals
    <3>3. QED
      BY <2>2, <3>2 DEF Proposed
  <2>3. CASE Voted(a)
    BY <2>3 DEF Voted
  <2>4. CASE Finished(a)
    <3>1. Approvals(votes[a]) >= actions[a].required
      BY <2>4 DEF Finished, RowsInv
    <3>2. QED
      BY <2>4, <3>1 DEF Finished
  <2>5. QED
    BY <2>1, <2>2, <2>3, <2>4, ActionStep
<1>3. QED
  BY <1>1, <1>2, RowsCorrect, PTL DEF Spec

\* An action takes effect at most once per vote at or past its threshold.
THEOREM ExecutionsCorrect == Spec => []ExecutionsBounded
<1> USE DEF ExecutionsBounded
<1>1. Init => ExecutionsBounded
  BY DEF Init
<1>2. ShapeOK /\ RowsInv /\ ExecutionsBounded /\ [Next]_vars => ExecutionsBounded'
  <2> SUFFICES ASSUME ShapeOK, RowsInv, ExecutionsBounded, [Next]_vars,
                      NEW a \in ActionId, applied'[a] > 0
               PROVE  applied'[a] + actions'[a].required <= Cardinality(AllVoters(votes'[a])) + 1
    OBVIOUS
  <2>0. applied[a] \in Nat /\ actions[a].required \in Nat
    BY DEF ShapeOK, ActionRow
  <2>1. CASE Untouched(a)
    BY <2>1 DEF Untouched
  <2>2. CASE Proposed(a)
    BY <2>2 DEF Proposed, RowsInv
  <2>3. CASE Voted(a)
    <3>1. actions'[a].required = actions[a].required
      BY <2>3 DEF Voted
    <3>2. /\ Cardinality(AllVoters(votes[a])) \in Nat
          /\ Cardinality(AllVoters(votes'[a])) = Cardinality(AllVoters(votes[a])) + 1
          /\ Approvals(votes'[a]) \in Nat
          /\ Approvals(votes'[a]) <= Cardinality(AllVoters(votes'[a]))
      BY <2>3, ApprovalsGrow
    <3>3. CASE applied'[a] = applied[a]
      BY <2>0, <3>1, <3>2, <3>3
    <3>4. CASE applied'[a] = applied[a] + 1
      <4>1. Approvals(votes'[a]) >= actions[a].required
        BY <2>0, <2>3, <3>4 DEF Voted
      <4>2. QED
        BY <2>0, <3>1, <3>2, <3>4, <4>1
    <3>5. QED
      BY <2>3, <3>3, <3>4 DEF Voted
  <2>4. CASE Finished(a)
    BY <2>4 DEF Finished
  <2>5. QED
    BY <2>1, <2>2, <2>3, <2>4, ActionStep
<1>3. QED
  BY <1>1, <1>2, RowsCorrect, PTL DEF Spec

\* A stored vote is final, whatever requests interleave.
THEOREM VotesAreFinal == Spec => VotesFinal
<1>1. ShapeOK /\ RowsInv /\ [Next]_vars =>
        [\A a \in ActionId, d \in Did :
            votes[a][d] # "none" => votes'[a][d] = votes[a][d]]_vars
  <2> SUFFICES ASSUME ShapeOK, RowsInv, [Next]_vars, NEW a \in ActionId, NEW d \in Did,
                      votes[a][d] # "none"
               PROVE  votes'[a][d] = votes[a][d]
    OBVIOUS
  <2>1. CASE Voted(a)
    BY <2>1 DEF Voted, OneVoteAdded, ShapeOK
  <2>2. CASE ~Voted(a)
    BY <2>2, ActionStep DEF Untouched, Proposed, Finished
  <2>3. QED
    BY <2>1, <2>2
<1>2. QED
  BY <1>1, RowsCorrect, PTL DEF Spec, VotesFinal

----------------------------------------------------------------------------
(* Administrators.                                                         *)

\* The local change of an approved action, seen from the administrators.
LEMMA ExecuteEffect ==
    ASSUME ShapeOK, RowsInv, NEW r \in Request, ApproveAndExecute(r)
    PROVE  LET a == requests[r].action
               p == actions[a].payload IN
           /\ a \in ActionId
           /\ community = "active" /\ community' = "active"
           /\ Approvals(votes'[a]) >= actions[a].required
           /\ \/ admins' = admins
              \/ /\ actions[a].type = "admin_add"
                 /\ p \in Did /\ ~IsAdmin(p)
                 /\ admins' = [admins EXCEPT ![p] = "active"]
              \/ /\ actions[a].type = "admin_remove"
                 /\ p \in Did /\ IsAdmin(p)
                 /\ AdminCount > MIN_COMMUNITY_ADMINS
                 /\ admins' = [admins EXCEPT ![p] = "removed"]
<1> DEFINE a == requests[r].action
           p == actions[a].payload
<1>1. CountVote(requests[r], "approved") /\ requests[r].pc # "idle"
  BY DEF ApproveAndExecute, CountVote
<1>2. a \in ActionId
  BY <1>1, CountVoteType
<1>3. Approvals(votes'[a]) >= actions[a].required
  BY <1>1, <1>2, CountVoteEffect
<1>4. community = "active"
  BY <1>1, <1>2 DEF RowsInv
<1>5. community' = "active"
  BY <1>4 DEF ApproveAndExecute, ApplyLocalChange
<1>6. CASE actions[a].type = "admin_add"
  <2>1. ~IsAdmin(p) /\ admins' = [admins EXCEPT ![p] = "active"]
    BY <1>6 DEF ApproveAndExecute, ChangeAllowed, ApplyLocalChange
  <2>2. CASE p \in Did
    BY <1>2, <1>3, <1>4, <1>5, <1>6, <2>1, <2>2
  <2>3. CASE p \notin Did
    <3>1. admins' = admins
      BY <2>1, <2>3 DEF ShapeOK
    <3>2. QED
      BY <1>2, <1>3, <1>4, <1>5, <3>1
  <2>4. QED
    BY <2>2, <2>3
<1>7. CASE actions[a].type = "admin_remove"
  <2>1. /\ IsAdmin(p)
        /\ AdminCount > MIN_COMMUNITY_ADMINS
        /\ admins' = [admins EXCEPT ![p] = "removed"]
    BY <1>7 DEF ApproveAndExecute, ChangeAllowed, ApplyLocalChange
  <2>2. CASE p \in Did
    BY <1>2, <1>3, <1>4, <1>5, <1>7, <2>1, <2>2
  <2>3. CASE p \notin Did
    <3>1. admins' = admins
      BY <2>1, <2>3 DEF ShapeOK
    <3>2. QED
      BY <1>2, <1>3, <1>4, <1>5, <3>1
  <2>4. QED
    BY <2>2, <2>3
<1>8. CASE actions[a].type \notin {"admin_add", "admin_remove"}
  <2>1. admins' = admins
    BY <1>8 DEF ApproveAndExecute, ApplyLocalChange
  <2>2. QED
    BY <1>2, <1>3, <1>4, <1>5, <2>1
<1>9. QED
  BY <1>6, <1>7, <1>8

LEMMA OneAdminMore ==
    ASSUME NEW S \in SUBSET Did, NEW d \in Did, d \notin S
    PROVE  Cardinality(S \cup {d}) = Cardinality(S) + 1
  BY SubsetsOfDid, FS_AddElement

LEMMA OneAdminLess ==
    ASSUME NEW S \in SUBSET Did, NEW d \in S
    PROVE  Cardinality(S \ {d}) = Cardinality(S) - 1
  BY SubsetsOfDid, FS_RemoveElement

\* At most the founder administers a community that is not yet active.
LEMMA FounderAlone ==
    ASSUME NEW d \in Did
    PROVE  Cardinality({d}) = 1 /\ Cardinality({}) = 0
  BY FS_Singleton, FS_EmptySet

\* A community is active exactly while it has its minimum of administrators.
THEOREM QuorumKept == Spec => []ActiveHasQuorum
<1> USE DEF ActiveHasQuorum, MIN_COMMUNITY_ADMINS
<1>1. Init => ActiveHasQuorum
  <2> SUFFICES ASSUME Init PROVE ActiveHasQuorum
    OBVIOUS
  <2>1. ActiveAdmins = {}
    BY DEF Init, ActiveAdmins
  <2>2. AdminCount = 0
    BY <2>1, FS_EmptySet DEF AdminCount
  <2>3. QED
    BY <2>2 DEF Init
<1>2. ShapeOK /\ RowsInv /\ ActiveHasQuorum /\ [Next]_vars => ActiveHasQuorum'
  <2> SUFFICES ASSUME ShapeOK, RowsInv, ActiveHasQuorum, [Next]_vars
               PROVE  ActiveHasQuorum'
    OBVIOUS
  <2> DEFINE S == {d \in Did : admins'[d] = "active"}
  <2>0. AdminCount' = Cardinality(S)
    BY DEF AdminCount, ActiveAdmins
  <2>1. ASSUME NEW d \in Did, CreateCommunity(d) \/ \E k \in 1..2 : CrashWhileCreating(d, k)
        PROVE  ActiveHasQuorum'
    <3>1. community' = "pending_admins" /\ community = "none"
      BY <2>1 DEF CreateCommunity, CrashWhileCreating
    <3>2. S = {d} \/ S = {}
      BY <2>1, <3>1 DEF CreateCommunity, CrashWhileCreating, RowsInv, ShapeOK
    <3>3. Cardinality(S) \in {0, 1}
      BY <3>2, FounderAlone
    <3>4. QED
      BY <2>0, <3>1, <3>3
  <2>2. ASSUME NEW d \in Did, NEW named \in SUBSET Did, BootstrapAdmins(d, named)
        PROVE  ActiveHasQuorum'
    <3>1. S = ActiveAdmins \cup named
      BY <2>2 DEF BootstrapAdmins, ActiveAdmins
    <3>2. QED
      BY <2>0, <2>2, <3>1 DEF BootstrapAdmins
  <2>3. ASSUME NEW r \in Request, ApproveAndExecute(r) PROVE ActiveHasQuorum'
    <3> DEFINE p == actions[requests[r].action].payload
    <3>1. AdminCount \in Nat /\ AdminCount >= 3 /\ community' = "active"
      BY <2>3, AdminCountType, ExecuteEffect
    <3>2. CASE admins' = admins
      BY <3>1, <3>2 DEF AdminCount, ActiveAdmins
    <3>3. CASE p \in Did /\ ~IsAdmin(p) /\ admins' = [admins EXCEPT ![p] = "active"]
      <4>1. S = ActiveAdmins \cup {p} /\ p \notin ActiveAdmins /\ ActiveAdmins \in SUBSET Did
        BY <3>3 DEF ShapeOK, ActiveAdmins, IsAdmin
      <4>2. Cardinality(S) = AdminCount + 1
        BY <3>3, <4>1, OneAdminMore DEF AdminCount
      <4>3. QED
        BY <2>0, <3>1, <4>2
    <3>4. CASE /\ p \in Did /\ IsAdmin(p) /\ AdminCount > MIN_COMMUNITY_ADMINS
               /\ admins' = [admins EXCEPT ![p] = "removed"]
      <4>1. S = ActiveAdmins \ {p} /\ p \in ActiveAdmins /\ ActiveAdmins \in SUBSET Did
        BY <3>4 DEF ShapeOK, ActiveAdmins, IsAdmin
      <4>2. Cardinality(S) = AdminCount - 1
        BY <4>1, OneAdminLess DEF AdminCount
      <4>3. QED
        BY <2>0, <3>1, <3>4, <4>2
    <3>5. QED
      BY <2>3, <3>2, <3>3, <3>4, ExecuteEffect
  <2>4. CASE UNCHANGED <<community, admins>>
    BY <2>4 DEF AdminCount, ActiveAdmins
  <2>5. QED
    BY <2>1, <2>2, <2>3, <2>4
       DEF Next, vars, dbVars, ProposeAction, BeginVote, RefuseVote, RecordVote,
           ApproveAndFail, FinishExecution, Crash, CrashBeforeChange
<1>3. QED
  BY <1>1, <1>2, RowsCorrect, PTL DEF Spec

\* Once the community is active, administrators change only by governance.
THEOREM AdminChangesGoverned == Spec => AdminChangesNeedGovernance
<1> DEFINE Governed ==
        \A d \in Did :
          (community = "active" /\ IsAdmin(d)' # IsAdmin(d)) =>
              \E a \in ActionId :
                  /\ actions[a].type = IF IsAdmin(d) THEN "admin_remove" ELSE "admin_add"
                  /\ actions[a].payload = d
                  /\ Approvals(votes'[a]) >= actions[a].required
<1>1. ShapeOK /\ RowsInv /\ [Next]_vars => [Governed]_vars
  <2> SUFFICES ASSUME ShapeOK, RowsInv, [Next]_vars,
                      NEW d \in Did, community = "active", IsAdmin(d)' # IsAdmin(d)
               PROVE  \E a \in ActionId :
                  /\ actions[a].type = IF IsAdmin(d) THEN "admin_remove" ELSE "admin_add"
                  /\ actions[a].payload = d
                  /\ Approvals(votes'[a]) >= actions[a].required
    OBVIOUS
  <2>1. ASSUME NEW r \in Request, ApproveAndExecute(r)
        PROVE  \E a \in ActionId :
                  /\ actions[a].type = IF IsAdmin(d) THEN "admin_remove" ELSE "admin_add"
                  /\ actions[a].payload = d
                  /\ Approvals(votes'[a]) >= actions[a].required
    <3> DEFINE a == requests[r].action
               p == actions[a].payload
    <3>1. a \in ActionId /\ Approvals(votes'[a]) >= actions[a].required
      BY <2>1, ExecuteEffect
    <3>2. CASE admins' = admins
      BY <3>2 DEF IsAdmin
    <3>3. CASE /\ actions[a].type = "admin_add" /\ p \in Did /\ ~IsAdmin(p)
               /\ admins' = [admins EXCEPT ![p] = "active"]
      <4>1. d = p
        BY <3>3 DEF IsAdmin, ShapeOK
      <4>2. QED
        BY <3>1, <3>3, <4>1
    <3>4. CASE /\ actions[a].type = "admin_remove" /\ p \in Did /\ IsAdmin(p)
               /\ admins' = [admins EXCEPT ![p] = "removed"]
      <4>1. d = p
        BY <3>4 DEF IsAdmin, ShapeOK
      <4>2. QED
        BY <3>1, <3>4, <4>1
    <3>5. QED
      BY <2>1, <3>2, <3>3, <3>4, ExecuteEffect
  <2>2. CASE UNCHANGED admins
    BY <2>2 DEF IsAdmin
  <2>3. QED
    BY <2>1, <2>2
       DEF Next, vars, dbVars, CreateCommunity, CrashWhileCreating, BootstrapAdmins,
           BootstrapGuard, ProposeAction, BeginVote, RefuseVote, RecordVote,
           ApproveAndFail, FinishExecution, Crash, CrashBeforeChange
<1>2. QED
  BY <1>1, RowsCorrect, PTL DEF Spec, AdminChangesNeedGovernance


----------------------------------------------------------------------------
(* Who executes an approved action.                                        *)

Executes(r, a) == requests[r].pc = "syncing" /\ requests[r].action = a

LEMMA SyncingMeans ==
    \A a \in ActionId : a \in Syncing <=> \E r \in Request : Executes(r, a)
BY DEF Syncing, Executes

\* A step that ends no executing request leaves every action its executor.
LEMMA ExecutorsStay ==
    ASSUME ApprovedHasExecutor,
           \A a \in ActionId : actions'[a].status = "approved" =>
               \/ actions[a].status = "approved"
               \/ a \in stranded'
               \/ \E r \in Request : Executes(r, a)',
           \A a \in ActionId, r \in Request :
               Executes(r, a) /\ actions'[a].status = "approved" =>
                   a \in stranded' \/ Executes(r, a)',
           stranded \subseteq stranded'
    PROVE  ApprovedHasExecutor'
<1>1. \A a \in ActionId : a \in Syncing' <=> \E r \in Request : Executes(r, a)'
  BY DEF Syncing, Executes
<1>2. QED
  BY <1>1, SyncingMeans DEF ApprovedHasExecutor

\* A request that ends was executing the action that is not approved any more.
LEMMA OneRequestMoves ==
    ASSUME ShapeOK, NEW r \in Request, NEW row,
           requests' = [requests EXCEPT ![r] = row],
           NEW a \in ActionId, NEW q \in Request, q # r, Executes(q, a)
    PROVE  Executes(q, a)'
BY DEF ShapeOK, Executes

\* An approved action is executed by some request, but for a crash: nothing
\* else ends an executing request before the action's status says so
\* (voteOnAction, executeAction).
THEOREM ApprovedAreExecuted == Spec => []ApprovedHasExecutor
<1>1. Init => ApprovedHasExecutor
  BY DEF Init, AbsentRow, ApprovedHasExecutor
<1>2. ShapeOK /\ RowsInv /\ ApprovedHasExecutor /\ [Next]_vars => ApprovedHasExecutor'
  <2> SUFFICES ASSUME ShapeOK, RowsInv, ApprovedHasExecutor, [Next]_vars
               PROVE  ApprovedHasExecutor'
    OBVIOUS
  <2>1. CASE UNCHANGED <<actions, requests, stranded>>
    BY <2>1 DEF ApprovedHasExecutor, Syncing
  <2>2. ASSUME NEW d \in Did, NEW a \in ActionId, NEW t \in Types, NEW p \in Payload,
               ProposeAction(d, a, t, p)
        PROVE  ApprovedHasExecutor'
    <3>1. \A b \in ActionId : actions'[b].status = "approved" => actions[b].status = "approved"
      BY <2>2 DEF ProposeAction, ShapeOK
    <3>2. QED
      BY <2>2, <3>1, ExecutorsStay DEF ProposeAction, Executes
  <2>3. ASSUME NEW r \in Request, NEW d \in Did, NEW a \in ActionId, NEW v \in Ballot,
               BeginVote(r, d, a, v)
        PROVE  ApprovedHasExecutor'
    <3>1. \A b \in ActionId : ~Executes(r, b)
      BY <2>3 DEF BeginVote, NoRequest, Executes
    <3>2. QED
      BY <2>3, <3>1, ExecutorsStay, OneRequestMoves DEF BeginVote, dbVars
  <2>4. ASSUME NEW r \in Request, RefuseVote(r)
        PROVE  ApprovedHasExecutor'
    <3>1. \A b \in ActionId : ~Executes(r, b)
      BY <2>4 DEF RefuseVote, Executes
    <3>2. QED
      BY <2>4, <3>1, ExecutorsStay, OneRequestMoves DEF RefuseVote, dbVars
  <2>5. ASSUME NEW r \in Request, NEW status \in {"pending", "rejected", "failed"},
               CountVote(requests[r], CASE status = "failed" -> "approved"
                                        [] OTHER -> status),
               SetStatus(requests[r].action, status),
               requests' = [requests EXCEPT ![r] = NoRequest],
               stranded' = stranded
        PROVE  ApprovedHasExecutor'
    <3>1. \A b \in ActionId : ~Executes(r, b)
      BY <2>5 DEF CountVote, Executes
    <3>2. \A b \in ActionId : actions'[b].status = "approved" => actions[b].status = "approved"
      BY <2>5 DEF SetStatus, ShapeOK, ActionRow
    <3>3. QED
      BY <2>5, <3>1, <3>2, ExecutorsStay, OneRequestMoves
  <2>6. ASSUME NEW r \in Request, ApproveAndExecute(r)
        PROVE  ApprovedHasExecutor'
    <3> DEFINE row == [requests[r] EXCEPT !.pc = "syncing"]
    <3>1. requests' = [requests EXCEPT ![r] = row]
      BY <2>6 DEF ApproveAndExecute, ShapeOK
    <3>2. \A b \in ActionId : ~Executes(r, b)
      BY <2>6 DEF ApproveAndExecute, CountVote, Executes
    <3>3. \A b \in ActionId : b # requests[r].action => actions'[b] = actions[b]
      BY <2>6 DEF ApproveAndExecute, SetStatus, ShapeOK
    <3>4. requests[r] \in VoteRequest
      BY <2>6 DEF ApproveAndExecute, CountVote, ShapeOK, NoRequest
    <3>5. requests'[r].pc = "syncing" /\ requests'[r].action = requests[r].action
      BY <3>1, <3>4 DEF ShapeOK, VoteRequest
    <3>6. stranded' = stranded
      BY <2>6 DEF ApproveAndExecute
    <3> HIDE DEF row
    <3>7. \A b \in ActionId : actions'[b].status = "approved" =>
              \/ actions[b].status = "approved"
              \/ \E q \in Request : Executes(q, b)'
      <4> SUFFICES ASSUME NEW b \in ActionId, actions[b].status # "approved",
                          actions'[b].status = "approved"
                   PROVE  Executes(r, b)'
        OBVIOUS
      <4>1. b = requests[r].action
        BY <3>3
      <4>2. QED
        BY <3>5, <4>1 DEF Executes
    <3>8. QED
      BY <3>1, <3>2, <3>6, <3>7, ExecutorsStay, OneRequestMoves
  <2>7. ASSUME NEW r \in Request, FinishExecution(r)
        PROVE  ApprovedHasExecutor'
    <3>1. /\ requests' = [requests EXCEPT ![r] = NoRequest]
          /\ stranded' = stranded
          /\ actions' = [actions EXCEPT ![requests[r].action].status = "executed"]
      BY <2>7 DEF FinishExecution, SetStatus
    <3>2. \A b \in ActionId : actions'[b].status = "approved" =>
              actions[b].status = "approved" /\ b # requests[r].action
      BY <3>1 DEF ShapeOK, ActionRow
    <3>3. \A b \in ActionId : Executes(r, b) => b = requests[r].action
      BY DEF Executes
    <3>4. QED
      BY <3>1, <3>2, <3>3, ExecutorsStay, OneRequestMoves
  <2>8. CASE Crash
    <3>1. \A a \in ActionId, r \in Request : Executes(r, a) => a \in stranded'
      BY <2>8, SyncingMeans DEF Crash
    <3>2. QED
      BY <2>8, <3>1, ExecutorsStay DEF Crash, dbVars
  <2>9. ASSUME NEW r \in Request, CrashBeforeChange(r)
        PROVE  ApprovedHasExecutor'
    <3>1. \A a \in ActionId, q \in Request : Executes(q, a) => a \in stranded'
      BY <2>9, SyncingMeans DEF CrashBeforeChange
    <3>2. \A b \in ActionId : actions'[b].status = "approved" =>
              actions[b].status = "approved" \/ b \in stranded'
      BY <2>9 DEF CrashBeforeChange, SetStatus, ShapeOK
    <3>3. stranded \subseteq stranded'
      BY <2>9 DEF CrashBeforeChange
    <3>4. QED
      BY <3>1, <3>2, <3>3, ExecutorsStay
  <2>10. ASSUME NEW r \in Request, NEW verdict \in {"pending", "rejected"},
                RecordVote(r, verdict)
         PROVE  ApprovedHasExecutor'
    BY <2>5, <2>10 DEF RecordVote
  <2>11. ASSUME NEW r \in Request, ApproveAndFail(r)
         PROVE  ApprovedHasExecutor'
    BY <2>5, <2>11 DEF ApproveAndFail
  <2>12. QED
    BY <2>1, <2>2, <2>3, <2>4, <2>6, <2>7, <2>8, <2>9, <2>10, <2>11
       DEF Next, vars, CreateCommunity, CrashWhileCreating, BootstrapAdmins
<1>3. QED
  BY <1>1, <1>2, RowsCorrect, PTL DEF Spec
=============================================================================
