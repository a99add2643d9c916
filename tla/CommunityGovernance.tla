------------------------- MODULE CommunityGovernance -------------------------
(***************************************************************************)
(* Collective administration of one community: its administrators, the     *)
(* actions they propose, the signed votes they cast, and the execution of  *)
(* an action that has gathered enough approvals.                           *)
(*                                                                         *)
(* The server runs JavaScript on one thread over a synchronous SQLite      *)
(* binding, so a handler is atomic between two awaits.  A vote request     *)
(* awaits twice: while the voter's DID document is resolved to verify the  *)
(* signature (pc "verifying"), and while an executed action is written to  *)
(* the community's repository (pc "syncing").  Other requests run there,   *)
(* and the process may die there or between two statements.                *)
(***************************************************************************)
EXTENDS Naturals, FiniteSets

CONSTANTS Did,        \* people who may found, administer or vote
          ActionId,   \* ids of proposed actions (random UUIDs in the code)
          Request,    \* vote requests the server can hold at once (a bound)
          Types,      \* action types proposed in this instance
          NoDid, NoAction   \* SQL NULL / JavaScript undefined

AllTypes == {"blog_post", "ruleset_mod", "name_change", "compass_change",
             "manifesto_update", "admin_add", "admin_remove"}

ASSUME ConstantsAssumption ==
    /\ IsFiniteSet(Did)
    /\ Types \subseteq AllTypes
    /\ NoDid \notin Did
    /\ NoAction \notin ActionId

VARIABLES
    community,  \* communities.status, or "none" before the row exists
    bootstrapUsed,  \* communities.bootstrap_used_at is set
    keys,       \* communities.signing_key_public is set
    admins,     \* community_admins.status of each DID, or "none"
    actions,    \* community_actions, one row per id
    votes,      \* community_action_votes.vote of each (action, admin), or "none"
    requests,   \* vote requests being handled
    applied,    \* history: how often an action's local change was applied
    stranded    \* history: actions whose executing request died in a crash

dbVars == <<community, bootstrapUsed, keys, admins, actions, votes>>
vars == <<community, bootstrapUsed, keys, admins, actions, votes,
          requests, applied, stranded>>

----------------------------------------------------------------------------
(* Rows and requests.                                                      *)

MIN_COMMUNITY_ADMINS == 3

ActionStatus == {"none", "pending", "approved", "rejected", "executed", "failed"}
Ballot == {"approve", "reject"}

\* An update action carries recognised fields or none; an administrator
\* action carries the DID it is about.
Payload == Did \cup {"fields", "empty"}

ActionRow == [status: ActionStatus, type: AllTypes, payload: Payload, required: Nat]
AbsentRow == [status |-> "none", type |-> "blog_post", payload |-> "fields",
              required |-> 0]

NoRequest == [pc |-> "idle", action |-> NoAction, did |-> NoDid, vote |-> "none"]
VoteRequest == [pc: {"verifying", "syncing"}, action: ActionId, did: Did,
                vote: Ballot]

ActiveAdmins == {d \in Did : admins[d] = "active"}
AdminCount == Cardinality(ActiveAdmins)
IsAdmin(d) == admins[d] = "active"

\* The voters of a ballot box (the votes of one action) who cast v, or any vote.
Voters(box, v) == {d \in Did : box[d] = v}
AllVoters(box) == {d \in Did : box[d] # "none"}
Approvals(box) == Cardinality(Voters(box, "approve"))

LowImpact == {"blog_post", "ruleset_mod"}

\* A high impact action needs the vote of every current administrator.
RequiredApprovals(t) ==
    IF t \in LowImpact THEN 2 ELSE IF AdminCount > 3 THEN AdminCount ELSE 3

----------------------------------------------------------------------------
Init ==
    /\ community = "none"
    /\ bootstrapUsed = FALSE
    /\ keys = FALSE
    /\ admins = [d \in Did |-> "none"]
    /\ actions = [a \in ActionId |-> AbsentRow]
    /\ votes = [a \in ActionId |-> [d \in Did |-> "none"]]
    /\ requests = [r \in Request |-> NoRequest]
    /\ applied = [a \in ActionId |-> 0]
    /\ stranded = {}

(***************************************************************************)
(* Creating a community writes its row, then its founder, then its keys,   *)
(* in separate statements outside any transaction.                         *)
(***************************************************************************)
CreateCommunity(founder) ==
    /\ community = "none"
    /\ community' = "pending_admins"
    /\ admins' = [admins EXCEPT ![founder] = "active"]
    /\ keys' = TRUE
    /\ UNCHANGED <<bootstrapUsed, actions, votes, requests, applied, stranded>>

\* The process dies after the community row (k = 1) or the founder row
\* (k = 2).  No request on this community exists yet, so none is lost.
CrashWhileCreating(founder, k) ==
    /\ community = "none"
    /\ community' = "pending_admins"
    /\ admins' = IF k = 2 THEN [admins EXCEPT ![founder] = "active"] ELSE admins
    /\ UNCHANGED <<bootstrapUsed, keys, actions, votes, requests, applied, stranded>>

\* Mutant of BootstrapGuard: any administrator may bootstrap at any time.
BootstrapGuardAdminOnly(d) == IsAdmin(d)

BootstrapGuard(d) ==
    /\ community = "pending_admins"
    /\ ~bootstrapUsed
    /\ IsAdmin(d)

\* The founder names the first administrators, once, in one transaction.
BootstrapAdmins(d, named) ==
    /\ BootstrapGuard(d)
    /\ Cardinality(ActiveAdmins \cup named) >= MIN_COMMUNITY_ADMINS
    /\ admins' = [e \in Did |-> IF e \in named THEN "active" ELSE admins[e]]
    /\ bootstrapUsed' = TRUE
    /\ community' = "active"
    /\ UNCHANGED <<keys, actions, votes, requests, applied, stranded>>

----------------------------------------------------------------------------
(* Proposals.                                                              *)

PayloadAccepted(d, t, p) ==
    CASE t = "admin_add" -> p \in Did /\ ~IsAdmin(p)
      [] t = "admin_remove" -> /\ p \in Did
                               /\ p # d
                               /\ IsAdmin(p)
                               /\ AdminCount > 3
      [] t = "blog_post" -> p = "fields"
      [] OTHER -> p \in {"fields", "empty"}

\* Mutant of ProposeAction: an action may be proposed before the community has
\* its administrators.
ProposeActionEarly(d, a, t, p) ==
    /\ actions[a].status = "none"
    /\ IsAdmin(d)
    /\ PayloadAccepted(d, t, p)
    /\ actions' = [actions EXCEPT ![a] =
           [status |-> "pending", type |-> t, payload |-> p,
            required |-> RequiredApprovals(t)]]
    /\ UNCHANGED <<community, bootstrapUsed, keys, admins, votes, requests,
                   applied, stranded>>

ProposeAction(d, a, t, p) ==
    /\ actions[a].status = "none"
    /\ community = "active"
    /\ IsAdmin(d)
    /\ PayloadAccepted(d, t, p)
    /\ actions' = [actions EXCEPT ![a] =
           [status |-> "pending", type |-> t, payload |-> p,
            required |-> RequiredApprovals(t)]]
    /\ UNCHANGED <<community, bootstrapUsed, keys, admins, votes, requests,
                   applied, stranded>>

----------------------------------------------------------------------------
(* Executing an approved action: its local change.                         *)

\* Mutant of ChangeAllowed: removal trusts the count checked at the proposal.
ChangeAllowedUncounted(t, p) ==
    CASE t = "admin_add" -> ~IsAdmin(p)
      [] t = "admin_remove" -> IsAdmin(p)
      [] t = "blog_post" -> TRUE
      [] OTHER -> p = "fields"

\* The change goes through, rather than throwing inside the executor.
ChangeAllowed(t, p) ==
    CASE t = "admin_add" -> ~IsAdmin(p)
      [] t = "admin_remove" -> AdminCount > MIN_COMMUNITY_ADMINS /\ IsAdmin(p)
      [] t = "blog_post" -> TRUE
      [] OTHER -> p = "fields"

ApplyLocalChange(t, p) ==
    /\ admins' = CASE t = "admin_add" -> [admins EXCEPT ![p] = "active"]
                   [] t = "admin_remove" -> [admins EXCEPT ![p] = "removed"]
                   [] OTHER -> admins
    /\ community' = IF /\ t = "admin_add"
                       /\ community = "pending_admins"
                       /\ AdminCount + 1 >= MIN_COMMUNITY_ADMINS
                    THEN "active" ELSE community

----------------------------------------------------------------------------
(* Votes.                                                                  *)

\* The checks before the first await.  They are not repeated after it.
BeginVote(r, d, a, v) ==
    /\ requests[r] = NoRequest
    /\ actions[a].status = "pending"
    /\ IsAdmin(d)
    /\ requests' = [requests EXCEPT ![r] =
           [pc |-> "verifying", action |-> a, did |-> d, vote |-> v]]
    /\ UNCHANGED <<dbVars, applied, stranded>>

\* The DID does not resolve, no usable key, a bad signature, a second vote by
\* the same DID, or a nonce already used: the request ends with an error.
RefuseVote(r) ==
    /\ requests[r].pc = "verifying"
    /\ requests' = [requests EXCEPT ![r] = NoRequest]
    /\ UNCHANGED <<dbVars, applied, stranded>>

\* Mutant of Verdict: every vote is counted as an approval.
VerdictCountingAll(row, box) ==
    IF Cardinality(AllVoters(box)) >= row.required THEN "approved"
    ELSE IF Cardinality(Voters(box, "reject")) + row.required > AdminCount
    THEN "rejected" ELSE "pending"

\* The status the vote transaction writes, counting the inserted vote too.
Verdict(row, box) ==
    IF Approvals(box) >= row.required THEN "approved"
    ELSE IF Cardinality(Voters(box, "reject")) + row.required > AdminCount
    THEN "rejected" ELSE "pending"

\* The ballot box of the request's action with the request's vote in it.
BoxWith(q) == [votes[q.action] EXCEPT ![q.did] = q.vote]

\* Mutant of CountVote: a second vote of one person replaces the first.
CountVoteReplacing(q, verdict) ==
    /\ q.pc = "verifying"
    /\ verdict = Verdict(actions[q.action], BoxWith(q))
    /\ votes' = [votes EXCEPT ![q.action] = BoxWith(q)]

\* The transaction: the vote is inserted and the action gets this verdict.
CountVote(q, verdict) ==
    /\ q.pc = "verifying"
    /\ votes[q.action][q.did] = "none"
    /\ verdict = Verdict(actions[q.action], BoxWith(q))
    /\ votes' = [votes EXCEPT ![q.action] = BoxWith(q)]

SetStatus(a, s) == actions' = [actions EXCEPT ![a].status = s]

\* A verified vote that does not approve the action.
RecordVote(r, verdict) ==
    LET q == requests[r] IN
    /\ CountVote(q, verdict)
    /\ SetStatus(q.action, verdict)
    /\ requests' = [requests EXCEPT ![r] = NoRequest]
    /\ UNCHANGED <<community, bootstrapUsed, keys, admins, applied, stranded>>

\* A verified vote that approves the action: its local change is made in the
\* same turn, and the request goes on to the repository sync.
ApproveAndExecute(r) ==
    LET q == requests[r]
        row == actions[q.action] IN
    /\ CountVote(q, "approved")
    /\ ChangeAllowed(row.type, row.payload)
    /\ ApplyLocalChange(row.type, row.payload)
    /\ SetStatus(q.action, "approved")
    /\ requests' = [requests EXCEPT ![r].pc = "syncing"]
    /\ applied' = [applied EXCEPT ![q.action] = @ + 1]
    /\ UNCHANGED <<bootstrapUsed, keys, stranded>>

\* The local change throws: the action fails in the same turn.
ApproveAndFail(r) ==
    LET q == requests[r]
        row == actions[q.action] IN
    /\ CountVote(q, "approved")
    /\ ~ChangeAllowed(row.type, row.payload)
    /\ SetStatus(q.action, "failed")
    /\ requests' = [requests EXCEPT ![r] = NoRequest]
    /\ UNCHANGED <<community, bootstrapUsed, keys, admins, applied, stranded>>

\* Mutant of FinishExecution: a failing sync leaves the action as it is.
FinishExecutionRethrowing(r) ==
    /\ requests[r].pc = "syncing"
    /\ actions' = actions
    /\ requests' = [requests EXCEPT ![r] = NoRequest]
    /\ UNCHANGED <<community, bootstrapUsed, keys, admins, votes, applied, stranded>>

\* The repository sync returns or throws: either way the action is executed.
FinishExecution(r) ==
    /\ requests[r].pc = "syncing"
    /\ SetStatus(requests[r].action, "executed")
    /\ requests' = [requests EXCEPT ![r] = NoRequest]
    /\ UNCHANGED <<community, bootstrapUsed, keys, admins, votes, applied, stranded>>

----------------------------------------------------------------------------
(* The process dies: what was being handled is lost, the database stays.   *)

Syncing == {requests[r].action : r \in {s \in Request : requests[s].pc = "syncing"}}

Crash ==
    /\ requests' = [r \in Request |-> NoRequest]
    /\ stranded' = stranded \cup Syncing
    /\ UNCHANGED <<dbVars, applied>>

\* It dies after the vote transaction committed an approval and before the
\* local change.
CrashBeforeChange(r) ==
    LET q == requests[r] IN
    /\ CountVote(q, "approved")
    /\ SetStatus(q.action, "approved")
    /\ requests' = [s \in Request |-> NoRequest]
    /\ stranded' = stranded \cup Syncing \cup {q.action}
    /\ UNCHANGED <<community, bootstrapUsed, keys, admins, applied>>

----------------------------------------------------------------------------
Next ==
    \/ \E d \in Did : CreateCommunity(d)
    \/ \E d \in Did, k \in 1..2 : CrashWhileCreating(d, k)
    \/ \E d \in Did, named \in SUBSET Did : BootstrapAdmins(d, named)
    \/ \E d \in Did, a \in ActionId, t \in Types, p \in Payload :
          ProposeAction(d, a, t, p)
    \/ \E r \in Request, d \in Did, a \in ActionId, v \in Ballot :
          BeginVote(r, d, a, v)
    \/ \E r \in Request : RefuseVote(r)
    \/ \E r \in Request, verdict \in {"pending", "rejected"} : RecordVote(r, verdict)
    \/ \E r \in Request : ApproveAndExecute(r)
    \/ \E r \in Request : ApproveAndFail(r)
    \/ \E r \in Request : FinishExecution(r)
    \/ Crash
    \/ \E r \in Request : CrashBeforeChange(r)

Spec == Init /\ [][Next]_vars

----------------------------------------------------------------------------
(* Properties.                                                             *)

\* The rows and requests as records.
ShapeOK ==
    /\ community \in {"none", "pending_admins", "active"}
    /\ bootstrapUsed \in BOOLEAN
    /\ keys \in BOOLEAN
    /\ admins \in [Did -> {"none", "active", "removed"}]
    /\ actions \in [ActionId -> ActionRow]
    /\ votes \in [ActionId -> [Did -> Ballot \cup {"none"}]]
    /\ requests \in [Request -> VoteRequest \cup {NoRequest}]
    /\ applied \in [ActionId -> Nat]
    /\ stranded \subseteq ActionId

\* Every row and request has the shape the code gives it.  An action has a row
\* before anybody votes on it, and so does what a request in flight is about;
\* and only an active community has actions (proposeAction, voteOnAction).
TypeOK ==
    /\ ShapeOK
    /\ \A a \in ActionId : actions[a].status = "none" =>
          /\ votes[a] = [d \in Did |-> "none"]
          /\ applied[a] = 0
    /\ \A r \in Request : requests[r] # NoRequest =>
          actions[requests[r].action].status # "none"
    /\ community # "active" => \A a \in ActionId : actions[a].status = "none"

\* A community is active exactly when it has its minimum of administrators:
\* however many removals were approved side by side, and in whatever order
\* they execute, the last three stay (removeAdmin, bootstrapCommunityAdmins).
ActiveHasQuorum ==
    community = "active" <=> AdminCount >= MIN_COMMUNITY_ADMINS

\* The status of an action agrees with its votes at all times, also when late
\* votes are counted after it was decided: it is past approval exactly when
\* the approvals reach the number frozen at the proposal (voteOnAction).
OutcomeMatchesVotes ==
    \A a \in ActionId :
        actions[a].status \in {"approved", "executed", "failed"}
            <=> /\ actions[a].status # "none"
                /\ Approvals(votes[a]) >= actions[a].required

\* An action changes the community at most once for each vote cast at or past
\* its threshold, and never below it (voteOnAction, executeApprovedAction).
ExecutionsBounded ==
    \A a \in ActionId :
        applied[a] > 0 =>
            applied[a] + actions[a].required <= Cardinality(AllVoters(votes[a])) + 1

\* "Votes are final": no interleaving of two requests of one administrator
\* changes or removes a vote once it is stored.
VotesFinal ==
    [][\A a \in ActionId, d \in Did :
          votes[a][d] # "none" => votes'[a][d] = votes[a][d]]_vars

\* "Future admin changes require governance": once the community is active,
\* an administrator is added or removed only by an action about that person
\* whose approvals reach its threshold.
AdminChangesNeedGovernance ==
    [][\A d \in Did :
          (community = "active" /\ IsAdmin(d)' # IsAdmin(d)) =>
              \E a \in ActionId :
                  /\ actions[a].type = IF IsAdmin(d) THEN "admin_remove" ELSE "admin_add"
                  /\ actions[a].payload = d
                  /\ Approvals(votes'[a]) >= actions[a].required]_vars

\* An approved action is being executed by some request, unless the request
\* that executed it died in a crash; nothing else leaves it half way.
ApprovedHasExecutor ==
    \A a \in ActionId :
        actions[a].status = "approved" => a \in Syncing \cup stranded

\* What the API description says of a vote on an action that is decided: it
\* is refused (409).  The code checks the status only before the await.
VotesOnlyWhilePending ==
    [][\A a \in ActionId :
          votes'[a] # votes[a] => actions[a].status = "pending"]_vars
=============================================================================
