-------------------------- MODULE GrantBroker_proofs --------------------------
(***************************************************************************)
(* The safety properties of GrantBroker, for any sets of grants, artifacts *)
(* and concurrent requests, and any number of claims in a grant.           *)
(***************************************************************************)
EXTENDS GrantBroker, TLAPS

----------------------------------------------------------------------------
(* Bounded sequences.                                                      *)

LEMMA SeqUpToElim ==
    ASSUME NEW S, NEW n \in Nat, NEW s \in SeqUpTo(S, n)
    PROVE  s \in Seq(S) /\ Len(s) \in 0..n /\ DOMAIN s = 1..Len(s)
<1>1. PICK k \in 0..n : s \in [1..k -> S]
  BY DEF SeqUpTo
<1>2. k \in Nat
  BY <1>1
<1>3. QED
  BY <1>1, <1>2

LEMMA SeqUpToIntro ==
    ASSUME NEW S, NEW n \in Nat, NEW s \in Seq(S), Len(s) <= n
    PROVE  s \in SeqUpTo(S, n)
<1>1. Len(s) \in 0..n /\ s \in [1..Len(s) -> S]
  OBVIOUS
<1>2. QED
  BY <1>1 DEF SeqUpTo

LEMMA SeqUpToAppend ==
    ASSUME NEW S, NEW n \in Nat, NEW s \in SeqUpTo(S, n), Len(s) < n, NEW e \in S
    PROVE  /\ Append(s, e) \in SeqUpTo(S, n)
           /\ Len(Append(s, e)) = Len(s) + 1
           /\ DOMAIN Append(s, e) = DOMAIN s \cup {Len(s) + 1}
           /\ \A i \in DOMAIN s : Append(s, e)[i] = s[i]
           /\ Append(s, e)[Len(s) + 1] = e
<1>1. s \in Seq(S) /\ Len(s) \in Nat /\ DOMAIN s = 1..Len(s)
  BY SeqUpToElim
<1>2. Append(s, e) \in Seq(S) /\ Len(Append(s, e)) = Len(s) + 1
  BY <1>1
<1>3. Append(s, e) \in SeqUpTo(S, n)
  <2>1. Len(Append(s, e)) <= n
    BY <1>1, <1>2
  <2>2. QED
    BY <1>2, <2>1, SeqUpToIntro, Zenon
<1>4. DOMAIN Append(s, e) = DOMAIN s \cup {Len(s) + 1}
  BY <1>1, <1>2
<1>5. /\ \A i \in DOMAIN s : Append(s, e)[i] = s[i]
      /\ Append(s, e)[Len(s) + 1] = e
  <2>1. \A i \in 1..Len(s) : Append(s, e)[i] = s[i]
    BY <1>1
  <2>2. Append(s, e)[Len(s) + 1] = e
    BY <1>1
  <2>3. QED
    BY <1>1, <2>1, <2>2
<1>6. QED
  BY <1>2, <1>3, <1>4, <1>5

LEMMA EmptySeqUpTo ==
    ASSUME NEW S, NEW n \in Nat
    PROVE  <<>> \in SeqUpTo(S, n) /\ Len(<<>>) = 0 /\ DOMAIN <<>> = {}
<1>1. <<>> \in Seq(S) /\ Len(<<>>) = 0
  OBVIOUS
<1>2. DOMAIN <<>> = {}
  OBVIOUS
<1>3. Len(<<>>) <= n
  BY <1>1
<1>4. <<>> \in SeqUpTo(S, n)
  BY <1>1, <1>3, SeqUpToIntro, Zenon
<1>5. QED
  BY <1>1, <1>2, <1>4

----------------------------------------------------------------------------
(* The inductive invariant.                                                *)

\* Only a grant that was requested has artifacts, and it asks for something.
RowsOK ==
    /\ \A g \in Grant : grants[g].status = "pending" => Len(grants[g].claims) > 0
    /\ \A p \in Proof : artifacts[p].grant \in Grant =>
          grants[artifacts[p].grant].status # "none"

\* The artifacts of a list are those of the first claims of a grant.
Proves(made, g) ==
    \A i \in DOMAIN made :
        /\ artifacts[made[i]].grant = g
        /\ artifacts[made[i]].kind = grants[g].claims[i]

\* An approval has stored an artifact for each claim before the one it is at.
ApprovalsOK ==
    \A r \in Request : requests[r].pc = "approving" =>
        /\ grants[requests[r].grant].status # "none"
        /\ Len(requests[r].made) < Len(grants[requests[r].grant].claims)
        /\ Proves(requests[r].made, requests[r].grant)

BrokerInv == TypeOK /\ RowsOK /\ ApprovalsOK /\ ApprovedGrantsListTheirProofs

----------------------------------------------------------------------------
(* Types.                                                                  *)

LEMMA ApprovalType ==
    ASSUME TypeOK, NEW r \in Request, requests[r].pc = "approving"
    PROVE  /\ requests[r] \in [pc: {"approving"}, grant: Grant,
                               made: SeqUpTo(Proof, MaxClaims)]
           /\ requests[r].grant \in Grant /\ requests[r].grant \in GrantId
           /\ requests[r].made \in SeqUpTo(Proof, MaxClaims)
<1>1. requests[r] \in [pc: {"approving"}, grant: Grant, made: SeqUpTo(Proof, MaxClaims)]
  BY DEF TypeOK, PendingRequest, NoRequest
<1>2. QED
  BY <1>1 DEF GrantId

LEMMA GrantType ==
    ASSUME TypeOK, NEW g \in GrantId
    PROVE  /\ grants[g] \in GrantRow
           /\ grants[g].status \in {"none", "pending", "approved", "revoked"}
           /\ grants[g].claims \in Seq(Kinds)
           /\ Len(grants[g].claims) \in 0..MaxClaims
           /\ DOMAIN grants[g].claims = 1..Len(grants[g].claims)
<1>1. grants[g] \in GrantRow
  BY DEF TypeOK
<1>2. grants[g].claims \in SeqUpTo(Kinds, MaxClaims)
  BY <1>1 DEF GrantRow
<1>3. QED
  BY <1>1, <1>2, SeqUpToElim, ConstantsAssumption DEF GrantRow

\* An artifact that belongs to a grant is a row, and no id is a grant's until then.
LEMMA ArtifactType ==
    ASSUME TypeOK, NEW p \in Proof
    PROVE  /\ artifacts[p] \in Artifact \cup {NoArtifact}
           /\ artifacts[p].grant \in GrantId => artifacts[p] \in Artifact
           /\ artifacts[p] = NoArtifact => artifacts[p].grant \notin GrantId
  BY ConstantsAssumption DEF TypeOK, NoArtifact, Artifact, GrantId

LEMMA CurrentClaimType ==
    ASSUME BrokerInv, NEW r \in Request, requests[r].pc = "approving"
    PROVE  /\ CurrentClaim(requests[r]) \in Kinds
           /\ CurrentClaim(requests[r])
                 = grants[requests[r].grant].claims[Len(requests[r].made) + 1]
           /\ Len(requests[r].made) \in Nat
           /\ Len(requests[r].made) < MaxClaims
<1> DEFINE q == requests[r]
<1>1. q.grant \in GrantId /\ q.made \in SeqUpTo(Proof, MaxClaims)
  BY ApprovalType DEF BrokerInv
<1>2. Len(q.made) < Len(grants[q.grant].claims)
  BY DEF BrokerInv, ApprovalsOK
<1>3. Len(q.made) \in Nat
  BY <1>1, SeqUpToElim, ConstantsAssumption
<1>4. /\ grants[q.grant].claims \in Seq(Kinds)
      /\ Len(grants[q.grant].claims) \in 0..MaxClaims
  BY <1>1, GrantType DEF BrokerInv
<1>5. Len(q.made) + 1 \in 1..Len(grants[q.grant].claims)
  BY <1>2, <1>3, <1>4
<1>6. grants[q.grant].claims[Len(q.made) + 1] \in Kinds
  BY <1>4, <1>5
<1>7. Len(q.made) < MaxClaims
  BY <1>2, <1>3, <1>4, ConstantsAssumption
<1>8. QED
  BY <1>3, <1>6, <1>7 DEF CurrentClaim

LEMMA InsertType ==
    ASSUME TypeOK, NEW p \in Proof, NEW g \in GrantId, NEW k \in Kinds, Insert(p, g, k)
    PROVE  /\ artifacts' \in [Proof -> Artifact \cup {NoArtifact}]
           /\ artifacts[p] = NoArtifact
           /\ artifacts'[p] = [status |-> "active", grant |-> g, kind |-> k]
           /\ \A o \in Proof \ {p} : artifacts'[o] = artifacts[o]
<1>1. FreshArtifact(g, k) \in Artifact
  BY DEF FreshArtifact, Artifact, ArtifactStatus
<1>2. QED
  BY <1>1 DEF Insert, TypeOK, FreshArtifact

LEMMA InitTypeOK == Init => TypeOK
<1>1. NoGrantRow \in GrantRow
  <2>1. <<>> \in SeqUpTo(Kinds, MaxClaims) /\ <<>> \in SeqUpTo(Proof, MaxClaims)
    BY EmptySeqUpTo, ConstantsAssumption
  <2>2. QED
    BY <2>1 DEF NoGrantRow, GrantRow
<1>2. QED
  BY <1>1 DEF Init, TypeOK

LEMMA NextTypeOK == BrokerInv /\ [Next]_vars => TypeOK'
<1> SUFFICES ASSUME BrokerInv, TypeOK, [Next]_vars PROVE TypeOK'
  BY DEF BrokerInv
<1>0. MaxClaims \in Nat /\ Grant \subseteq GrantId
  BY ConstantsAssumption DEF GrantId
<1>1. ASSUME NEW g \in Grant, NEW claims \in SeqUpTo(Kinds, MaxClaims),
             RequestGrant(g, claims)
      PROVE  TypeOK'
  <2>1. [status |-> "pending", claims |-> claims, proofs |-> <<>>] \in GrantRow
    <3>1. <<>> \in SeqUpTo(Proof, MaxClaims)
      BY <1>0, EmptySeqUpTo
    <3>2. QED
      BY <3>1 DEF GrantRow
  <2>2. QED
    BY <1>1, <1>0, <2>1 DEF RequestGrant, TypeOK
<1>2. ASSUME NEW r \in Request, NEW g \in Grant, BeginApproval(r, g) PROVE TypeOK'
  <2>1. [pc |-> "approving", grant |-> g, made |-> <<>>] \in PendingRequest
    <3>1. <<>> \in SeqUpTo(Proof, MaxClaims)
      BY <1>0, EmptySeqUpTo
    <3>2. QED
      BY <3>1 DEF PendingRequest
  <2>2. QED
    BY <1>2, <2>1 DEF BeginApproval, TypeOK
<1>3. ASSUME NEW r \in Request, NEW p \in Proof, StoreClaim(r, p) PROVE TypeOK'
  <2> DEFINE q == requests[r]
  <2>0. q.pc = "approving"
    BY <1>3 DEF StoreClaim
  <2>1. /\ q \in [pc: {"approving"}, grant: Grant, made: SeqUpTo(Proof, MaxClaims)]
        /\ CurrentClaim(q) \in Kinds /\ Len(q.made) < MaxClaims
        /\ q.grant \in GrantId /\ q.made \in SeqUpTo(Proof, MaxClaims)
    BY <2>0, ApprovalType, CurrentClaimType
  <2>2. artifacts' \in [Proof -> Artifact \cup {NoArtifact}]
    <3>1. Insert(p, q.grant, CurrentClaim(q))
      BY <1>3 DEF StoreClaim
    <3>2. QED
      BY <3>1, <2>1, InsertType
  <2>3. Append(q.made, p) \in SeqUpTo(Proof, MaxClaims)
    BY <1>0, <2>1, SeqUpToAppend
  <2>4. [q EXCEPT !.made = Append(q.made, p)] \in PendingRequest
    BY <2>1, <2>3 DEF PendingRequest
  <2>5. requests' = [requests EXCEPT ![r] = [q EXCEPT !.made = Append(q.made, p)]]
    BY <1>3 DEF StoreClaim, TypeOK
  <2>6. requests' \in [Request -> PendingRequest \cup {NoRequest}]
    BY <2>4, <2>5 DEF TypeOK
  <2>7. QED
    BY <1>3, <2>2, <2>6 DEF StoreClaim, TypeOK
<1>4. ASSUME NEW r \in Request, NEW p \in Proof, FinishApproval(r, p) PROVE TypeOK'
  <2> DEFINE q == requests[r]
  <2>0. q.pc = "approving"
    BY <1>4 DEF FinishApproval
  <2>1. /\ CurrentClaim(q) \in Kinds /\ Len(q.made) < MaxClaims
        /\ q.grant \in GrantId /\ q.made \in SeqUpTo(Proof, MaxClaims)
    BY <2>0, ApprovalType, CurrentClaimType
  <2>2. artifacts' \in [Proof -> Artifact \cup {NoArtifact}]
    <3>1. Insert(p, q.grant, CurrentClaim(q))
      BY <1>4 DEF FinishApproval
    <3>2. QED
      BY <3>1, <2>1, InsertType
  <2>3. Append(q.made, p) \in SeqUpTo(Proof, MaxClaims)
    BY <1>0, <2>1, SeqUpToAppend
  <2>4. Approved(grants[q.grant], q.made, p) \in GrantRow
    <3>1. grants[q.grant] \in GrantRow
      BY <2>1, GrantType
    <3>2. QED
      BY <3>1, <2>3 DEF Approved, GrantRow
  <2>5. grants' = [grants EXCEPT ![q.grant] = Approved(grants[q.grant], q.made, p)]
    BY <1>4 DEF FinishApproval
  <2>6. grants' \in [GrantId -> GrantRow]
    BY <2>4, <2>5 DEF TypeOK
  <2>7. requests' \in [Request -> PendingRequest \cup {NoRequest}]
    BY <1>4 DEF FinishApproval, End, TypeOK
  <2>8. QED
    BY <1>4, <2>2, <2>6, <2>7 DEF FinishApproval, TypeOK
<1>5. ASSUME NEW r \in Request, BeginDirectVerify(r) PROVE TypeOK'
  <2>1. [NoRequest EXCEPT !.pc = "verifying"] \in PendingRequest
    BY DEF NoRequest, PendingRequest
  <2>2. requests' = [requests EXCEPT ![r] = [NoRequest EXCEPT !.pc = "verifying"]]
    BY <1>5 DEF BeginDirectVerify, TypeOK
  <2>3. QED
    BY <1>5, <2>1, <2>2 DEF BeginDirectVerify, TypeOK
<1>6. ASSUME NEW r \in Request, NEW p \in Proof, NEW k \in Kinds,
             FinishDirectVerify(r, p, k)
      PROVE  TypeOK'
  <2>1. FreshArtifact(DirectVerify, k) \in Artifact
    BY DEF FreshArtifact, Artifact, ArtifactStatus, GrantId
  <2>2. artifacts' \in [Proof -> Artifact \cup {NoArtifact}]
    BY <1>6, <2>1 DEF FinishDirectVerify, TypeOK
  <2>3. QED
    BY <1>6, <2>2 DEF FinishDirectVerify, End, TypeOK
<1>7. ASSUME NEW g \in Grant, RevokeGrant(g) PROVE TypeOK'
  <2>1. [grants[g] EXCEPT !.status = "revoked"] \in GrantRow
    BY <1>0, GrantType DEF GrantRow
  <2>2. grants' = [grants EXCEPT ![g] = [grants[g] EXCEPT !.status = "revoked"]]
    BY <1>7, <1>0 DEF RevokeGrant, TypeOK
  <2>3. \A p \in ProofsOf(g) : [artifacts[p] EXCEPT !.status = "revoked"] \in Artifact
    BY <1>0, ArtifactType DEF ProofsOf, Artifact, ArtifactStatus
  <2>4. artifacts' \in [Proof -> Artifact \cup {NoArtifact}]
    BY <1>7, <2>3 DEF RevokeGrant, RevokedProofs, TypeOK
  <2>5. QED
    BY <1>7, <2>1, <2>2, <2>4 DEF RevokeGrant, TypeOK
<1>8. ASSUME NEW p \in Proof, NEW target \in ArtifactStatus, RevokeArtifact(p, target)
      PROVE  TypeOK'
  <2>1. artifacts[p] \in Artifact
    BY <1>8, ArtifactType DEF RevokeArtifact
  <2>2. [artifacts[p] EXCEPT !.status = target] \in Artifact
    BY <2>1 DEF Artifact
  <2>3. artifacts' = [artifacts EXCEPT ![p] = [artifacts[p] EXCEPT !.status = target]]
    BY <1>8 DEF RevokeArtifact, TypeOK
  <2>4. QED
    BY <1>8, <2>2, <2>3 DEF RevokeArtifact, TypeOK
<1>9. Approving \subseteq Grant
  BY ApprovalType DEF Approving
<1>10. CASE Crash
  BY <1>9, <1>10 DEF Crash, TypeOK
<1>11. ASSUME NEW r \in Request, NEW p \in Proof, CrashBeforeApproval(r, p) PROVE TypeOK'
  <2>1. requests[r].pc = "approving" /\ Insert(p, requests[r].grant, CurrentClaim(requests[r]))
    BY <1>11 DEF CrashBeforeApproval
  <2>2. CurrentClaim(requests[r]) \in Kinds /\ requests[r].grant \in GrantId
    BY <2>1, ApprovalType, CurrentClaimType
  <2>3. artifacts' \in [Proof -> Artifact \cup {NoArtifact}]
    BY <2>1, <2>2, InsertType
  <2>4. QED
    BY <1>9, <1>11, <2>3 DEF CrashBeforeApproval, TypeOK
<1>12. ASSUME NEW g \in Grant, CrashInRevocation(g) PROVE TypeOK'
  <2>1. [grants[g] EXCEPT !.status = "revoked"] \in GrantRow
    BY <1>0, GrantType DEF GrantRow
  <2>2. grants' = [grants EXCEPT ![g] = [grants[g] EXCEPT !.status = "revoked"]]
    BY <1>12, <1>0 DEF CrashInRevocation, TypeOK
  <2>3. QED
    BY <1>9, <1>12, <2>1, <2>2 DEF CrashInRevocation, TypeOK
<1>13. CASE UNCHANGED vars
  BY <1>13 DEF vars, TypeOK
<1>14. QED
  BY <1>1, <1>2, <1>3, <1>4, <1>5, <1>6, <1>7, <1>8, <1>10, <1>11, <1>12, <1>13 DEF Next

----------------------------------------------------------------------------
(* What a step does to one artifact and to one grant.                      *)

\* A stored artifact keeps its grant and its kind, and once it is out of use
\* it stays so.
Endures(p) ==
    artifacts[p] # NoArtifact =>
        /\ artifacts'[p].grant = artifacts[p].grant
        /\ artifacts'[p].kind = artifacts[p].kind
        /\ artifacts[p].status = "revoked" => artifacts'[p] = artifacts[p]
        /\ artifacts[p].status \notin {"active", "suspended"}
              => artifacts'[p].status \notin {"active", "suspended"}

LEMMA ArtifactStep ==
    BrokerInv /\ [Next]_vars => \A p \in Proof : Endures(p)
<1> SUFFICES ASSUME TypeOK, BrokerInv, [Next]_vars, NEW p \in Proof,
                    artifacts[p] # NoArtifact
             PROVE  /\ artifacts'[p].grant = artifacts[p].grant
                    /\ artifacts'[p].kind = artifacts[p].kind
                    /\ artifacts[p].status = "revoked" => artifacts'[p] = artifacts[p]
                    /\ artifacts[p].status \notin {"active", "suspended"}
                          => artifacts'[p].status \notin {"active", "suspended"}
  BY DEF Endures, BrokerInv
<1>0. artifacts[p] \in Artifact
  BY ArtifactType
<1>1. ASSUME NEW r \in Request, NEW o \in Proof,
             StoreClaim(r, o) \/ FinishApproval(r, o) \/ CrashBeforeApproval(r, o)
      PROVE  artifacts'[p] = artifacts[p]
  BY <1>1 DEF StoreClaim, FinishApproval, CrashBeforeApproval, Insert, TypeOK
<1>2. ASSUME NEW r \in Request, NEW o \in Proof, NEW k \in Kinds,
             FinishDirectVerify(r, o, k)
      PROVE  artifacts'[p] = artifacts[p]
  BY <1>2 DEF FinishDirectVerify, TypeOK
<1>3. ASSUME NEW g \in Grant, RevokeGrant(g)
      PROVE  artifacts'[p] \in {artifacts[p], [artifacts[p] EXCEPT !.status = "revoked"]}
  BY <1>3 DEF RevokeGrant, RevokedProofs
<1>4. ASSUME NEW o \in Proof, NEW target \in ArtifactStatus, RevokeArtifact(o, target)
      PROVE  \/ artifacts'[p] = artifacts[p]
             \/ /\ artifacts'[p] = [artifacts[p] EXCEPT !.status = target]
                /\ artifacts[p].status \in {"active", "suspended"}
  <2>1. artifacts[o].status # target
        /\ <<artifacts[o].status, target>> \in AllowedTransitions(artifacts[o].kind)
    BY <1>4 DEF RevokeArtifact, ValidTransition
  <2>2. artifacts[o].status \in {"active", "suspended"}
    BY <2>1 DEF AllowedTransitions
  <2>3. QED
    BY <1>4, <2>2 DEF RevokeArtifact, TypeOK
<1>5. CASE artifacts' = artifacts
  BY <1>5
<1>6. [artifacts[p] EXCEPT !.status = "revoked"].status = "revoked"
      /\ \A t \in ArtifactStatus :
            /\ [artifacts[p] EXCEPT !.status = t].grant = artifacts[p].grant
            /\ [artifacts[p] EXCEPT !.status = t].kind = artifacts[p].kind
  BY <1>0 DEF Artifact
<1>7. artifacts[p].status = "revoked"
         => [artifacts[p] EXCEPT !.status = "revoked"] = artifacts[p]
  BY <1>0 DEF Artifact
<1>8. "revoked" \in ArtifactStatus
  BY DEF ArtifactStatus
<1>9. ASSUME NEW g \in Grant, RevokeGrant(g)
      PROVE  /\ artifacts'[p].grant = artifacts[p].grant
             /\ artifacts'[p].kind = artifacts[p].kind
             /\ artifacts[p].status = "revoked" => artifacts'[p] = artifacts[p]
             /\ artifacts[p].status \notin {"active", "suspended"}
                   => artifacts'[p].status \notin {"active", "suspended"}
  BY <1>3, <1>9, <1>6, <1>7, <1>8
<1>10. ASSUME NEW o \in Proof, NEW target \in ArtifactStatus, RevokeArtifact(o, target)
       PROVE  /\ artifacts'[p].grant = artifacts[p].grant
              /\ artifacts'[p].kind = artifacts[p].kind
              /\ artifacts[p].status = "revoked" => artifacts'[p] = artifacts[p]
              /\ artifacts[p].status \notin {"active", "suspended"}
                    => artifacts'[p].status \notin {"active", "suspended"}
  BY <1>4, <1>10, <1>6
<1>11. QED
  BY <1>1, <1>2, <1>5, <1>9, <1>10 DEF Next, vars, RequestGrant, BeginApproval,
     BeginDirectVerify, Crash, CrashInRevocation

\* A grant keeps what it asks for once it is requested, and does not become
\* pending a second time.
Lasts(g) ==
    grants[g].status # "none" =>
        /\ grants'[g].claims = grants[g].claims
        /\ grants'[g].status # "none"
        /\ grants'[g].status = "pending" => grants[g].status = "pending"

LEMMA GrantStep ==
    BrokerInv /\ [Next]_vars => \A g \in Grant : Lasts(g)
<1> SUFFICES ASSUME TypeOK, BrokerInv, [Next]_vars, NEW g \in Grant PROVE Lasts(g)
  BY DEF BrokerInv
<1>0. grants[g] \in GrantRow /\ g \in GrantId
  BY GrantType DEF GrantId
<1>1. ASSUME NEW h \in Grant, NEW claims \in SeqUpTo(Kinds, MaxClaims) \ {<<>>},
             RequestGrant(h, claims)
      PROVE  Lasts(g)
  BY <1>0, <1>1 DEF RequestGrant, NoGrantRow, TypeOK, Lasts
<1>2. ASSUME NEW r \in Request, NEW p \in Proof, FinishApproval(r, p) PROVE Lasts(g)
  <2>1. \/ grants'[g] = grants[g]
        \/ grants'[g] = Approved(grants[g], requests[r].made, p)
    BY <1>2 DEF FinishApproval, TypeOK
  <2>2. /\ Approved(grants[g], requests[r].made, p).claims = grants[g].claims
        /\ Approved(grants[g], requests[r].made, p).status = "approved"
    BY <1>0 DEF Approved, GrantRow
  <2>3. QED
    BY <2>1, <2>2 DEF Lasts
<1>3. ASSUME NEW h \in Grant, RevokeGrant(h) \/ CrashInRevocation(h) PROVE Lasts(g)
  <2>1. grants' = [grants EXCEPT ![h].status = "revoked"]
    BY <1>3 DEF RevokeGrant, CrashInRevocation
  <2>2. grants'[g] \in {grants[g], [grants[g] EXCEPT !.status = "revoked"]}
    BY <1>0, <2>1 DEF TypeOK
  <2>3. /\ [grants[g] EXCEPT !.status = "revoked"].claims = grants[g].claims
        /\ [grants[g] EXCEPT !.status = "revoked"].status = "revoked"
    BY <1>0 DEF GrantRow
  <2>4. QED
    BY <2>2, <2>3 DEF Lasts
<1>4. CASE grants' = grants
  BY <1>4 DEF Lasts
<1>5. QED
  BY <1>1, <1>2, <1>3, <1>4 DEF Next, vars, BeginApproval, StoreClaim,
     BeginDirectVerify, FinishDirectVerify, RevokeArtifact, Crash, CrashBeforeApproval

\* What proved the first claims of a grant still does after a step.
LEMMA ProvesStep ==
    ASSUME BrokerInv, [Next]_vars
    PROVE  \A g \in Grant : \A made \in SeqUpTo(Proof, MaxClaims) :
              grants[g].status # "none" /\ Proves(made, g) =>
                  \A i \in DOMAIN made :
                      /\ artifacts'[made[i]].grant = g
                      /\ artifacts'[made[i]].kind = grants'[g].claims[i]
<1> SUFFICES ASSUME NEW g \in Grant, NEW made \in SeqUpTo(Proof, MaxClaims),
                    grants[g].status # "none", Proves(made, g), NEW i \in DOMAIN made
             PROVE  /\ artifacts'[made[i]].grant = g
                    /\ artifacts'[made[i]].kind = grants'[g].claims[i]
  OBVIOUS
<1>1. made[i] \in Proof
  BY SeqUpToElim, ConstantsAssumption
<1>2. artifacts[made[i]].grant = g /\ artifacts[made[i]].kind = grants[g].claims[i]
  BY DEF Proves
<1>3. artifacts[made[i]] # NoArtifact
  BY <1>1, <1>2, ConstantsAssumption DEF NoArtifact
<1>4. Endures(made[i]) /\ Lasts(g)
  BY <1>1, ArtifactStep, GrantStep
<1>5. QED
  BY <1>2, <1>3, <1>4 DEF Endures, Lasts

\* After a step, the grant is being approved, was cut short by a crash, or is
\* approved.
Accounted(g) == g \in Approving' \cup interrupted' \/ grants'[g].status = "approved"

LEMMA ApprovingStep ==
    ASSUME BrokerInv, [Next]_vars
    PROVE  /\ interrupted \subseteq interrupted'
           /\ \A g \in Grant : g \in Approving => Accounted(g)
<1> USE DEF BrokerInv
<1>1. interrupted \subseteq interrupted'
  BY DEF Next, vars, RequestGrant, BeginApproval, StoreClaim, FinishApproval,
     BeginDirectVerify, FinishDirectVerify, RevokeGrant, RevokeArtifact, Crash,
     CrashBeforeApproval, CrashInRevocation
<1> SUFFICES ASSUME NEW g \in Grant, NEW r \in Request,
                    requests[r].pc = "approving", requests[r].grant = g
             PROVE  Accounted(g)
  BY <1>1 DEF Approving
<1>2. g \in Approving
  BY DEF Approving
<1>3. CASE requests'[r].pc = "approving" /\ requests'[r].grant = requests[r].grant
  BY <1>3 DEF Approving, Accounted
<1>4. CASE requests'[r] = requests[r]
  BY <1>3, <1>4
<1>5. CASE interrupted' = interrupted \cup Approving
  BY <1>2, <1>5 DEF Accounted
<1>6. ASSUME NEW s \in Request, NEW p \in Proof, StoreClaim(s, p)
      PROVE  Accounted(g)
  <2>1. requests[r] \in [pc: {"approving"}, grant: Grant, made: SeqUpTo(Proof, MaxClaims)]
    BY ApprovalType
  <2>2. \/ requests'[r] = requests[r]
        \/ requests'[r] = [requests[r] EXCEPT !.made = Append(requests[r].made, p)]
    BY <1>6 DEF StoreClaim, TypeOK
  <2>3. requests'[r].pc = "approving" /\ requests'[r].grant = requests[r].grant
    BY <2>1, <2>2
  <2>4. QED
    BY <1>3, <2>3
<1>7. ASSUME NEW s \in Request, NEW p \in Proof, FinishApproval(s, p)
      PROVE  Accounted(g)
  <2>1. CASE s = r
    <3>1. requests[r].grant \in GrantId
      BY ApprovalType
    <3>2. grants[requests[r].grant] \in GrantRow
      BY <3>1, GrantType
    <3>3. grants'[requests[r].grant] = Approved(grants[requests[r].grant], requests[r].made, p)
      BY <1>7, <2>1, <3>1 DEF FinishApproval, TypeOK
    <3>4. QED
      BY <3>2, <3>3 DEF Approved, GrantRow, Accounted
  <2>2. CASE s # r
    <3>1. requests'[r] = requests[r]
      BY <1>7, <2>2 DEF FinishApproval, End, TypeOK
    <3>2. QED
      BY <1>4, <3>1
  <2>3. QED
    BY <2>1, <2>2
<1>8. ASSUME NEW s \in Request, NEW h \in Grant, BeginApproval(s, h)
      PROVE  requests'[r] = requests[r]
  BY <1>8 DEF BeginApproval, NoRequest, TypeOK
<1>9. ASSUME NEW s \in Request, BeginDirectVerify(s) PROVE requests'[r] = requests[r]
  BY <1>9 DEF BeginDirectVerify, NoRequest, TypeOK
<1>10. ASSUME NEW s \in Request, NEW p \in Proof, NEW k \in Kinds,
              FinishDirectVerify(s, p, k)
       PROVE  requests'[r] = requests[r]
  BY <1>10 DEF FinishDirectVerify, End, TypeOK
<1>11. ASSUME NEW h \in Grant, CrashInRevocation(h) PROVE Accounted(g)
  BY <1>2, <1>11 DEF CrashInRevocation, Accounted
<1>12. QED
  BY <1>4, <1>5, <1>6, <1>7, <1>8, <1>9, <1>10, <1>11 DEF Next, vars, RequestGrant,
     RevokeGrant, RevokeArtifact, Crash, CrashBeforeApproval

\* An artifact that a step stores belongs to no requested grant, or to one that
\* the step leaves accounted for.
LEMMA NewArtifactStep ==
    ASSUME BrokerInv, [Next]_vars
    PROVE  \A p \in Proof, g \in Grant :
              artifacts[p] = NoArtifact /\ artifacts'[p].grant = g =>
                  grants[g].status # "none" /\ Accounted(g)
<1> SUFFICES ASSUME TypeOK, NEW p \in Proof, NEW g \in Grant,
                    artifacts[p] = NoArtifact, artifacts'[p].grant = g
             PROVE  grants[g].status # "none" /\ Accounted(g)
  BY DEF BrokerInv
<1>0. artifacts[p].grant \notin GrantId /\ Grant \subseteq GrantId
  BY ArtifactType DEF GrantId
<1>1. CASE artifacts'[p] = artifacts[p]
  BY <1>0, <1>1
<1>2. ASSUME NEW r \in Request, NEW o \in Proof,
             StoreClaim(r, o) \/ FinishApproval(r, o) \/ CrashBeforeApproval(r, o)
      PROVE  grants[g].status # "none" /\ Accounted(g)
  <2>1. /\ requests[r].pc = "approving"
        /\ Insert(o, requests[r].grant, CurrentClaim(requests[r]))
    BY <1>2 DEF StoreClaim, FinishApproval, CrashBeforeApproval
  <2>2. requests[r].grant \in GrantId /\ CurrentClaim(requests[r]) \in Kinds
    BY <2>1, ApprovalType, CurrentClaimType
  <2>3. CASE o = p
    <3>1. requests[r].grant = g
      BY <2>1, <2>3 DEF Insert, FreshArtifact, TypeOK
    <3>2. grants[g].status # "none"
      BY <2>1, <3>1 DEF BrokerInv, ApprovalsOK
    <3>3. g \in Approving
      BY <2>1, <3>1 DEF Approving
    <3>4. QED
      BY <3>2, <3>3, ApprovingStep
  <2>4. CASE o # p
    BY <1>1, <2>1, <2>4 DEF Insert, TypeOK
  <2>5. QED
    BY <2>3, <2>4
<1>3. ASSUME NEW r \in Request, NEW o \in Proof, NEW k \in Kinds,
             FinishDirectVerify(r, o, k)
      PROVE  artifacts'[p] = artifacts[p] \/ artifacts'[p].grant = DirectVerify
  BY <1>3 DEF FinishDirectVerify, FreshArtifact, TypeOK
<1>4. ASSUME NEW h \in Grant, RevokeGrant(h) PROVE artifacts'[p] = artifacts[p]
  BY <1>0, <1>4 DEF RevokeGrant, RevokedProofs, ProofsOf
<1>5. ASSUME NEW o \in Proof, NEW t \in ArtifactStatus, RevokeArtifact(o, t)
      PROVE  artifacts'[p] = artifacts[p]
  BY <1>5 DEF RevokeArtifact, TypeOK
<1>6. CASE artifacts' = artifacts
  BY <1>1, <1>6
<1>7. QED
  BY <1>1, <1>2, <1>3, <1>4, <1>5, <1>6, ConstantsAssumption DEF Next, vars,
     RequestGrant, BeginApproval, BeginDirectVerify, Crash, CrashInRevocation

----------------------------------------------------------------------------
(* The invariant is kept.                                                  *)

LEMMA NextRowsOK == BrokerInv /\ [Next]_vars => RowsOK'
<1> SUFFICES ASSUME BrokerInv, TypeOK, [Next]_vars PROVE RowsOK'
  BY DEF BrokerInv
<1>1. ASSUME NEW g \in Grant, grants'[g].status = "pending"
      PROVE  Len(grants'[g].claims) > 0
  <2>1. CASE grants[g].status # "none"
    BY <1>1, <2>1, GrantStep DEF BrokerInv, RowsOK, Lasts
  <2>2. CASE grants'[g] = grants[g]
    BY <1>1, <2>2 DEF BrokerInv, RowsOK
  <2>3. ASSUME NEW h \in Grant, NEW claims \in SeqUpTo(Kinds, MaxClaims) \ {<<>>},
               RequestGrant(h, claims)
        PROVE  Len(grants'[g].claims) > 0
    <3>1. claims \in Seq(Kinds) /\ claims # <<>>
      BY SeqUpToElim, ConstantsAssumption
    <3>2. Len(claims) > 0
      BY <3>1
    <3>3. grants'[g] = grants[g] \/ grants'[g].claims = claims
      BY <2>3 DEF RequestGrant, TypeOK, GrantId
    <3>4. QED
      BY <2>2, <3>2, <3>3
  <2>4. ASSUME NEW r \in Request, NEW p \in Proof, FinishApproval(r, p),
               grants[g].status = "none"
        PROVE  grants'[g] = grants[g]
    BY <2>4 DEF FinishApproval, BrokerInv, ApprovalsOK, TypeOK
  <2>5. ASSUME NEW h \in Grant, RevokeGrant(h) \/ CrashInRevocation(h),
               grants[g].status = "none"
        PROVE  grants'[g] = grants[g]
    <3>1. /\ grants' = [grants EXCEPT ![h].status = "revoked"]
          /\ grants[h].status # "none"
      BY <2>5 DEF RevokeGrant, CrashInRevocation
    <3>2. QED
      BY <2>5, <3>1 DEF TypeOK, GrantId
  <2>6. CASE grants' = grants
    BY <2>2, <2>6
  <2>7. QED
    BY <2>1, <2>2, <2>3, <2>4, <2>5, <2>6 DEF Next, vars, BeginApproval, StoreClaim,
       BeginDirectVerify, FinishDirectVerify, RevokeArtifact, Crash, CrashBeforeApproval
<1>2. ASSUME NEW p \in Proof, artifacts'[p].grant \in Grant
      PROVE  grants'[artifacts'[p].grant].status # "none"
  <2>1. CASE artifacts[p] = NoArtifact
    BY <1>2, <2>1, NewArtifactStep, GrantStep DEF Lasts
  <2>2. CASE artifacts[p] # NoArtifact
    BY <1>2, <2>2, ArtifactStep, GrantStep DEF Lasts, Endures, BrokerInv, RowsOK
  <2>3. QED
    BY <2>1, <2>2
<1>3. QED
  BY <1>1, <1>2 DEF RowsOK

\* What a claim's artifact adds to those of the claims before it.
LEMMA OneMoreProof ==
    ASSUME BrokerInv, [Next]_vars, NEW r \in Request, NEW p \in Proof, NEW g \in Grant,
           requests[r].pc = "approving", requests[r].grant = g,
           Insert(p, g, CurrentClaim(requests[r]))
    PROVE  /\ Append(requests[r].made, p) \in SeqUpTo(Proof, MaxClaims)
           /\ Len(Append(requests[r].made, p)) = Len(requests[r].made) + 1
           /\ Len(requests[r].made) \in Nat
           /\ grants'[g].claims = grants[g].claims
           /\ grants'[g].status # "none"
           /\ \A i \in DOMAIN Append(requests[r].made, p) :
                 /\ artifacts'[Append(requests[r].made, p)[i]].grant = g
                 /\ artifacts'[Append(requests[r].made, p)[i]].kind = grants'[g].claims[i]
<1> DEFINE made == requests[r].made
<1>1. /\ made \in SeqUpTo(Proof, MaxClaims) /\ g \in GrantId /\ MaxClaims \in Nat
      /\ CurrentClaim(requests[r]) \in Kinds /\ Len(made) \in Nat /\ Len(made) < MaxClaims
      /\ CurrentClaim(requests[r]) = grants[g].claims[Len(made) + 1]
  BY ApprovalType, CurrentClaimType, ConstantsAssumption DEF BrokerInv
<1>2. /\ Append(made, p) \in SeqUpTo(Proof, MaxClaims)
      /\ Len(Append(made, p)) = Len(made) + 1
      /\ DOMAIN Append(made, p) = DOMAIN made \cup {Len(made) + 1}
      /\ \A i \in DOMAIN made : Append(made, p)[i] = made[i]
      /\ Append(made, p)[Len(made) + 1] = p
  BY <1>1, SeqUpToAppend
<1>3. grants[g].status # "none" /\ Proves(made, g)
  BY DEF BrokerInv, ApprovalsOK
<1>4. \A i \in DOMAIN made :
          artifacts'[made[i]].grant = g /\ artifacts'[made[i]].kind = grants'[g].claims[i]
  BY <1>1, <1>3, ProvesStep
<1>5. grants'[g].claims = grants[g].claims /\ grants'[g].status # "none"
  BY <1>3, GrantStep DEF Lasts
<1>6. artifacts'[p].grant = g /\ artifacts'[p].kind = grants'[g].claims[Len(made) + 1]
  <2>1. artifacts'[p] = [status |-> "active", grant |-> g,
                         kind |-> CurrentClaim(requests[r])]
    BY DEF Insert, FreshArtifact, BrokerInv, TypeOK
  <2>2. QED
    BY <1>1, <1>5, <2>1
<1>7. \A i \in DOMAIN Append(made, p) :
          /\ artifacts'[Append(made, p)[i]].grant = g
          /\ artifacts'[Append(made, p)[i]].kind = grants'[g].claims[i]
  BY <1>2, <1>4, <1>6
<1>8. QED
  BY <1>1, <1>2, <1>5, <1>7

\* One approval after a step, in which it may have stored an artifact.
ApprovalKept(r) ==
    requests'[r].pc = "approving" =>
        /\ grants'[requests'[r].grant].status # "none"
        /\ Len(requests'[r].made) < Len(grants'[requests'[r].grant].claims)
        /\ \A i \in DOMAIN requests'[r].made :
              /\ artifacts'[requests'[r].made[i]].grant = requests'[r].grant
              /\ artifacts'[requests'[r].made[i]].kind
                    = grants'[requests'[r].grant].claims[i]

LEMMA NextApprovalsOK == BrokerInv /\ [Next]_vars => ApprovalsOK'
<1> SUFFICES ASSUME BrokerInv, TypeOK, [Next]_vars, NEW r \in Request
             PROVE  ApprovalKept(r)
  BY DEF BrokerInv, ApprovalsOK, ApprovalKept, Proves
<1>1. CASE requests'[r].pc # "approving"
  BY <1>1 DEF ApprovalKept
<1>2. CASE requests'[r] = requests[r]
  <2>1. SUFFICES ASSUME requests[r].pc = "approving" PROVE ApprovalKept(r)
    BY <1>1, <1>2
  <2>2. requests[r].grant \in Grant /\ requests[r].made \in SeqUpTo(Proof, MaxClaims)
    BY <2>1, ApprovalType
  <2>3. /\ grants[requests[r].grant].status # "none"
        /\ Len(requests[r].made) < Len(grants[requests[r].grant].claims)
        /\ Proves(requests[r].made, requests[r].grant)
    BY <2>1 DEF BrokerInv, ApprovalsOK
  <2>4. \A i \in DOMAIN requests[r].made :
            /\ artifacts'[requests[r].made[i]].grant = requests[r].grant
            /\ artifacts'[requests[r].made[i]].kind = grants'[requests[r].grant].claims[i]
    BY <2>2, <2>3, ProvesStep
  <2>5. QED
    BY <1>2, <2>2, <2>3, <2>4, GrantStep DEF Lasts, ApprovalKept
<1>3. ASSUME NEW g \in Grant, BeginApproval(r, g) PROVE ApprovalKept(r)
  <2>1. requests'[r] = [pc |-> "approving", grant |-> g, made |-> <<>>]
    BY <1>3 DEF BeginApproval, TypeOK
  <2>2. grants'[g] = grants[g] /\ grants[g].status = "pending" /\ Len(grants[g].claims) > 0
    BY <1>3 DEF BeginApproval, BrokerInv, RowsOK
  <2>3. Len(<<>>) = 0 /\ DOMAIN <<>> = {}
    BY EmptySeqUpTo, ConstantsAssumption
  <2>4. QED
    BY <2>1, <2>2, <2>3 DEF ApprovalKept
<1>4. ASSUME NEW p \in Proof, StoreClaim(r, p) PROVE ApprovalKept(r)
  <2> DEFINE made == requests[r].made
  <2>1. PICK g \in Grant : g = requests[r].grant
    BY <1>4, ApprovalType DEF StoreClaim
  <2>2. /\ requests[r].pc = "approving" /\ Insert(p, g, CurrentClaim(requests[r]))
        /\ Len(made) + 1 # Len(grants[g].claims)
    BY <1>4, <2>1 DEF StoreClaim, AtLastClaim
  <2>3. /\ Len(Append(made, p)) = Len(made) + 1
        /\ Len(made) \in Nat
        /\ grants'[g].claims = grants[g].claims
        /\ grants'[g].status # "none"
        /\ \A i \in DOMAIN Append(made, p) :
              /\ artifacts'[Append(made, p)[i]].grant = g
              /\ artifacts'[Append(made, p)[i]].kind = grants'[g].claims[i]
    BY <2>1, <2>2, OneMoreProof
  <2>4. Len(made) < Len(grants[g].claims) /\ Len(grants[g].claims) \in Nat
    <3>1. Len(made) < Len(grants[g].claims)
      BY <2>1, <2>2 DEF BrokerInv, ApprovalsOK
    <3>2. Len(grants[g].claims) \in 0..MaxClaims
      BY GrantType DEF GrantId
    <3>3. QED
      BY <3>1, <3>2, ConstantsAssumption
  <2>5. Len(Append(made, p)) < Len(grants'[g].claims)
    BY <2>2, <2>3, <2>4
  <2>6. requests'[r].grant = g /\ requests'[r].made = Append(made, p)
    <3>1. requests[r] \in [pc: {"approving"}, grant: Grant, made: SeqUpTo(Proof, MaxClaims)]
      BY <2>2, ApprovalType
    <3>2. requests'[r] = [requests[r] EXCEPT !.made = Append(made, p)]
      BY <1>4 DEF StoreClaim, TypeOK
    <3>3. QED
      BY <2>1, <3>1, <3>2
  <2>7. QED
    BY <2>3, <2>5, <2>6 DEF ApprovalKept
<1>5. ASSUME NEW s \in Request, s # r, NEW p \in Proof, StoreClaim(s, p)
      PROVE  requests'[r] = requests[r]
  BY <1>5 DEF StoreClaim, TypeOK
<1>6. ASSUME NEW s \in Request, s # r, NEW g \in Grant, BeginApproval(s, g)
      PROVE  requests'[r] = requests[r]
  BY <1>6 DEF BeginApproval, TypeOK
<1>7. ASSUME NEW s \in Request, BeginDirectVerify(s)
      PROVE  requests'[r] = requests[r] \/ requests'[r].pc # "approving"
  BY <1>7 DEF BeginDirectVerify, NoRequest, TypeOK
<1>8. ASSUME NEW s \in Request, End(s)
      PROVE  requests'[r] = requests[r] \/ requests'[r].pc # "approving"
  BY <1>8 DEF End, NoRequest, TypeOK
<1>9. CASE requests' = [s \in Request |-> NoRequest]
  BY <1>1, <1>9 DEF NoRequest
<1>10. CASE requests' = requests
  BY <1>2, <1>10
<1>11. ASSUME NEW s \in Request, NEW p \in Proof, StoreClaim(s, p) PROVE ApprovalKept(r)
  BY <1>2, <1>4, <1>5, <1>11
<1>12. ASSUME NEW s \in Request, NEW g \in Grant, BeginApproval(s, g) PROVE ApprovalKept(r)
  BY <1>2, <1>3, <1>6, <1>12
<1>13. QED
  BY <1>1, <1>2, <1>7, <1>8, <1>9, <1>10, <1>11, <1>12 DEF Next, vars, RequestGrant,
     FinishApproval, FinishDirectVerify, RevokeGrant, RevokeArtifact, Crash,
     CrashBeforeApproval, CrashInRevocation

\* One approved grant after a step.
ListingKept(g) ==
    grants'[g].status = "approved" =>
        /\ Len(grants'[g].proofs) = Len(grants'[g].claims)
        /\ \A i \in DOMAIN grants'[g].proofs :
              /\ artifacts'[grants'[g].proofs[i]].grant = g
              /\ artifacts'[grants'[g].proofs[i]].kind = grants'[g].claims[i]

LEMMA NextListingOK == BrokerInv /\ [Next]_vars => ApprovedGrantsListTheirProofs'
<1> SUFFICES ASSUME BrokerInv, TypeOK, [Next]_vars, NEW g \in Grant PROVE ListingKept(g)
  BY DEF BrokerInv, ApprovedGrantsListTheirProofs, ListingKept
<1>0. g \in GrantId /\ grants[g] \in GrantRow
  BY GrantType DEF GrantId
<1>1. CASE grants'[g].status # "approved"
  BY <1>1 DEF ListingKept
<1>2. CASE grants'[g] = grants[g]
  <2>1. SUFFICES ASSUME grants[g].status = "approved" PROVE ListingKept(g)
    BY <1>1, <1>2
  <2>2. Len(grants[g].proofs) = Len(grants[g].claims) /\ Proves(grants[g].proofs, g)
    BY <2>1 DEF BrokerInv, ApprovedGrantsListTheirProofs, Proves
  <2>3. grants[g].proofs \in SeqUpTo(Proof, MaxClaims)
    BY <1>0 DEF GrantRow
  <2>4. \A i \in DOMAIN grants[g].proofs :
            /\ artifacts'[grants[g].proofs[i]].grant = g
            /\ artifacts'[grants[g].proofs[i]].kind = grants'[g].claims[i]
    BY <2>1, <2>2, <2>3, ProvesStep
  <2>5. QED
    BY <1>2, <2>2, <2>4 DEF ListingKept
<1>3. ASSUME NEW r \in Request, NEW p \in Proof, FinishApproval(r, p) PROVE ListingKept(g)
  <2>1. CASE requests[r].grant # g
    BY <1>0, <1>2, <1>3, <2>1 DEF FinishApproval, TypeOK
  <2>2. CASE requests[r].grant = g
    <3> DEFINE list == Append(requests[r].made, p)
    <3>1. grants'[g] = Approved(grants[g], requests[r].made, p)
      BY <1>0, <1>3, <2>2 DEF FinishApproval, TypeOK
    <3>2. grants'[g].proofs = list
      BY <1>0, <3>1 DEF Approved, GrantRow
    <3>3. /\ requests[r].pc = "approving" /\ Insert(p, g, CurrentClaim(requests[r]))
          /\ Len(requests[r].made) + 1 = Len(grants[g].claims)
      BY <1>3, <2>2 DEF FinishApproval, AtLastClaim
    <3>4. /\ Append(requests[r].made, p) \in SeqUpTo(Proof, MaxClaims)
          /\ Len(list) = Len(requests[r].made) + 1
          /\ Len(requests[r].made) \in Nat
          /\ grants'[g].claims = grants[g].claims
          /\ grants'[g].status # "none"
          /\ \A i \in DOMAIN list :
                /\ artifacts'[list[i]].grant = g
                /\ artifacts'[list[i]].kind = grants'[g].claims[i]
      BY ONLY <2>2, <3>3, BrokerInv, [Next]_vars, r \in Request, p \in Proof,
              g \in Grant, OneMoreProof
    <3>5. QED
      BY <3>2, <3>3, <3>4 DEF ListingKept
  <2>3. QED
    BY <2>1, <2>2
<1>4. ASSUME NEW h \in Grant, NEW claims \in SeqUpTo(Kinds, MaxClaims) \ {<<>>},
             RequestGrant(h, claims)
      PROVE  grants'[g] = grants[g] \/ grants'[g].status # "approved"
  BY <1>0, <1>4 DEF RequestGrant, TypeOK
<1>5. ASSUME NEW h \in Grant, RevokeGrant(h) \/ CrashInRevocation(h)
      PROVE  grants'[g] = grants[g] \/ grants'[g].status # "approved"
  <2>1. grants' = [grants EXCEPT ![h].status = "revoked"]
    BY <1>5 DEF RevokeGrant, CrashInRevocation
  <2>2. grants'[g] \in {grants[g], [grants[g] EXCEPT !.status = "revoked"]}
    BY <1>0, <2>1 DEF TypeOK
  <2>3. [grants[g] EXCEPT !.status = "revoked"].status = "revoked"
    BY <1>0 DEF GrantRow
  <2>4. QED
    BY <2>2, <2>3
<1>6. CASE grants' = grants
  BY <1>2, <1>6
<1>7. QED
  BY <1>1, <1>2, <1>3, <1>4, <1>5, <1>6 DEF Next, vars, BeginApproval, StoreClaim,
     BeginDirectVerify, FinishDirectVerify, RevokeArtifact, Crash, CrashBeforeApproval

----------------------------------------------------------------------------
(* The theorems.                                                           *)

LEMMA InitBrokerInv == Init => BrokerInv
<1>1. Init => RowsOK
  BY ConstantsAssumption DEF Init, NoGrantRow, NoArtifact, RowsOK, GrantId
<1>2. Init => ApprovalsOK
  BY DEF Init, NoRequest, ApprovalsOK
<1>3. Init => ApprovedGrantsListTheirProofs
  BY DEF Init, NoGrantRow, ApprovedGrantsListTheirProofs, GrantId
<1>4. QED
  BY <1>1, <1>2, <1>3, InitTypeOK DEF BrokerInv

LEMMA NextBrokerInv == BrokerInv /\ [Next]_vars => BrokerInv'
  BY NextTypeOK, NextRowsOK, NextApprovalsOK, NextListingOK DEF BrokerInv

\* The inductive invariant: an approval in flight has stored an artifact of
\* its grant for each claim before the one it is verifying (approveGrant).
THEOREM BrokerInvariant == Spec => []BrokerInv
<1>1. Init => BrokerInv
  BY InitBrokerInv
<1>2. BrokerInv /\ [Next]_vars => BrokerInv'
  BY NextBrokerInv
<1>3. QED
  BY <1>1, <1>2, PTL DEF Spec

\* Rows and requests have the shape the code gives them.
THEOREM TypeCorrect == Spec => []TypeOK
  BY BrokerInvariant, PTL DEF BrokerInv

\* However many approvals of a grant store artifacts in turns, and wherever
\* the process dies, an approved grant lists its own artifacts, one for each
\* claim (approveGrant).
THEOREM ListingCorrect == Spec => []ApprovedGrantsListTheirProofs
  BY BrokerInvariant, PTL DEF BrokerInv

\* No handler brings a revoked artifact back (revoke, revokeGrant).
THEOREM RevocationsAreFinal == Spec => RevocationIsFinal
<1>1. BrokerInv /\ [Next]_vars =>
         [\A p \in Proof :
             artifacts[p].status = "revoked" => artifacts'[p] = artifacts[p]]_vars
  <2>1. NoArtifact.status # "revoked"
    BY DEF NoArtifact
  <2>2. QED
    BY <2>1, ArtifactStep DEF Endures
<1>2. QED
  BY <1>1, BrokerInvariant, PTL DEF Spec, RevocationIsFinal

\* A grant whose artifacts are usable is approved, or has an excuse.
LEMMA NextOnlyApproved ==
    BrokerInv /\ OnlyApprovedGrantsAreProven /\ [Next]_vars => OnlyApprovedGrantsAreProven'
<1> SUFFICES ASSUME BrokerInv, TypeOK, OnlyApprovedGrantsAreProven, [Next]_vars,
                    NEW g \in Grant, NEW p \in Proof,
                    grants'[g].status \in {"pending", "revoked"},
                    ~ Accounted(g),
                    artifacts'[p].grant = g
             PROVE  artifacts'[p].status \notin {"active", "suspended"}
  BY DEF BrokerInv, OnlyApprovedGrantsAreProven, ProofsOf, Accounted
<1>0. g \in GrantId /\ grants[g] \in GrantRow
  BY GrantType DEF GrantId
<1>1. artifacts[p] # NoArtifact
  BY NewArtifactStep
<1>2. artifacts[p].grant = g
  BY <1>1, ArtifactStep DEF Endures
<1>3. g \notin Approving \cup interrupted
  BY ApprovingStep DEF Accounted
<1>4. CASE artifacts[p].status \notin {"active", "suspended"}
  BY <1>1, <1>4, ArtifactStep DEF Endures
<1>5. CASE artifacts[p].status \in {"active", "suspended"}
  <2>1. grants[g].status \in {"none", "approved"}
    BY <1>0, <1>2, <1>3, <1>5 DEF OnlyApprovedGrantsAreProven, ProofsOf, GrantRow
  <2>2. grants[g].status # "none"
    BY <1>2 DEF BrokerInv, RowsOK
  <2>3. grants[g].status = "approved" /\ grants'[g].status = "revoked"
    BY <2>1, <2>2, GrantStep DEF Lasts
  <2>4. ASSUME RevokeGrant(g) PROVE artifacts'[p].status = "revoked"
    <3>1. artifacts'[p] = [artifacts[p] EXCEPT !.status = "revoked"]
      BY <1>2, <2>4 DEF RevokeGrant, RevokedProofs, ProofsOf
    <3>2. QED
      BY <1>1, <3>1, ArtifactType DEF Artifact
  <2>5. ASSUME NEW h \in Grant, RevokeGrant(h), h # g PROVE grants'[g] = grants[g]
    BY <1>0, <2>5 DEF RevokeGrant, TypeOK
  <2>6. ASSUME NEW h \in Grant, CrashInRevocation(h), h # g PROVE grants'[g] = grants[g]
    BY <1>0, <2>6 DEF CrashInRevocation, TypeOK
  <2>7. ~CrashInRevocation(g)
    BY DEF CrashInRevocation, Accounted
  <2>8. ASSUME NEW h \in Grant, NEW claims \in SeqUpTo(Kinds, MaxClaims) \ {<<>>},
               RequestGrant(h, claims)
        PROVE  grants'[g] = grants[g]
    BY <1>0, <2>3, <2>8 DEF RequestGrant, NoGrantRow, TypeOK
  <2>9. ASSUME NEW r \in Request, NEW o \in Proof, FinishApproval(r, o)
        PROVE  grants'[g].status # "revoked"
    <3>1. \/ grants'[g] = grants[g]
          \/ grants'[g] = Approved(grants[g], requests[r].made, o)
      BY <2>9 DEF FinishApproval, TypeOK
    <3>2. Approved(grants[g], requests[r].made, o).status = "approved"
      BY <1>0 DEF Approved, GrantRow
    <3>3. QED
      BY <2>3, <3>1, <3>2
  <2>10. grants' # grants
    BY <2>3
  <2>11. \E h \in Grant : RevokeGrant(h)
    BY <2>3, <2>6, <2>7, <2>8, <2>9, <2>10 DEF Next, vars, BeginApproval, StoreClaim,
       BeginDirectVerify, FinishDirectVerify, RevokeArtifact, Crash, CrashBeforeApproval
  <2>12. RevokeGrant(g)
    BY <2>3, <2>5, <2>11
  <2>13. QED
    BY <2>4, <2>12
<1>6. QED
  BY <1>4, <1>5

\* Whatever approvals, revocations and crashes of a grant come together, no
\* usable artifact is left under it when it is pending or revoked and nothing
\* is under way (approveGrant, revokeGrant).
THEOREM OnlyApprovedProven == Spec => []OnlyApprovedGrantsAreProven
<1>1. Init => OnlyApprovedGrantsAreProven
  BY DEF Init, NoGrantRow, NoArtifact, OnlyApprovedGrantsAreProven, ProofsOf, GrantId
<1>2. QED
  BY <1>1, NextOnlyApproved, BrokerInvariant, PTL DEF Spec
=============================================================================
