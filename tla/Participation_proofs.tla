-------------------------- MODULE Participation_proofs --------------------------
(***************************************************************************)
(* Safety of the components of MCParticipation, for any number of people,  *)
(* sessions, identities, profiles, commitments and concurrent requests.    *)
(***************************************************************************)
EXTENDS MCParticipation, FiniteSetTheorems, SequenceTheorems, TLAPS

\* The modules of the components count as this one does.
LEMMA SameCardinality ==
    ASSUME NEW S
    PROVE  /\ Voices!Cardinality(S) = Cardinality(S)
           /\ Voices!IsFiniteSet(S) <=> IsFiniteSet(S)
           /\ Awards!Cardinality(S) = Cardinality(S)
BY DEF Voices!Cardinality, Cardinality, Voices!IsFiniteSet, IsFiniteSet,
   Awards!Cardinality

----------------------------------------------------------------------------
(* Memberships.                                                            *)

\* Handlers that await a personal data server know whom they are about.
MembersInv == Members!TypeOK /\ MembersAsked

\* Storing URIs leaves every status as it is.
LEMMA StoreUrisKeepsStatus ==
    ASSUME Members!TypeOK, NEW d \in Did, NEW group \in BOOLEAN, NEW member \in BOOLEAN,
           Members!StoreUris(d, group, member)
    PROVE  /\ memberships' \in [Did -> Members!MembershipRow \cup {Members!NoRow}]
           /\ \A e \in Did : memberships'[e].status = memberships[e].status
<1> DEFINE row == IF memberships[d] = Members!NoRow THEN Members!NoRow
                  ELSE [memberships[d] EXCEPT !.group = group, !.member = member]
<1>1. memberships \in [Did -> Members!MembershipRow \cup {Members!NoRow}]
  BY DEF Members!TypeOK
<1>2. /\ row \in Members!MembershipRow \cup {Members!NoRow}
      /\ row.status = memberships[d].status
  <2>1. CASE memberships[d] = Members!NoRow
    BY <2>1
  <2>2. CASE memberships[d] # Members!NoRow
    <3>1. memberships[d] \in Members!MembershipRow
      BY <1>1, <2>2
    <3>2. QED
      BY <2>2, <3>1 DEF Members!MembershipRow
  <2>3. QED
    BY <2>1, <2>2
<1>3. memberships' = [memberships EXCEPT ![d] = row]
  BY <1>1 DEF Members!StoreUris
<1>4. QED
  BY <1>1, <1>2, <1>3

\* A handler that awaits something is about a person.
LEMMA HandlerType ==
    ASSUME Members!TypeOK, NEW r \in Request, requests[r].pc # "idle"
    PROVE  /\ requests[r].did \in Did
           /\ requests[r].group \in BOOLEAN
           /\ requests[r] \in Members!MembershipRequest
<1>1. requests[r] \in Members!MembershipRequest
  BY DEF Members!TypeOK, Members!NoRequest
<1>2. QED
  BY <1>1 DEF Members!MembershipRequest

LEMMA EndsHandler ==
    ASSUME Members!TypeOK, NEW r \in Request, Members!End(r)
    PROVE  requests' \in [Request -> Members!MembershipRequest \cup {Members!NoRequest}]
BY DEF Members!TypeOK, Members!End

\* A row whose status an operation sets.
LEMMA StatusSet ==
    ASSUME Members!TypeOK, NEW d \in Did,
           NEW status \in {"pending", "active", "left"},
           memberships' = [memberships EXCEPT ![d].status = status]
    PROVE  /\ memberships' \in [Did -> Members!MembershipRow \cup {Members!NoRow}]
           /\ memberships'[d].status = status
           /\ \A e \in Did : e # d => memberships'[e] = memberships[e]
<1> DEFINE row == [memberships[d] EXCEPT !.status = status]
<1>1. memberships \in [Did -> Members!MembershipRow \cup {Members!NoRow}]
  BY DEF Members!TypeOK
<1>2. row \in Members!MembershipRow /\ row.status = status
  <2>1. CASE memberships[d] = Members!NoRow
    <3>1. memberships[d] \in [status: {"none"}, group: BOOLEAN, member: BOOLEAN]
      BY <2>1 DEF Members!NoRow
    <3>2. QED
      BY <3>1 DEF Members!MembershipRow
  <2>2. CASE memberships[d] # Members!NoRow
    <3>1. memberships[d] \in Members!MembershipRow
      BY <1>1, <2>2
    <3>2. QED
      BY <3>1 DEF Members!MembershipRow
  <2>3. QED
    BY <2>1, <2>2
<1>3. memberships' = [memberships EXCEPT ![d] = row]
  BY <1>1
<1>4. QED
  BY <1>1, <1>2, <1>3

LEMMA MembersStep ==
    ASSUME MembersInv, [Members!Next]_mvars
    PROVE  MembersInv'
<1> USE DEF MembersInv, MembersAsked, Members!MembersAsked
<1>1. ASSUME NEW r \in Request, NEW d \in Did, Members!RequestMembership(r, d)
      PROVE  MembersInv'
  <2>1. /\ memberships' \in [Did -> Members!MembershipRow \cup {Members!NoRow}]
        /\ \A e \in Did : e # d => memberships'[e] = memberships[e]
    BY <1>1, StatusSet DEF Members!RequestMembership
  <2>2. [pc |-> "asking", did |-> d, group |-> FALSE] \in Members!MembershipRequest
    BY DEF Members!MembershipRequest
  <2>3. requests' \in [Request -> Members!MembershipRequest \cup {Members!NoRequest}]
    BY <1>1, <2>2 DEF Members!RequestMembership, Members!TypeOK
  <2>4. asked' = asked \cup {d} /\ UNCHANGED admins
    BY <1>1 DEF Members!RequestMembership
  <2>5. QED
    BY <2>1, <2>3, <2>4 DEF Members!TypeOK
<1>2. ASSUME NEW r \in Request, NEW written \in BOOLEAN, Members!FinishRequest(r, written)
      PROVE  MembersInv'
  <2>1. requests[r].did \in Did
    BY <1>2, HandlerType DEF Members!FinishRequest
  <2>2. /\ memberships' \in [Did -> Members!MembershipRow \cup {Members!NoRow}]
        /\ \A e \in Did : memberships'[e].status = memberships[e].status
    <3>1. CASE written
      BY <1>2, <2>1, <3>1, StoreUrisKeepsStatus DEF Members!FinishRequest
    <3>2. CASE ~written
      BY <1>2, <3>2 DEF Members!FinishRequest, Members!TypeOK
    <3>3. QED
      BY <3>1, <3>2
  <2>3. requests' \in [Request -> Members!MembershipRequest \cup {Members!NoRequest}]
    BY <1>2, EndsHandler DEF Members!FinishRequest
  <2>4. UNCHANGED <<admins, asked>>
    BY <1>2 DEF Members!FinishRequest
  <2>5. QED
    BY <2>2, <2>3, <2>4 DEF Members!TypeOK
<1>3. ASSUME NEW r \in Request, NEW a \in Did, NEW d \in Did,
             Members!ApproveMembership(r, a, d)
      PROVE  MembersInv'
  <2>1. /\ memberships' \in [Did -> Members!MembershipRow \cup {Members!NoRow}]
        /\ \A e \in Did : e # d => memberships'[e] = memberships[e]
    BY <1>3, StatusSet DEF Members!ApproveMembership
  <2>2. [pc |-> "approving", did |-> d, group |-> FALSE] \in Members!MembershipRequest
    BY DEF Members!MembershipRequest
  <2>3. requests' \in [Request -> Members!MembershipRequest \cup {Members!NoRequest}]
    BY <1>3, <2>2 DEF Members!ApproveMembership, Members!TypeOK
  <2>4. d \in asked /\ UNCHANGED <<admins, asked>>
    BY <1>3 DEF Members!ApproveMembership, Members!Approvable
  <2>5. QED
    BY <2>1, <2>3, <2>4 DEF Members!TypeOK
<1>4. ASSUME NEW r \in Request, NEW written \in BOOLEAN, Members!WriteGroupRecord(r, written)
      PROVE  MembersInv'
  <2> DEFINE q == [requests[r] EXCEPT !.pc = "approved", !.group = written]
  <2>1. requests[r] \in Members!MembershipRequest
    BY <1>4, HandlerType DEF Members!WriteGroupRecord
  <2>2. q \in Members!MembershipRequest
    BY <2>1 DEF Members!MembershipRequest
  <2>3. requests' = [requests EXCEPT ![r] = q]
    BY <1>4 DEF Members!WriteGroupRecord, Members!TypeOK
  <2>4. QED
    BY <1>4, <2>2, <2>3 DEF Members!WriteGroupRecord, Members!TypeOK
<1>5. ASSUME NEW r \in Request, NEW written \in BOOLEAN, Members!FinishApproval(r, written)
      PROVE  MembersInv'
  <2>1. requests[r].did \in Did /\ requests[r].group \in BOOLEAN
    BY <1>5, HandlerType DEF Members!FinishApproval
  <2>2. /\ memberships' \in [Did -> Members!MembershipRow \cup {Members!NoRow}]
        /\ \A e \in Did : memberships'[e].status = memberships[e].status
    <3>1. CASE requests[r].group \/ written
      BY <1>5, <2>1, <3>1, StoreUrisKeepsStatus DEF Members!FinishApproval
    <3>2. CASE ~(requests[r].group \/ written)
      BY <1>5, <3>2 DEF Members!FinishApproval, Members!TypeOK
    <3>3. QED
      BY <3>1, <3>2
  <2>3. requests' \in [Request -> Members!MembershipRequest \cup {Members!NoRequest}]
    BY <1>5, EndsHandler DEF Members!FinishApproval
  <2>4. UNCHANGED <<admins, asked>>
    BY <1>5 DEF Members!FinishApproval
  <2>5. QED
    BY <2>2, <2>3, <2>4 DEF Members!TypeOK
<1>6. ASSUME NEW a \in Did, NEW d \in Did, Members!RejectMembership(a, d)
      PROVE  MembersInv'
  BY <1>6 DEF Members!RejectMembership, Members!TypeOK, Members!NoRow
<1>7. ASSUME NEW d \in Did, Members!LeaveMembership(d)
      PROVE  MembersInv'
  <2>1. /\ memberships' \in [Did -> Members!MembershipRow \cup {Members!NoRow}]
        /\ memberships'[d].status = "left"
        /\ \A e \in Did : e # d => memberships'[e] = memberships[e]
    BY <1>7, StatusSet DEF Members!LeaveMembership
  <2>2. asked' = asked \ {d} /\ UNCHANGED <<admins, requests>>
    BY <1>7 DEF Members!LeaveMembership
  <2>3. QED
    BY <2>1, <2>2 DEF Members!TypeOK
<1>8. ASSUME NEW a \in Did, Members!ChangeAdmins(a)
      PROVE  MembersInv'
  BY <1>8 DEF Members!ChangeAdmins, Members!TypeOK
<1>9. CASE Members!CrashMemberships
  BY <1>9 DEF Members!CrashMemberships, Members!TypeOK
<1>10. CASE UNCHANGED mvars
  BY <1>10 DEF mvars, Members!TypeOK
<1>11. QED
  BY <1>1, <1>2, <1>3, <1>4, <1>5, <1>6, <1>7, <1>8, <1>9, <1>10 DEF Members!Next

----------------------------------------------------------------------------
(* Nullifiers.                                                             *)

\* A handler that goes on is about a nullifier; what was not accepted yet may
\* be stored, what was accepted is, and it was accepted once.
NullifiersInv ==
    /\ artifacts \in [Commitment -> Zk!ArtifactStatus]
    /\ nullifiers \subseteq Zk!Nullifier
    /\ zkRequests \in [Request -> Zk!PendingRequest \cup {Zk!NoRequest}]
    /\ accepted \in [Zk!Nullifier -> Nat]
    /\ \A n \in Zk!Nullifier : accepted[n] = 0 \/ (accepted[n] = 1 /\ n \in nullifiers)

LEMMA ZkHandlerType ==
    ASSUME NullifiersInv, NEW r \in Request, zkRequests[r].pc # "idle"
    PROVE  /\ zkRequests[r] \in Zk!PendingRequest
           /\ zkRequests[r].nullifier \in Zk!Nullifier
<1>1. zkRequests[r] \in Zk!PendingRequest
  BY DEF NullifiersInv, Zk!NoRequest
<1>2. QED
  BY <1>1 DEF Zk!PendingRequest

LEMMA NullifiersStep ==
    ASSUME NullifiersInv, [Zk!Next]_zvars
    PROVE  NullifiersInv'
<1> USE DEF NullifiersInv
<1>1. CASE \/ \E c \in Commitment : Zk!Register(c)
           \/ \E c \in Commitment, status \in Zk!ArtifactStatus : Zk!ChangeStatus(c, status)
           \/ UNCHANGED zvars
  BY <1>1 DEF Zk!Register, Zk!ChangeStatus, Zk!ArtifactStatus, zvars
<1>2. ASSUME NEW r \in Request, NEW n \in Zk!Nullifier, Zk!BeginNullifier(r, n)
      PROVE  NullifiersInv'
  <2>1. [pc |-> "verifying", nullifier |-> n] \in Zk!PendingRequest
    BY DEF Zk!PendingRequest
  <2>2. QED
    BY <1>2, <2>1 DEF Zk!BeginNullifier
<1>3. ASSUME NEW r \in Request, Zk!Refuse(r)
      PROVE  NullifiersInv'
  BY <1>3 DEF Zk!Refuse, Zk!End
<1>4. ASSUME NEW r \in Request, Zk!CheckNullifier(r)
      PROVE  NullifiersInv'
  <2>1. zkRequests[r] \in Zk!PendingRequest
    BY <1>4, ZkHandlerType DEF Zk!CheckNullifier
  <2>2. [zkRequests[r] EXCEPT !.pc = "importing"] \in Zk!PendingRequest
    BY <2>1 DEF Zk!PendingRequest
  <2>3. zkRequests' = [zkRequests EXCEPT ![r] = [zkRequests[r] EXCEPT !.pc = "importing"]]
    BY <1>4 DEF Zk!CheckNullifier
  <2>4. QED
    BY <1>4, <2>2, <2>3 DEF Zk!CheckNullifier
<1>5. ASSUME NEW r \in Request, Zk!InsertNullifier(r)
      PROVE  NullifiersInv'
  <2> DEFINE n == zkRequests[r].nullifier
  <2>1. n \in Zk!Nullifier
    BY <1>5, ZkHandlerType DEF Zk!InsertNullifier
  <2>2. zkRequests' \in [Request -> Zk!PendingRequest \cup {Zk!NoRequest}]
    BY <1>5 DEF Zk!InsertNullifier, Zk!End
  <2>3. CASE n \notin nullifiers
    <3>1. nullifiers' = nullifiers \cup {n} /\ accepted' = [accepted EXCEPT ![n] = @ + 1]
      BY <1>5, <2>3 DEF Zk!InsertNullifier, Zk!Unique
    <3>2. accepted[n] = 0
      BY <2>1, <2>3
    <3>3. \A m \in Zk!Nullifier : accepted'[m] = IF m = n THEN 1 ELSE accepted[m]
      BY <2>1, <3>1, <3>2
    <3>4. nullifiers' \subseteq Zk!Nullifier /\ accepted' \in [Zk!Nullifier -> Nat]
      BY <2>1, <3>1
    <3>5. UNCHANGED artifacts
      BY <1>5 DEF Zk!InsertNullifier
    <3>6. QED
      BY <2>1, <2>2, <3>1, <3>3, <3>4, <3>5
  <2>4. CASE n \in nullifiers
    BY <1>5, <2>2, <2>4 DEF Zk!InsertNullifier, Zk!Unique
  <2>5. QED
    BY <2>3, <2>4
<1>6. ASSUME NEW r \in Request, Zk!CrashAfterInsert(r)
      PROVE  NullifiersInv'
  <2>1. zkRequests[r].nullifier \in Zk!Nullifier
    BY <1>6, ZkHandlerType DEF Zk!CrashAfterInsert
  <2>2. nullifiers' = nullifiers \cup {zkRequests[r].nullifier} /\ UNCHANGED <<artifacts, accepted>>
    BY <1>6 DEF Zk!CrashAfterInsert
  <2>3. zkRequests' \in [Request -> Zk!PendingRequest \cup {Zk!NoRequest}]
    BY <1>6 DEF Zk!CrashAfterInsert
  <2>4. QED
    BY <2>1, <2>2, <2>3
<1>7. CASE Zk!Crash
  BY <1>7 DEF Zk!Crash
<1>8. QED
  BY <1>1, <1>2, <1>3, <1>4, <1>5, <1>6, <1>7 DEF Zk!Next

----------------------------------------------------------------------------
(* Karma.                                                                  *)

\* What sums of points rest on: a profile has one owner at a time, every row is
\* of a deed its owner did and is worth what such a deed is worth, there is one
\* row for a deed, and a profile that nobody has left nothing behind; and what
\* a session did are finitely many deeds.
KarmaInv ==
    /\ Awards!TypeOK
    /\ \A s, t \in Speaker : profiles[s] = profiles[t] /\ s # t => profiles[s] = None
    /\ \A k \in karma :
          /\ k.points = Awards!Points(k.deed[1])
          /\ \E s \in Speaker : profiles[s] = k.profile /\ k.deed \in done[s]
    /\ \A k, l \in karma : k.profile = l.profile /\ k.deed = l.deed => k = l
    /\ \A s \in Speaker : deeds[s] \subseteq done[s] /\ IsFiniteSet(done[s])
    /\ \A p \in Profile :
          (\A s \in Speaker : profiles[s] # p) => revelations[p] = Awards!Hidden

LEMMA PointsType ==
    ASSUME NEW d \in Deed
    PROVE  Awards!Points(d[1]) \in 1..10
<1>1. d[1] \in Awards!ActionType
  BY ConstantsAssumption DEF Awards!KarmaAssumption
<1>2. QED
  BY <1>1 DEF Awards!ActionType, Awards!Points

LEMMA EarnStep ==
    ASSUME KarmaInv, NEW s \in Speaker, NEW d \in Deed, NEW c \in Community \cup {None},
           Awards!Earn(s, d, c)
    PROVE  KarmaInv'
<1> DEFINE p == profiles[s]
           row == [profile |-> p, deed |-> d, community |-> c,
                   points |-> Awards!Points(d[1])]
<1>1. p \in Profile /\ p # None
  BY DEF Awards!Earn, KarmaInv, Awards!TypeOK
<1>2. /\ row \in Awards!KarmaRow /\ row.profile = p /\ row.deed = d
      /\ row.points = Awards!Points(d[1])
  BY <1>1, PointsType DEF Awards!KarmaRow
<1>3. karma' = karma \cup {row} /\ UNCHANGED <<profiles, revelations, deeds, joined, done>>
  BY DEF Awards!Earn
<1>4. \A k \in karma : ~(k.profile = p /\ k.deed = d)
  BY DEF Awards!Earn, Awards!Awarded, Awards!KarmaOf
<1>5. d \in done[s]
  BY DEF Awards!Earn, KarmaInv
<1> HIDE DEF row
<1>6. QED
  BY <1>2, <1>3, <1>4, <1>5 DEF KarmaInv, Awards!TypeOK

LEMMA DisableStep ==
    ASSUME KarmaInv, NEW s \in Speaker, Awards!DisableProfile(s)
    PROVE  KarmaInv'
<1> DEFINE p == profiles[s]
<1>1. p \in Profile /\ p # None
  BY DEF Awards!DisableProfile, KarmaInv, Awards!TypeOK
<1>2. karma' = karma \ {k \in karma : k.profile = p}
  BY DEF Awards!DisableProfile, Awards!Cascade, Awards!KarmaOf
<1>3. /\ revelations' = [revelations EXCEPT ![p] = Awards!Hidden]
      /\ profiles' = [profiles EXCEPT ![s] = None]
      /\ UNCHANGED <<deeds, joined, done>>
  BY DEF Awards!DisableProfile, Awards!Cascade
<1>4. Awards!Hidden \in Awards!Revelation
  BY DEF Awards!Hidden, Awards!Revelation
<1>5. Awards!TypeOK'
  BY <1>1, <1>2, <1>3, <1>4 DEF KarmaInv, Awards!TypeOK
<1>6. \A k \in karma' :
         /\ k.points = Awards!Points(k.deed[1])
         /\ \E t \in Speaker : profiles'[t] = k.profile /\ k.deed \in done'[t]
  BY <1>2, <1>3 DEF KarmaInv, Awards!TypeOK
<1>7. \A q \in Profile :
         (\A t \in Speaker : profiles'[t] # q) => revelations'[q] = Awards!Hidden
  BY <1>1, <1>3 DEF KarmaInv, Awards!TypeOK
<1>8. \A t, u \in Speaker : profiles'[t] = profiles'[u] /\ t # u => profiles'[t] = None
  BY <1>3 DEF KarmaInv, Awards!TypeOK
<1>9. QED
  BY <1>2, <1>3, <1>5, <1>6, <1>7, <1>8 DEF KarmaInv

LEMMA KarmaStep ==
    ASSUME KarmaInv, [Awards!Next]_kvars
    PROVE  KarmaInv'
<1>1. ASSUME NEW s \in Speaker, NEW d \in Deed, Awards!Do(s, d)
      PROVE  KarmaInv'
  <2>1. \A t \in Speaker : IsFiniteSet(done'[t])
    BY <1>1, FS_AddElement DEF Awards!Do, KarmaInv, Awards!TypeOK
  <2>2. QED
    BY <1>1, <2>1 DEF Awards!Do, KarmaInv, Awards!TypeOK
<1>2. ASSUME NEW s \in Speaker, Awards!LoseCredential(s)
      PROVE  KarmaInv'
  BY <1>2 DEF Awards!LoseCredential, KarmaInv, Awards!TypeOK
<1>3. ASSUME NEW s \in Speaker, NEW c \in Community, Awards!ChangeMembership(s, c)
      PROVE  KarmaInv'
  BY <1>3 DEF Awards!ChangeMembership, KarmaInv, Awards!TypeOK
<1>4. ASSUME NEW s \in Speaker, NEW p \in Profile, Awards!EnableProfile(s, p)
      PROVE  KarmaInv'
  <2>1. p # None
    BY ConstantsAssumption DEF Awards!KarmaAssumption
  <2>2. \A t \in Speaker : profiles'[t] = IF t = s THEN p ELSE profiles[t]
    BY <1>4 DEF Awards!EnableProfile, KarmaInv, Awards!TypeOK
  <2>3. /\ profiles[s] = None
        /\ \A t \in Speaker : profiles[t] # p
        /\ UNCHANGED <<karma, revelations, deeds, joined, done>>
    BY <1>4 DEF Awards!EnableProfile
  <2>4. Awards!TypeOK'
    BY <1>4, <2>3 DEF Awards!EnableProfile, KarmaInv, Awards!TypeOK
  <2>5. \A k \in karma : k.profile # None
    BY ConstantsAssumption DEF Awards!KarmaAssumption, KarmaInv, Awards!TypeOK,
       Awards!KarmaRow
  <2>6. \A k \in karma' : \E t \in Speaker : profiles'[t] = k.profile /\ k.deed \in done'[t]
    BY <2>2, <2>3, <2>5 DEF KarmaInv
  <2>7. \A q \in Profile :
           (\A t \in Speaker : profiles'[t] # q) => revelations'[q] = Awards!Hidden
    BY <2>1, <2>2, <2>3, ConstantsAssumption DEF Awards!KarmaAssumption, KarmaInv
  <2>8. QED
    BY <2>2, <2>3, <2>4, <2>6, <2>7 DEF KarmaInv
<1>5. ASSUME NEW s \in Speaker, NEW d \in Deed, NEW c \in Community \cup {None},
             Awards!Earn(s, d, c)
      PROVE  KarmaInv'
  BY <1>5, EarnStep
<1>6. ASSUME NEW s \in Speaker, NEW revelation \in Awards!Revelation,
             Awards!UpdateRevelation(s, revelation)
      PROVE  KarmaInv'
  BY <1>6 DEF Awards!UpdateRevelation, KarmaInv, Awards!TypeOK
<1>7. ASSUME NEW s \in Speaker, Awards!DisableProfile(s)
      PROVE  KarmaInv'
  BY <1>7, DisableStep
<1>8. CASE UNCHANGED kvars
  BY <1>8 DEF kvars, KarmaInv, Awards!TypeOK
<1>9. QED
  BY <1>1, <1>2, <1>3, <1>4, <1>5, <1>6, <1>7, <1>8 DEF Awards!Next

\* Points of rows are points of the deeds they are for, and no two rows of a
\* profile are for one deed: there are no more of the first than of the second.
LEMMA EarnedKarma ==
    ASSUME KarmaInv
    PROVE  KarmaIsEarned
<1>1. ASSUME NEW s \in Speaker, profiles[s] # None
      PROVE  Awards!Total(Awards!KarmaOf(profiles[s])) <= Awards!Worth(done[s])
  <2> DEFINE rows == Awards!KarmaOf(profiles[s])
             earned == {x \in rows \X (1..10) : x[2] <= x[1].points}
             worth == {x \in done[s] \X (1..10) : x[2] <= Awards!Points(x[1][1])}
             deed == [x \in earned |-> <<x[1].deed, x[2]>>]
  <2>1. \A k \in rows : /\ k.deed \in done[s] /\ k.points = Awards!Points(k.deed[1])
                        /\ \A l \in rows : k.deed = l.deed => k = l
    BY <1>1 DEF KarmaInv, Awards!KarmaOf
  <2>2. IsFiniteSet(worth)
    <3>1. IsFiniteSet(done[s] \X (1..10))
      <4>1. IsFiniteSet(1..10)
        BY 1 \in Int, 10 \in Int, FS_Interval, Zenon
      <4>2. IsFiniteSet(done[s])
        BY DEF KarmaInv
      <4>3. QED
        BY <4>1, <4>2, FS_Product
    <3>2. worth \in SUBSET (done[s] \X (1..10))
      OBVIOUS
    <3>3. QED
      BY <3>1, <3>2, FS_Subset
  <2>3. deed \in [earned -> worth]
    BY <2>1
  <2>4. \A x, y \in earned : deed[x] = deed[y] => x = y
    <3> SUFFICES ASSUME NEW x \in earned, NEW y \in earned, deed[x] = deed[y]
                 PROVE  x = y
      OBVIOUS
    <3>1. x[1].deed = y[1].deed /\ x[2] = y[2]
      OBVIOUS
    <3>2. x[1] \in rows /\ y[1] \in rows /\ x = <<x[1], x[2]>> /\ y = <<y[1], y[2]>>
      OBVIOUS
    <3> HIDE DEF rows, earned
    <3>3. QED
      BY <2>1, <3>1, <3>2
  <2>5. deed \in Injection(earned, worth)
    <3> HIDE DEF earned, worth, deed
    <3>1. QED
      BY <2>3, <2>4 DEF Injection, IsInjective
  <2>6. Cardinality(earned) <= Cardinality(worth)
    BY <2>2, <2>5, FS_Injection
  <2>7. QED
    BY <2>6, SameCardinality DEF Awards!Total, Awards!Worth
<1>2. ASSUME NEW p \in Profile, \A s \in Speaker : profiles[s] # p
      PROVE  Awards!KarmaOf(p) = {} /\ revelations[p] = Awards!Hidden
  BY <1>2 DEF KarmaInv, Awards!KarmaOf
<1>3. QED
  BY <1>1, <1>2 DEF KarmaIsEarned, Awards!KarmaIsEarned

----------------------------------------------------------------------------
(* Follows.                                                                *)

\* An id of a profile is used once, so that nobody follows a profile that is
\* about to be enabled.
FollowsInv ==
    /\ Followers!TypeOK
    /\ \A p \in Profile : owner[p] # None => former[p] = owner[p]
    /\ FollowersAreOthers

LEMMA FollowsStep ==
    ASSUME FollowsInv, [Followers!Next]_fvars
    PROVE  FollowsInv'
<1> USE DEF FollowsInv, FollowersAreOthers, Followers!FollowersAreOthers, Followers!TypeOK
<1>1. ASSUME NEW s \in Session, NEW p \in Profile, Followers!EnableProfile(s, p)
      PROVE  FollowsInv'
  <2>1. /\ former[p] = None /\ UNCHANGED <<cards, follows>>
        /\ owner' = [owner EXCEPT ![p] = s] /\ former' = [former EXCEPT ![p] = s]
    BY <1>1 DEF Followers!EnableProfile
  <2>2. \A f \in follows : f.voice # p
    BY <2>1
  <2>3. QED
    BY <2>1, <2>2
<1>2. ASSUME NEW p \in Profile, Followers!DisableProfile(p)
      PROVE  FollowsInv'
  BY <1>2 DEF Followers!DisableProfile
<1>3. ASSUME NEW p \in Profile, Followers!FoldCard(p)
      PROVE  FollowsInv'
  BY <1>3 DEF Followers!FoldCard
<1>4. ASSUME NEW s \in Session, NEW t \in Followers!Target, Followers!Follow(s, t)
      PROVE  FollowsInv'
  <2>1. PICK p \in Followers!Resolve(t) :
           /\ owner[p] # s
           /\ follows' = follows \cup {[follower |-> s, voice |-> p]}
           /\ UNCHANGED <<owner, cards, former>>
    BY <1>4 DEF Followers!Follow, Followers!OwnVoice
  <2>2. p \in Profile /\ owner[p] # None
    BY DEF Followers!Resolve
  <2>3. QED
    BY <2>1, <2>2
<1>5. ASSUME NEW s \in Session, NEW t \in Followers!Target, Followers!Unfollow(s, t)
      PROVE  FollowsInv'
  BY <1>5 DEF Followers!Unfollow
<1>6. CASE UNCHANGED fvars
  BY <1>6 DEF fvars
<1>7. QED
  BY <1>1, <1>2, <1>3, <1>4, <1>5, <1>6 DEF Followers!Next

----------------------------------------------------------------------------
(* Pajareo.                                                                *)

CountedRow == [author: Session, type: Voices!EntryType, counts: [Voices!Counter -> Nat]]

\* The sessions with a row for an entry, and what a counter of the entry tells
\* with what the process died before counting.
RowsOf(rows, e) == {s \in Session : <<s, e>> \in rows}
Counted(e, k) == entries[e].counts[k] + missed[e][k]

\* Nothing is of an entry that does not exist, and the counters tell the rows
\* of one that does; that bounds the counters.
Told(e) ==
    IF entries[e] = Voices!NoEntry
    THEN /\ RowsOf(supports, e) = {} /\ RowsOf(reports, e) = {}
         /\ responses[e] = 0
         /\ \A k \in Voices!Counter : missed[e][k] = 0
    ELSE /\ Counted(e, "support") = Voices!Signatures(entries[e].type)
                                    + Cardinality(RowsOf(supports, e))
         /\ Counted(e, "report") = Cardinality(RowsOf(reports, e))
         /\ Counted(e, "response") = responses[e]

PajareoInv ==
    /\ entries \in [Entry -> CountedRow \cup {Voices!NoEntry}]
    /\ linked \subseteq Entry
    /\ supports \subseteq Session \X Entry
    /\ reports \subseteq Session \X Entry
    /\ responses \in [Entry -> 0..MaxResponses]
    /\ missed \in [Entry -> [Voices!Counter -> Nat]]
    /\ \A e \in Entry : Told(e)

\* Sessions are finitely many, and so are the rows of an entry.
LEMMA RowsFinite ==
    ASSUME NEW rows, NEW e
    PROVE  /\ IsFiniteSet(RowsOf(rows, e))
           /\ Cardinality(RowsOf(rows, e)) \in 0..Cardinality(Session)
           /\ Cardinality(Session) \in Nat
<1>1. IsFiniteSet(Session)
  BY ConstantsAssumption, SameCardinality DEF Voices!PajareoAssumption
<1>2. RowsOf(rows, e) \in SUBSET Session
  BY DEF RowsOf
<1>3. IsFiniteSet(RowsOf(rows, e)) /\ Cardinality(RowsOf(rows, e)) <= Cardinality(Session)
  BY <1>1, <1>2, FS_Subset
<1>4. Cardinality(RowsOf(rows, e)) \in Nat /\ Cardinality(Session) \in Nat
  BY <1>1, <1>3, FS_CardinalityType
<1>5. QED
  BY <1>3, <1>4

\* A row that is stored is one more row of its entry, and no other's.
LEMMA RowStored ==
    ASSUME NEW rows, NEW s \in Session, NEW e \in Entry, <<s, e>> \notin rows
    PROVE  LET stored == rows \cup {<<s, e>>} IN
           /\ Cardinality(RowsOf(stored, e)) = Cardinality(RowsOf(rows, e)) + 1
           /\ \A f \in Entry : f # e => RowsOf(stored, f) = RowsOf(rows, f)
<1> DEFINE stored == rows \cup {<<s, e>>}
<1>1. RowsOf(stored, e) = RowsOf(rows, e) \cup {s} /\ s \notin RowsOf(rows, e)
  BY DEF RowsOf
<1>2. Cardinality(RowsOf(stored, e)) = Cardinality(RowsOf(rows, e)) + 1
  BY <1>1, RowsFinite, FS_AddElement
<1>3. \A f \in Entry : f # e => RowsOf(stored, f) = RowsOf(rows, f)
  BY DEF RowsOf
<1>4. QED
  BY <1>2, <1>3

\* Raising a counter, or dying before it, counts once.
LEMMA CountedOnce ==
    ASSUME PajareoInv, NEW e \in Entry, entries[e] # Voices!NoEntry,
           NEW k \in Voices!Counter, Voices!RaiseOrDie(e, k)
    PROVE  /\ entries' \in [Entry -> CountedRow \cup {Voices!NoEntry}]
           /\ missed' \in [Entry -> [Voices!Counter -> Nat]]
           /\ \A j \in Voices!Counter :
                 Counted(e, j)' = IF j = k THEN Counted(e, j) + 1 ELSE Counted(e, j)
           /\ entries'[e] # Voices!NoEntry /\ entries'[e].type = entries[e].type
           /\ \A f \in Entry : f # e => entries'[f] = entries[f] /\ missed'[f] = missed[f]
<1> DEFINE row == [entries[e] EXCEPT !.counts[k] = @ + 1]
           lost == [missed[e] EXCEPT ![k] = @ + 1]
<1>1. entries[e] \in CountedRow /\ missed[e] \in [Voices!Counter -> Nat]
  BY DEF PajareoInv
<1>2. CASE entries' = [entries EXCEPT ![e].counts[k] = @ + 1] /\ UNCHANGED missed
  <2>1. /\ row \in CountedRow /\ row.type = entries[e].type
        /\ \A j \in Voices!Counter :
              row.counts[j] = IF j = k THEN entries[e].counts[j] + 1 ELSE entries[e].counts[j]
    BY <1>1 DEF CountedRow
  <2>2. entries' = [entries EXCEPT ![e] = row]
    BY <1>2 DEF PajareoInv
  <2> HIDE DEF row
  <2>3. row # Voices!NoEntry
    BY <2>1, ConstantsAssumption DEF CountedRow, Voices!NoEntry, Voices!PajareoAssumption
  <2>4. \A j \in Voices!Counter :
           Counted(e, j)' = IF j = k THEN Counted(e, j) + 1 ELSE Counted(e, j)
    <3>1. entries'[e] = row /\ missed'[e] = missed[e]
      BY <1>2, <2>2 DEF PajareoInv
    <3>2. \A j \in Voices!Counter : entries[e].counts[j] \in Nat /\ missed[e][j] \in Nat
      BY <1>1 DEF CountedRow
    <3>3. QED
      BY <2>1, <3>1, <3>2 DEF Counted
  <2>5. QED
    BY <1>2, <2>1, <2>2, <2>3, <2>4 DEF PajareoInv
<1>3. CASE missed' = [missed EXCEPT ![e][k] = @ + 1] /\ UNCHANGED entries
  <2>1. /\ lost \in [Voices!Counter -> Nat]
        /\ \A j \in Voices!Counter : lost[j] = IF j = k THEN missed[e][j] + 1 ELSE missed[e][j]
    BY <1>1
  <2>2. missed' = [missed EXCEPT ![e] = lost]
    BY <1>3 DEF PajareoInv
  <2> HIDE DEF lost
  <2>3. \A j \in Voices!Counter :
           Counted(e, j)' = IF j = k THEN Counted(e, j) + 1 ELSE Counted(e, j)
    <3>1. missed'[e] = lost /\ entries'[e] = entries[e]
      BY <1>3, <2>2 DEF PajareoInv
    <3>2. \A j \in Voices!Counter : entries[e].counts[j] \in Nat /\ missed[e][j] \in Nat
      BY <1>1 DEF CountedRow
    <3>3. QED
      BY <2>1, <3>1, <3>2 DEF Counted
  <2>4. QED
    BY <1>3, <2>1, <2>2, <2>3 DEF PajareoInv
<1>4. QED
  BY <1>2, <1>3 DEF Voices!RaiseOrDie, Voices!Raise

LEMMA NewEntryStep ==
    ASSUME PajareoInv, NEW s \in Session, NEW e \in Entry, NEW type \in Voices!EntryType,
           entries[e] = Voices!NoEntry,
           entries' = [entries EXCEPT ![e] = Voices!NewEntry(s, type)],
           linked' \subseteq Entry, UNCHANGED <<supports, reports, responses, missed>>
    PROVE  PajareoInv'
<1> DEFINE row == Voices!NewEntry(s, type)
<1>1. /\ row \in CountedRow /\ row.type = type
      /\ row.counts["support"] = Voices!Signatures(type)
      /\ row.counts["report"] = 0 /\ row.counts["response"] = 0
  BY DEF Voices!NewEntry, Voices!Signatures, Voices!Counter, CountedRow
<1>2. row # Voices!NoEntry
  BY <1>1, ConstantsAssumption DEF CountedRow, Voices!NoEntry, Voices!PajareoAssumption
<1> HIDE DEF row
<1>3. entries'[e] = row /\ \A f \in Entry : f # e => entries'[f] = entries[f]
  BY DEF PajareoInv, row
<1>4. /\ RowsOf(supports, e) = {} /\ RowsOf(reports, e) = {}
      /\ responses[e] = 0
      /\ \A k \in Voices!Counter : missed[e][k] = 0
  BY DEF PajareoInv, Told
<1>5. /\ Counted(e, "support")' = Voices!Signatures(type) /\ Voices!Signatures(type) \in Nat
      /\ Counted(e, "report")' = 0 /\ Counted(e, "response")' = 0
  BY <1>1, <1>3, <1>4 DEF Counted, Voices!Counter, Voices!Signatures
<1>6. \A f \in Entry : f # e => \A k : Counted(f, k)' = Counted(f, k)
  BY <1>3 DEF Counted
<1>7. entries' \in [Entry -> CountedRow \cup {Voices!NoEntry}]
  BY <1>1, <1>3 DEF PajareoInv, row
<1>8. Cardinality(RowsOf(supports, e)) = 0 /\ Cardinality(RowsOf(reports, e)) = 0
  BY <1>4, FS_EmptySet
<1>9. Told(e)'
  BY <1>1, <1>2, <1>3, <1>4, <1>5, <1>8 DEF Told, RowsOf
<1>10. \A f \in Entry : f # e => Told(f)'
  BY <1>3, <1>6 DEF PajareoInv, Told, RowsOf
<1>11. QED
  BY <1>7, <1>9, <1>10 DEF PajareoInv

LEMMA SupportStep ==
    ASSUME PajareoInv, NEW s \in Session, NEW e \in Entry, Voices!Support(s, e)
    PROVE  PajareoInv'
<1>1. /\ entries[e] # Voices!NoEntry /\ <<s, e>> \notin supports
      /\ supports' = supports \cup {<<s, e>>} /\ UNCHANGED <<linked, reports, responses>>
      /\ Voices!RaiseOrDie(e, "support")
  BY DEF Voices!Support, Voices!Inserted
<1>2. /\ Cardinality(RowsOf(supports', e)) = Cardinality(RowsOf(supports, e)) + 1
      /\ \A f \in Entry : f # e => RowsOf(supports', f) = RowsOf(supports, f)
  BY <1>1, RowStored
<1>3. /\ entries' \in [Entry -> CountedRow \cup {Voices!NoEntry}]
      /\ missed' \in [Entry -> [Voices!Counter -> Nat]]
      /\ Counted(e, "support")' = Counted(e, "support") + 1
      /\ Counted(e, "report")' = Counted(e, "report")
      /\ Counted(e, "response")' = Counted(e, "response")
      /\ entries'[e] # Voices!NoEntry /\ entries'[e].type = entries[e].type
      /\ \A f \in Entry : f # e => entries'[f] = entries[f] /\ missed'[f] = missed[f]
  BY <1>1, CountedOnce DEF Voices!Counter
<1>4. \A f \in Entry : f # e => \A k : Counted(f, k)' = Counted(f, k)
  BY <1>3 DEF Counted
<1>5. Cardinality(RowsOf(supports, e)) \in Nat /\ Voices!Signatures(entries[e].type) \in Nat
  BY RowsFinite DEF Voices!Signatures
<1>6. Told(e) /\ Told(e)'
  BY <1>1, <1>2, <1>3, <1>5 DEF PajareoInv, Told
<1>7. \A f \in Entry : f # e => Told(f)'
  BY <1>1, <1>2, <1>3, <1>4 DEF PajareoInv, Told
<1>8. QED
  BY <1>1, <1>3, <1>6, <1>7 DEF PajareoInv

LEMMA ReportStep ==
    ASSUME PajareoInv, NEW s \in Session, NEW e \in Entry, Voices!Report(s, e)
    PROVE  PajareoInv'
<1>1. /\ entries[e] # Voices!NoEntry /\ <<s, e>> \notin reports
      /\ reports' = reports \cup {<<s, e>>} /\ UNCHANGED <<linked, supports, responses>>
      /\ Voices!RaiseOrDie(e, "report")
  BY DEF Voices!Report, Voices!Inserted
<1>2. /\ Cardinality(RowsOf(reports', e)) = Cardinality(RowsOf(reports, e)) + 1
      /\ \A f \in Entry : f # e => RowsOf(reports', f) = RowsOf(reports, f)
  BY <1>1, RowStored
<1>3. /\ entries' \in [Entry -> CountedRow \cup {Voices!NoEntry}]
      /\ missed' \in [Entry -> [Voices!Counter -> Nat]]
      /\ Counted(e, "support")' = Counted(e, "support")
      /\ Counted(e, "report")' = Counted(e, "report") + 1
      /\ Counted(e, "response")' = Counted(e, "response")
      /\ entries'[e] # Voices!NoEntry /\ entries'[e].type = entries[e].type
      /\ \A f \in Entry : f # e => entries'[f] = entries[f] /\ missed'[f] = missed[f]
  BY <1>1, CountedOnce DEF Voices!Counter
<1>4. \A f \in Entry : f # e => \A k : Counted(f, k)' = Counted(f, k)
  BY <1>3 DEF Counted
<1>5. Told(e)'
  BY <1>1, <1>2, <1>3 DEF PajareoInv, Told
<1>6. \A f \in Entry : f # e => Told(f)'
  BY <1>1, <1>2, <1>3, <1>4 DEF PajareoInv, Told
<1>7. QED
  BY <1>1, <1>2, <1>3, <1>5, <1>6 DEF PajareoInv

LEMMA RespondStep ==
    ASSUME PajareoInv, NEW e \in Entry, Voices!Respond(e)
    PROVE  PajareoInv'
<1>1. /\ entries[e] # Voices!NoEntry /\ responses[e] < MaxResponses
      /\ responses' = [responses EXCEPT ![e] = responses[e] + 1]
      /\ UNCHANGED <<linked, supports, reports>>
      /\ Voices!RaiseOrDie(e, "response")
  BY DEF Voices!Respond
<1>2. responses' \in [Entry -> 0..MaxResponses] /\ responses'[e] = responses[e] + 1
  BY <1>1, ConstantsAssumption DEF PajareoInv, Voices!PajareoAssumption
<1>3. /\ entries' \in [Entry -> CountedRow \cup {Voices!NoEntry}]
      /\ missed' \in [Entry -> [Voices!Counter -> Nat]]
      /\ Counted(e, "support")' = Counted(e, "support")
      /\ Counted(e, "report")' = Counted(e, "report")
      /\ Counted(e, "response")' = Counted(e, "response") + 1
      /\ entries'[e] # Voices!NoEntry /\ entries'[e].type = entries[e].type
      /\ \A f \in Entry : f # e => entries'[f] = entries[f] /\ missed'[f] = missed[f]
  BY <1>1, CountedOnce DEF Voices!Counter
<1>4. \A f \in Entry : f # e => /\ \A k : Counted(f, k)' = Counted(f, k)
                                /\ responses'[f] = responses[f]
  BY <1>1, <1>3 DEF Counted, PajareoInv
<1>5. Told(e)'
  BY <1>1, <1>2, <1>3 DEF PajareoInv, Told
<1>6. \A f \in Entry : f # e => Told(f)'
  BY <1>1, <1>2, <1>3, <1>4 DEF PajareoInv, Told
<1>7. QED
  BY <1>1, <1>2, <1>3, <1>5, <1>6 DEF PajareoInv

LEMMA PajareoStep ==
    ASSUME PajareoInv, [Voices!Next]_pvars
    PROVE  PajareoInv'
<1>1. ASSUME NEW s \in Session, NEW e \in Entry, NEW type \in Voices!EntryType,
             Voices!CreateEntry(s, e, type) \/ Voices!CrashInCreate(s, e, type)
      PROVE  PajareoInv'
  BY <1>1, NewEntryStep DEF Voices!CreateEntry, Voices!CrashInCreate, PajareoInv
<1>2. CASE UNCHANGED pvars
  BY <1>2 DEF pvars, PajareoInv, Told, Counted, RowsOf
<1>3. QED
  BY <1>1, <1>2, SupportStep, ReportStep, RespondStep DEF Voices!Next

\* What the counters tell bounds them.
LEMMA PajareoTypes ==
    ASSUME PajareoInv
    PROVE  Voices!TypeOK /\ CountersTellRows
<1> DEFINE Most == Cardinality(Session) + MaxResponses + 1
<1>1. Voices!Most = Most /\ Most \in Nat /\ MaxResponses \in Nat
  BY SameCardinality, RowsFinite, ConstantsAssumption DEF Voices!Most, Voices!PajareoAssumption
<1>2. ASSUME NEW e \in Entry
      PROVE  /\ entries[e] \in Voices!EntryRow \cup {Voices!NoEntry}
             /\ missed[e] \in [Voices!Counter -> 0..Voices!Most]
  <2>1. missed[e] \in [Voices!Counter -> Nat]
    BY DEF PajareoInv
  <2>2. CASE entries[e] = Voices!NoEntry
    BY <1>1, <2>1, <2>2 DEF PajareoInv, Told
  <2>3. CASE entries[e] # Voices!NoEntry
    <3>1. entries[e] \in CountedRow
      BY <2>3 DEF PajareoInv
    <3>2. \A k \in Voices!Counter : entries[e].counts[k] \in Nat /\ missed[e][k] \in Nat
      BY <2>1, <3>1 DEF CountedRow
    <3>3. /\ Counted(e, "support") <= Most /\ Counted(e, "report") <= Most
          /\ Counted(e, "response") <= Most
      BY <1>1, <2>3, RowsFinite DEF PajareoInv, Told, Voices!Signatures
    <3>4. \A k \in Voices!Counter :
             entries[e].counts[k] \in 0..Most /\ missed[e][k] \in 0..Most
      BY <1>1, <3>2, <3>3 DEF Counted, Voices!Counter
    <3>5. QED
      BY <1>1, <2>1, <3>1, <3>4 DEF CountedRow, Voices!EntryRow
  <2>4. QED
    BY <2>2, <2>3
<1>3. Voices!TypeOK
  BY <1>2 DEF PajareoInv, Voices!TypeOK
<1>4. CountersTellRows
  BY SameCardinality
     DEF PajareoInv, Told, CountersTellRows, Voices!CountersTellRows, Counted, RowsOf
<1>5. QED
  BY <1>3, <1>4

----------------------------------------------------------------------------
(* Anonymous identities.                                                   *)

\* Posts whose burner was archived for having made them.
Burnt == spoken \ escaped

\* An identity that was archived for having spoken is archived still, which is
\* why it cannot speak again, and why the posts that let it speak again are
\* those of requests that died; and a post offers replies only as its owner last
\* said, whatever the states of its identity and of the contact are.
IdentitiesInv ==
    /\ Identities!TypeOK
    /\ \A p \in Post : posts[p] # Identities!NoPost =>
          posts[p].identity \in 1..Len(identities)
    /\ \A s \in Speaker : profile[s] # 0 => profile[s] \in 1..Len(identities)
    /\ \A p \in spoken : posts[p] # Identities!NoPost
    /\ \A p \in Burnt : identities[posts[p].identity].status = "archived"
    /\ \A p, q \in Burnt : posts[p].identity = posts[q].identity => p = q
    /\ \A p \in Post : posts[p].replies => p \in consented

\* Rows that other rows become without any being deleted or taken up again.
Grown(rows) ==
    /\ rows \in Seq(Identities!IdentityRow)
    /\ Len(identities) <= Len(rows)
    /\ \A i \in 1..Len(identities) :
          identities[i].status = "archived" => rows[i].status = "archived"

LEMMA FreshRow ==
    ASSUME NEW s \in Speaker, NEW burn \in BOOLEAN
    PROVE  /\ Identities!Fresh(s, burn) \in Identities!IdentityRow
           /\ [Identities!Fresh(s, burn) EXCEPT !.status = "unfolded"] \in Identities!IdentityRow
           /\ Identities!Fresh(s, burn).status = "active"
BY DEF Identities!Fresh, Identities!IdentityRow

\* One more row.
LEMMA RowAppended ==
    ASSUME NEW rows, Grown(rows), NEW row \in Identities!IdentityRow
    PROVE  /\ Grown(Append(rows, row))
           /\ Len(Append(rows, row)) = Len(rows) + 1
           /\ \A i \in 1..Len(rows) : Append(rows, row)[i] = rows[i]
<1>1. /\ Append(rows, row) \in Seq(Identities!IdentityRow)
      /\ Len(Append(rows, row)) = Len(rows) + 1
      /\ \A i \in 1..Len(rows) : Append(rows, row)[i] = rows[i]
  BY AppendProperties DEF Grown
<1>2. Len(rows) \in Nat /\ Len(identities) <= Len(rows)
  BY DEF Grown
<1>3. QED
  BY <1>1, <1>2 DEF Grown

LEMMA RowsStart ==
    ASSUME IdentitiesInv
    PROVE  Grown(identities) /\ Len(identities) \in 0..MaxIdentities
BY ConstantsAssumption
   DEF IdentitiesInv, Identities!TypeOK, Grown, Identities!IdentityAssumption

\* A status that is set in one row.
LEMMA StatusOfRow ==
    ASSUME NEW rows \in Seq(Identities!IdentityRow), NEW i \in 1..Len(rows),
           NEW status \in {"unfolded", "active", "archived"},
           NEW set, set = [rows EXCEPT ![i].status = status]
    PROVE  /\ set \in Seq(Identities!IdentityRow) /\ Len(set) = Len(rows)
           /\ set[i].status = status
           /\ \A j \in 1..Len(rows) : j # i => set[j] = rows[j]
<1> DEFINE row == [rows[i] EXCEPT !.status = status]
<1>1. rows[i] \in Identities!IdentityRow
  BY ElementOfSeq
<1>2. row \in Identities!IdentityRow /\ row.status = status
  BY <1>1 DEF Identities!IdentityRow
<1>3. set = [rows EXCEPT ![i] = row]
  OBVIOUS
<1> HIDE DEF row
<1>4. QED
  BY <1>2, <1>3, ExceptSeq

\* The default identity is unfolded or made; nothing else changes.
LEMMA DefaultGrows ==
    ASSUME IdentitiesInv, NEW s \in Speaker
    PROVE  Grown(Identities!WithDefault(s))
<1> DEFINE i == profile[s]
<1>1. Grown(identities)
  BY RowsStart
<1>2. CASE i # 0 /\ identities[i].status = "unfolded"
  <2>1. i \in 1..Len(identities)
    BY <1>2 DEF IdentitiesInv
  <2>2. PICK set : /\ set = [identities EXCEPT ![i].status = "active"]
                   /\ set = Identities!WithDefault(s)
    BY <1>2 DEF Identities!WithDefault
  <2>3. identities \in Seq(Identities!IdentityRow)
    BY <1>1 DEF Grown
  <2>4. /\ set \in Seq(Identities!IdentityRow) /\ Len(set) = Len(identities)
        /\ \A j \in 1..Len(identities) : j # i => set[j] = identities[j]
    <3> HIDE DEF i
    <3>1. set = [identities EXCEPT ![i].status = "active"]
      BY <2>2
    <3>2. QED
      BY <2>1, <2>3, <3>1, StatusOfRow
  <2>5. Grown(set)
    <3>1. Len(identities) \in Nat
      BY RowsStart
    <3>2. \A j \in 1..Len(identities) :
             identities[j].status = "archived" => set[j].status = "archived"
      BY <1>2, <2>4
    <3>3. QED
      BY <2>4, <3>1, <3>2 DEF Grown
  <2>6. QED
    BY <2>2, <2>5
<1>3. CASE i = 0 /\ Identities!Of(s, identities) = {}
  BY <1>1, <1>3, FreshRow, RowAppended DEF Identities!WithDefault
<1>4. CASE ~(i # 0 /\ identities[i].status = "unfolded")
           /\ ~(i = 0 /\ Identities!Of(s, identities) = {})
  BY <1>1, <1>4 DEF Identities!WithDefault
<1>5. QED
  BY <1>2, <1>3, <1>4

\* Rows may grow as long as the posts and what is known of them stay.
LEMMA RowsStep ==
    ASSUME IdentitiesInv, Grown(identities'), Len(identities') <= MaxIdentities,
           profile' \in [Speaker -> Identities!Identity \cup {0}],
           \A s \in Speaker : profile'[s] # 0 => profile'[s] \in 1..Len(identities'),
           UNCHANGED <<posts, germ, spoken, escaped, consented>>
    PROVE  IdentitiesInv'
<1>1. Len(identities) \in Nat /\ Len(identities') \in Nat /\ Len(identities) <= Len(identities')
  BY RowsStart DEF Grown
<1>2. Identities!TypeOK'
  BY DEF IdentitiesInv, Identities!TypeOK, Grown
<1>3. \A p \in Post : posts'[p] # Identities!NoPost => posts'[p].identity \in 1..Len(identities')
  BY <1>1 DEF IdentitiesInv
<1>4. Burnt' = Burnt /\ \A p \in Burnt : p \in spoken /\ p \in Post
  BY DEF Burnt, IdentitiesInv, Identities!TypeOK
<1>5. \A p \in Burnt' : identities'[posts'[p].identity].status = "archived"
  BY <1>4 DEF IdentitiesInv, Grown
<1>6. \A p, q \in Burnt' : posts'[p].identity = posts'[q].identity => p = q
  BY <1>4 DEF IdentitiesInv
<1>7. \A p \in spoken' : posts'[p] # Identities!NoPost
  BY DEF IdentitiesInv
<1>8. QED
  BY <1>2, <1>3, <1>5, <1>6, <1>7 DEF IdentitiesInv

LEMMA IdentityStep ==
    ASSUME IdentitiesInv, NEW s \in Speaker,
           \/ Identities!EnableProfile(s) \/ Identities!DisableProfile(s)
           \/ Identities!EnsureDefault(s)
           \/ \E burn \in BOOLEAN : Identities!CreateIdentity(s, burn)
    PROVE  IdentitiesInv'
<1>1. Grown(identities) /\ Len(identities) \in 0..MaxIdentities /\ MaxIdentities \in Nat
  BY RowsStart, ConstantsAssumption DEF Identities!IdentityAssumption
<1>2. /\ profile \in [Speaker -> Identities!Identity \cup {0}]
      /\ \A t \in Speaker : profile[t] # 0 => profile[t] \in 1..Len(identities)
  BY DEF IdentitiesInv, Identities!TypeOK
<1>3. CASE Identities!EnableProfile(s)
  <2>1. /\ Grown(identities') /\ Len(identities') = Len(identities) + 1
        /\ Len(identities) < MaxIdentities
        /\ profile' = [profile EXCEPT ![s] = Len(identities) + 1]
        /\ UNCHANGED <<posts, germ, spoken, escaped, consented>>
    BY <1>1, <1>3, FreshRow, RowAppended DEF Identities!EnableProfile
  <2>2. profile' \in [Speaker -> Identities!Identity \cup {0}]
    BY <1>1, <1>2, <2>1 DEF Identities!Identity
  <2>3. \A t \in Speaker : profile'[t] # 0 => profile'[t] \in 1..Len(identities')
    BY <1>1, <1>2, <2>1
  <2>4. QED
    BY <1>1, <2>1, <2>2, <2>3, RowsStep
<1>4. CASE Identities!DisableProfile(s)
  BY <1>1, <1>2, <1>4, RowsStep DEF Identities!DisableProfile, Grown
<1>5. CASE Identities!EnsureDefault(s)
  <2>1. /\ Grown(identities') /\ Len(identities') <= MaxIdentities
        /\ UNCHANGED <<profile, posts, germ, spoken, escaped, consented>>
    BY <1>5, DefaultGrows DEF Identities!EnsureDefault
  <2>2. \A t \in Speaker : profile'[t] # 0 => profile'[t] \in 1..Len(identities')
    BY <1>1, <1>2, <2>1 DEF Grown
  <2>3. QED
    BY <1>2, <2>1, <2>2, RowsStep
<1>6. ASSUME NEW burn \in BOOLEAN, Identities!CreateIdentity(s, burn)
      PROVE  IdentitiesInv'
  <2>1. /\ Grown(identities') /\ Len(identities') = Len(identities) + 1
        /\ Len(identities) < MaxIdentities
        /\ UNCHANGED <<profile, posts, germ, spoken, escaped, consented>>
    BY <1>1, <1>6, FreshRow, RowAppended DEF Identities!CreateIdentity
  <2>2. QED
    BY <1>1, <1>2, <2>1, RowsStep
<1>7. QED
  BY <1>3, <1>4, <1>5, <1>6

LEMMA UpdateStep ==
    ASSUME IdentitiesInv, NEW s \in Speaker, NEW i \in Identities!Identity,
           NEW status \in {"active", "archived"}, NEW burn \in BOOLEAN,
           Identities!UpdateIdentity(s, i, status, burn)
    PROVE  IdentitiesInv'
<1> DEFINE row == [identities[i] EXCEPT !.status = status, !.burn = burn]
<1>1. identities \in Seq(Identities!IdentityRow) /\ Len(identities) \in 0..MaxIdentities
  BY RowsStart DEF Grown
<1>2. i \in 1..Len(identities)
  BY <1>1, LenProperties DEF Identities!UpdateIdentity, Identities!Of
<1>3. row \in Identities!IdentityRow /\ row.status = status
  <2>1. identities[i] \in Identities!IdentityRow
    BY <1>1, <1>2, ElementOfSeq
  <2>2. QED
    BY <2>1 DEF Identities!IdentityRow
<1>4. identities' = [identities EXCEPT ![i] = row]
  BY <1>1, <1>2, LenProperties DEF Identities!UpdateIdentity
<1> HIDE DEF row
<1>5. /\ identities' \in Seq(Identities!IdentityRow) /\ Len(identities') = Len(identities)
      /\ identities'[i].status = status
      /\ \A j \in 1..Len(identities) : j # i => identities'[j] = identities[j]
  BY <1>1, <1>2, <1>3, <1>4, ExceptSeq
<1>6. /\ UNCHANGED <<profile, posts, germ, consented>>
      /\ spoken' \subseteq spoken /\ escaped' \subseteq spoken' /\ Burnt' \subseteq Burnt
      /\ identities[i].status = "archived" /\ status = "active" =>
            \A p \in Burnt' : p \notin Identities!PostsOf(i)
  BY DEF Identities!UpdateIdentity, IdentitiesInv, Identities!TypeOK, Burnt
<1>7. \A p \in Burnt' : identities'[posts'[p].identity].status = "archived"
  <2> SUFFICES ASSUME NEW p \in Burnt'
               PROVE  identities'[posts[p].identity].status = "archived"
    BY <1>6
  <2>1. /\ p \in Post /\ identities[posts[p].identity].status = "archived"
        /\ posts[p].identity \in 1..Len(identities)
    BY <1>6 DEF IdentitiesInv, Identities!TypeOK, Burnt
  <2>2. CASE posts[p].identity = i
    BY <1>5, <1>6, <2>1, <2>2 DEF Identities!PostsOf
  <2>3. CASE posts[p].identity # i
    BY <1>5, <2>1, <2>3
  <2>4. QED
    BY <2>2, <2>3
<1>8. /\ \A p \in spoken' : posts'[p] # Identities!NoPost
      /\ \A p, q \in Burnt' : posts'[p].identity = posts'[q].identity => p = q
  BY <1>6 DEF IdentitiesInv
<1>9. Identities!TypeOK'
  BY <1>1, <1>5, <1>6 DEF IdentitiesInv, Identities!TypeOK
<1>10. QED
  BY <1>5, <1>6, <1>7, <1>8, <1>9 DEF IdentitiesInv

\* A post is linked to an identity that no post in Burnt has, and is in Burnt
\* itself only when that identity is archived for it.
LEMMA PostLinked ==
    ASSUME IdentitiesInv, NEW p \in Post, NEW i \in 1..Len(identities'),
           posts[p] = Identities!NoPost,
           posts' = [posts EXCEPT ![p] = [identity |-> i, replies |-> FALSE]],
           Grown(identities'), Len(identities') <= MaxIdentities,
           i \in 1..Len(identities) => identities[i].status # "archived",
           spoken' \subseteq spoken \cup {p}, escaped' \subseteq spoken',
           \/ Burnt' \subseteq Burnt
           \/ Burnt' \subseteq Burnt \cup {p} /\ identities'[i].status = "archived",
           UNCHANGED <<profile, germ, consented>>
    PROVE  IdentitiesInv'
<1> DEFINE post == [identity |-> i, replies |-> FALSE]
<1>1. /\ Len(identities) \in Nat /\ Len(identities') \in Nat /\ MaxIdentities \in Nat
      /\ Len(identities) <= Len(identities')
  BY RowsStart, ConstantsAssumption DEF Grown, Identities!IdentityAssumption
<1>2. /\ post \in Identities!PostRow /\ post # Identities!NoPost
      /\ post.identity = i /\ post.replies = FALSE
  BY <1>1 DEF Identities!PostRow, Identities!NoPost, Identities!Identity
<1> HIDE DEF post
<1>3. posts \in [Post -> Identities!PostRow \cup {Identities!NoPost}]
  BY DEF IdentitiesInv, Identities!TypeOK
<1>4. /\ posts' \in [Post -> Identities!PostRow \cup {Identities!NoPost}]
      /\ posts'[p] = post /\ \A q \in Post : q # p => posts'[q] = posts[q]
  BY <1>2, <1>3 DEF post
<1>5. \A q \in Burnt : /\ q \in Post /\ q # p /\ posts[q].identity # i
                       /\ identities'[posts'[q].identity].status = "archived"
  <2> SUFFICES ASSUME NEW q \in Burnt
               PROVE  /\ q \in Post /\ q # p /\ posts[q].identity # i
                      /\ identities'[posts'[q].identity].status = "archived"
    OBVIOUS
  <2>1. /\ q \in Post /\ posts[q] # Identities!NoPost
        /\ posts[q].identity \in 1..Len(identities)
        /\ identities[posts[q].identity].status = "archived"
    BY DEF IdentitiesInv, Identities!TypeOK, Burnt
  <2>2. QED
    BY <1>4, <2>1 DEF Grown
<1>6. Identities!TypeOK'
  BY <1>4 DEF IdentitiesInv, Identities!TypeOK, Grown
<1>7. /\ \A q \in Post : posts'[q] # Identities!NoPost =>
            posts'[q].identity \in 1..Len(identities')
      /\ \A t \in Speaker : profile'[t] # 0 => profile'[t] \in 1..Len(identities')
      /\ \A q \in Post : posts'[q].replies => q \in consented'
  BY <1>1, <1>2, <1>4 DEF IdentitiesInv
<1>8. /\ \A q \in Burnt' : identities'[posts'[q].identity].status = "archived"
      /\ \A q, r \in Burnt' : posts'[q].identity = posts'[r].identity => q = r
  BY <1>2, <1>4, <1>5 DEF IdentitiesInv
<1>9. \A q \in spoken' : posts'[q] # Identities!NoPost
  BY <1>2, <1>4 DEF IdentitiesInv, Identities!TypeOK
<1>10. QED
  BY <1>6, <1>7, <1>8, <1>9 DEF IdentitiesInv

LEMMA LinkStep ==
    ASSUME IdentitiesInv, NEW s \in Speaker, NEW chosen \in Identities!Identity \cup {0},
           NEW p \in Post, Identities!LinkPost(s, chosen, p)
    PROVE  IdentitiesInv'
<1>1. PICK rows, i :
         /\ Grown(rows) /\ Len(rows) <= MaxIdentities
         /\ i \in Identities!Of(s, rows) /\ rows[i].status = "active"
         /\ posts[p] = Identities!NoPost
         /\ posts' = [posts EXCEPT ![p] = [identity |-> i, replies |-> FALSE]]
         /\ IF rows[i].burn
            THEN /\ Len(rows) < MaxIdentities
                 /\ identities' = Identities!Burn(rows, i)
                 /\ spoken' = spoken \cup {p}
            ELSE identities' = rows /\ UNCHANGED spoken
         /\ UNCHANGED <<profile, germ, escaped, consented>>
  BY RowsStart, DefaultGrows DEF Identities!LinkPost
<1>2. /\ rows \in Seq(Identities!IdentityRow) /\ Len(rows) \in Nat /\ MaxIdentities \in Nat
      /\ i \in 1..Len(rows) /\ rows[i] \in Identities!IdentityRow
  BY <1>1, LenProperties, ElementOfSeq, ConstantsAssumption
     DEF Grown, Identities!Of, Identities!IdentityAssumption
<1>3. /\ i \in 1..Len(identities) => identities[i].status # "archived"
      /\ spoken' \subseteq spoken \cup {p} /\ escaped' \subseteq spoken'
  BY <1>1 DEF Grown, IdentitiesInv, Identities!TypeOK
<1>4. CASE ~rows[i].burn
  <2>1. identities' = rows /\ Burnt' \subseteq Burnt
    BY <1>1, <1>4 DEF Burnt
  <2>2. QED
    BY <1>1, <1>2, <1>3, <2>1, PostLinked
<1>5. CASE rows[i].burn
  <2>1. PICK set : set = [rows EXCEPT ![i].status = "archived"]
    OBVIOUS
  <2>2. /\ set \in Seq(Identities!IdentityRow) /\ Len(set) = Len(rows)
        /\ set[i].status = "archived"
        /\ \A j \in 1..Len(rows) : j # i => set[j] = rows[j]
    <3>1. "archived" \in {"unfolded", "active", "archived"}
      OBVIOUS
    <3>2. rows \in Seq(Identities!IdentityRow) /\ i \in 1..Len(rows)
      BY <1>2
    <3>3. QED
      BY ONLY <2>1, <3>1, <3>2, StatusOfRow
  <2>3. Grown(set)
    <3>1. Len(identities) \in Nat /\ Len(identities) <= Len(rows)
      BY <1>1, RowsStart DEF Grown
    <3>2. \A j \in 1..Len(identities) :
             identities[j].status = "archived" => set[j].status = "archived"
      BY <1>1, <1>2, <2>2, <3>1 DEF Grown
    <3>3. QED
      BY <2>2, <3>1, <3>2 DEF Grown
  <2>4. identities' = Append(set, Identities!Fresh(rows[i].session, TRUE))
    BY <1>1, <1>5, <2>1 DEF Identities!Burn
  <2>5. Identities!Fresh(rows[i].session, TRUE) \in Identities!IdentityRow
    BY <1>2, FreshRow DEF Identities!IdentityRow
  <2>6. /\ Grown(identities') /\ Len(identities') = Len(rows) + 1
        /\ identities'[i].status = "archived"
    <3>1. /\ Grown(identities') /\ Len(identities') = Len(set) + 1
          /\ identities'[i] = set[i]
      BY <1>2, <2>2, <2>3, <2>4, <2>5, RowAppended
    <3>2. QED
      BY <2>2, <3>1
  <2>7. /\ Len(identities') <= MaxIdentities /\ i \in 1..Len(identities')
        /\ Burnt' \subseteq Burnt \cup {p}
    BY <1>1, <1>2, <1>5, <2>6 DEF Burnt
  <2>8. QED
    BY <1>1, <1>3, <2>6, <2>7, PostLinked
<1>6. QED
  BY <1>4, <1>5

LEMMA CrashInLinkStep ==
    ASSUME IdentitiesInv, NEW s \in Speaker, NEW i \in Identities!Identity, NEW p \in Post,
           NEW archived \in BOOLEAN, Identities!CrashInLinkPost(s, i, p, archived)
    PROVE  IdentitiesInv'
<1>1. /\ i \in Identities!Of(s, identities) /\ identities[i].status = "active"
      /\ posts[p] = Identities!NoPost
      /\ posts' = [posts EXCEPT ![p] = [identity |-> i, replies |-> FALSE]]
      /\ UNCHANGED <<profile, germ, consented>>
  BY DEF Identities!CrashInLinkPost
<1>2. /\ Grown(identities) /\ identities \in Seq(Identities!IdentityRow)
      /\ Len(identities) \in 0..MaxIdentities /\ i \in 1..Len(identities)
  BY <1>1, RowsStart, LenProperties DEF Grown, Identities!Of
<1>3. CASE ~archived
  <2>1. /\ UNCHANGED identities /\ Burnt' \subseteq Burnt
        /\ spoken' = spoken \cup {p} /\ escaped' \subseteq spoken'
    BY <1>3 DEF Identities!CrashInLinkPost, IdentitiesInv, Identities!TypeOK, Burnt
  <2>2. /\ Grown(identities') /\ Len(identities') <= MaxIdentities
        /\ i \in 1..Len(identities') /\ identities[i].status # "archived"
    BY <1>1, <1>2, <2>1 DEF Grown
  <2>3. QED
    BY <1>1, <2>1, <2>2, PostLinked
<1>4. CASE archived
  <2>1. /\ identities' = [identities EXCEPT ![i].status = "archived"]
        /\ spoken' = spoken \cup {p} /\ escaped' \subseteq spoken'
        /\ Burnt' \subseteq Burnt \cup {p}
    BY <1>4 DEF Identities!CrashInLinkPost, IdentitiesInv, Identities!TypeOK, Burnt
  <2>2. /\ identities' \in Seq(Identities!IdentityRow) /\ Len(identities') = Len(identities)
        /\ identities'[i].status = "archived"
        /\ \A j \in 1..Len(identities) : j # i => identities'[j] = identities[j]
    <3>1. "archived" \in {"unfolded", "active", "archived"}
      OBVIOUS
    <3>2. QED
      BY ONLY <1>2, <2>1, <3>1, StatusOfRow
  <2>3. Grown(identities')
    BY <1>2, <2>2 DEF Grown
  <2>4. /\ Len(identities') <= MaxIdentities
        /\ i \in 1..Len(identities') /\ identities[i].status # "archived"
    BY <1>1, <1>2, <2>2, ConstantsAssumption DEF Identities!IdentityAssumption
  <2>5. QED
    BY <1>1, <2>1, <2>2, <2>3, <2>4, PostLinked
<1>5. QED
  BY <1>3, <1>4

\* Contacts change no row of an identity.
LEMMA ContactStep ==
    ASSUME IdentitiesInv, UNCHANGED <<identities, profile, spoken, escaped>>,
           germ' \in [Identities!Identity -> {"none", "active", "revoked"}],
           posts' \in [Post -> Identities!PostRow \cup {Identities!NoPost}],
           \A p \in Post : /\ posts'[p].identity = posts[p].identity
                           /\ posts'[p] # Identities!NoPost <=> posts[p] # Identities!NoPost
                           /\ posts'[p].replies => p \in consented',
           consented' \subseteq Post
    PROVE  IdentitiesInv'
<1>1. Identities!TypeOK'
  BY DEF IdentitiesInv, Identities!TypeOK
<1>2. Burnt' = Burnt /\ spoken \subseteq Post /\ Burnt \subseteq Post
  BY DEF IdentitiesInv, Identities!TypeOK, Burnt
<1>3. QED
  BY <1>1, <1>2 DEF IdentitiesInv

\* A policy that is set in a row of a post.
LEMMA RepliesSet ==
    ASSUME IdentitiesInv, NEW p \in Post, posts[p].identity \in Identities!Identity,
           NEW on \in BOOLEAN, NEW post, post = [posts[p] EXCEPT !.replies = on]
    PROVE  /\ post \in Identities!PostRow /\ post # Identities!NoPost
           /\ posts[p] # Identities!NoPost
           /\ post.identity = posts[p].identity /\ post.replies = on
<1>1. 0 \notin Identities!Identity
  BY ConstantsAssumption DEF Identities!Identity, Identities!IdentityAssumption
<1>2. posts[p] \in Identities!PostRow /\ posts[p] # Identities!NoPost
  BY <1>1 DEF IdentitiesInv, Identities!TypeOK, Identities!NoPost
<1>3. post \in Identities!PostRow /\ post.identity = posts[p].identity /\ post.replies = on
  BY <1>2 DEF Identities!PostRow
<1>4. QED
  BY <1>1, <1>2, <1>3 DEF Identities!NoPost

LEMMA SetRepliesStep ==
    ASSUME IdentitiesInv, NEW s \in Speaker, NEW p \in Post, NEW on \in BOOLEAN,
           Identities!SetReplies(s, p, on)
    PROVE  IdentitiesInv'
<1>1. /\ posts[p].identity \in 1..Len(identities)
      /\ posts' = [posts EXCEPT ![p].replies = on]
      /\ consented' = IF on THEN consented \cup {p} ELSE consented \ {p}
      /\ UNCHANGED <<identities, profile, germ, spoken, escaped>>
  BY RowsStart, LenProperties DEF Identities!SetReplies, Identities!Of, Grown
<1>2. posts[p].identity \in Identities!Identity
  BY <1>1, RowsStart, ConstantsAssumption DEF Identities!Identity, Identities!IdentityAssumption
<1>3. PICK post : post = [posts[p] EXCEPT !.replies = on]
  OBVIOUS
<1>4. /\ post \in Identities!PostRow /\ post # Identities!NoPost
      /\ posts[p] # Identities!NoPost
      /\ post.identity = posts[p].identity /\ post.replies = on
  BY <1>2, <1>3, RepliesSet
<1>5. posts' = [posts EXCEPT ![p] = post]
  BY <1>1, <1>3
<1>6. /\ posts \in [Post -> Identities!PostRow \cup {Identities!NoPost}]
      /\ germ \in [Identities!Identity -> {"none", "active", "revoked"}]
      /\ consented \subseteq Post
      /\ \A q \in Post : posts[q].replies => q \in consented
  BY DEF IdentitiesInv, Identities!TypeOK
<1>7. \A q \in Post : posts'[q] = IF q = p THEN post ELSE posts[q]
  BY <1>5, <1>6
<1>8. posts' \in [Post -> Identities!PostRow \cup {Identities!NoPost}]
  BY <1>4, <1>5, <1>6
<1>9. \A q \in Post : /\ posts'[q].identity = posts[q].identity
                      /\ posts'[q] # Identities!NoPost <=> posts[q] # Identities!NoPost
                      /\ posts'[q].replies => q \in consented'
  BY <1>1, <1>4, <1>6, <1>7
<1>10. QED
  BY <1>1, <1>6, <1>8, <1>9, ContactStep

LEMMA GermStep ==
    ASSUME IdentitiesInv, NEW s \in Speaker, NEW i \in Identities!Identity,
           \/ Identities!LinkGerm(s, i)
           \/ Identities!UnlinkGerm(s, i)
           \/ Identities!CrashInUnlink(s, i)
    PROVE  IdentitiesInv'
<1>1. /\ posts \in [Post -> Identities!PostRow \cup {Identities!NoPost}]
      /\ germ \in [Identities!Identity -> {"none", "active", "revoked"}]
      /\ consented \subseteq Post
      /\ \A q \in Post : posts[q].replies => q \in consented
  BY DEF IdentitiesInv, Identities!TypeOK
<1>2. CASE Identities!LinkGerm(s, i) \/ Identities!CrashInUnlink(s, i)
  <2>1. /\ germ' \in [Identities!Identity -> {"none", "active", "revoked"}]
        /\ UNCHANGED <<identities, profile, posts, spoken, escaped, consented>>
    BY <1>1, <1>2 DEF Identities!LinkGerm, Identities!CrashInUnlink
  <2>2. QED
    BY <1>1, <2>1, ContactStep
<1>3. CASE Identities!UnlinkGerm(s, i)
  <2>1. /\ germ' \in [Identities!Identity -> {"none", "active", "revoked"}]
        /\ consented' = consented \ Identities!PostsOf(i)
        /\ posts' = [q \in Post |-> IF q \in Identities!PostsOf(i)
                                    THEN [posts[q] EXCEPT !.replies = FALSE] ELSE posts[q]]
        /\ UNCHANGED <<identities, profile, spoken, escaped>>
    BY <1>1, <1>3 DEF Identities!UnlinkGerm, Identities!Silenced
  <2>2. ASSUME NEW q \in Post
        PROVE  /\ posts'[q] \in Identities!PostRow \cup {Identities!NoPost}
               /\ posts'[q].identity = posts[q].identity
               /\ posts'[q] # Identities!NoPost <=> posts[q] # Identities!NoPost
               /\ posts'[q].replies => q \in consented'
    <3>1. CASE q \in Identities!PostsOf(i)
      <4>1. posts[q].identity \in Identities!Identity
        BY <3>1 DEF Identities!PostsOf
      <4>2. PICK post : post = [posts[q] EXCEPT !.replies = FALSE]
        OBVIOUS
      <4>3. /\ post \in Identities!PostRow /\ post # Identities!NoPost
            /\ posts[q] # Identities!NoPost
            /\ post.identity = posts[q].identity /\ post.replies = FALSE
        BY <4>1, <4>2, RepliesSet
      <4>4. posts'[q] = post
        BY <2>1, <3>1, <4>2
      <4>5. QED
        BY <4>3, <4>4
    <3>2. CASE q \notin Identities!PostsOf(i)
      <4>1. posts'[q] = posts[q]
        BY <2>1, <3>2
      <4>2. QED
        BY <1>1, <2>1, <3>2, <4>1
    <3>3. QED
      BY <3>1, <3>2
  <2>3. posts' \in [Post -> Identities!PostRow \cup {Identities!NoPost}]
    BY <2>1, <2>2
  <2>4. consented' \subseteq Post
    BY <1>1, <2>1
  <2>5. QED
    BY <2>1, <2>2, <2>3, <2>4, ContactStep
<1>4. QED
  BY <1>2, <1>3

LEMMA IdentitiesStep ==
    ASSUME IdentitiesInv, [Identities!Next]_avars
    PROVE  IdentitiesInv'
<1>1. CASE UNCHANGED avars
  BY <1>1 DEF avars, IdentitiesInv, Identities!TypeOK, Burnt
<1>2. QED
  BY <1>1, IdentityStep, UpdateStep, LinkStep, CrashInLinkStep, SetRepliesStep, GermStep
     DEF Identities!Next

\* Two posts of one burner that were no crash's are of Burnt.
LEMMA SpeakOnce ==
    ASSUME IdentitiesInv
    PROVE  BurnersSpeakOnce
BY DEF IdentitiesInv, Burnt, BurnersSpeakOnce, Identities!BurnersSpeakOnce

LEMMA ContactsAskedFor ==
    ASSUME IdentitiesInv
    PROVE  ContactWasAskedFor
BY DEF IdentitiesInv, ContactWasAskedFor, Identities!ContactWasAskedFor,
   Identities!Contactable

----------------------------------------------------------------------------
(* The theorems.                                                           *)

\* The components share no row: each invariant is about variables of its own.
ParticipationInv ==
    /\ MembersInv /\ NullifiersInv /\ KarmaInv
    /\ IdentitiesInv /\ FollowsInv /\ PajareoInv

LEMMA ParticipationInit == Init => ParticipationInv
<1> SUFFICES ASSUME Init
             PROVE  ParticipationInv
  OBVIOUS
<1>1. MembersInv
  BY DEF Init, Members!Init, MembersInv, MembersAsked, Members!MembersAsked,
     Members!TypeOK, Members!NoRow
<1>2. NullifiersInv
  BY DEF Init, Zk!Init, Zk!ArtifactStatus, NullifiersInv
<1>3. KarmaInv
  <2>1. Awards!Hidden \in Awards!Revelation
    BY DEF Awards!Hidden, Awards!Revelation
  <2>2. QED
    BY <2>1, FS_EmptySet DEF Init, Awards!Init, KarmaInv, Awards!TypeOK
<1>4. IdentitiesInv
  <2>1. /\ identities = <<>> /\ Len(identities) = 0
        /\ identities \in Seq(Identities!IdentityRow)
    BY EmptySeq DEF Init, Identities!Init
  <2>2. Identities!TypeOK
    BY <2>1, ConstantsAssumption
       DEF Init, Identities!Init, Identities!TypeOK, Identities!IdentityAssumption
  <2>3. QED
    BY <2>2 DEF Init, Identities!Init, IdentitiesInv, Burnt, Identities!NoPost
<1>5. FollowsInv
  BY DEF Init, Followers!Init, FollowsInv, Followers!TypeOK, FollowersAreOthers,
     Followers!FollowersAreOthers
<1>6. PajareoInv
  <2>1. MaxResponses \in Nat
    BY ConstantsAssumption DEF Voices!PajareoAssumption
  <2>2. \A e \in Entry : Told(e)
    BY DEF Init, Voices!Init, Told, RowsOf
  <2>3. QED
    BY <2>1, <2>2 DEF Init, Voices!Init, PajareoInv
<1>7. QED
  BY <1>1, <1>2, <1>3, <1>4, <1>5, <1>6 DEF ParticipationInv

ParticipationMove ==
    /\ [Members!Next]_mvars /\ [Zk!Next]_zvars /\ [Awards!Next]_kvars
    /\ [Identities!Next]_avars /\ [Followers!Next]_fvars /\ [Voices!Next]_pvars

\* The six components side by side.
Together == Init /\ [][ParticipationMove]_vars

LEMMA TogetherInvariant == Together => []ParticipationInv
<1>1. [ParticipationMove]_vars => ParticipationMove
  BY DEF ParticipationMove, vars
<1>2. ParticipationInv /\ ParticipationMove => ParticipationInv'
  BY MembersStep, NullifiersStep, KarmaStep, IdentitiesStep, FollowsStep, PajareoStep
     DEF ParticipationInv, ParticipationMove
<1>3. QED
  BY ParticipationInit, <1>1, <1>2, PTL DEF Together

\* A behaviour of one of them is one in which the others stand still.
LEMMA OneAtATime == Spec => Together
<1>1. [Next]_vars => ParticipationMove
  BY DEF ParticipationMove, Next, vars
<1>2. QED
  BY <1>1, PTL DEF Spec, Together

LEMMA ParticipationInvariant == Spec => []ParticipationInv
BY OneAtATime, TogetherInvariant

\* The rows of memberships, nullifiers, karma, identities, follows and Pajareo
\* always have the shape the code gives them.
THEOREM TypeCorrect == Spec => []TypeOK
<1>1. NullifiersInv => Zk!TypeOK
  BY DEF NullifiersInv, Zk!TypeOK
<1>2. PajareoInv => Voices!TypeOK
  BY PajareoTypes
<1>3. ParticipationInv => TypeOK
  BY <1>1, <1>2 DEF ParticipationInv, MembersInv, KarmaInv, IdentitiesInv, FollowsInv, TypeOK
<1>4. QED
  BY <1>3, ParticipationInvariant, PTL

\* Nobody is a member, or waits to be one, who has not asked since they last
\* left or were rejected: the late writes of URIs touch no status
\* (updateMembershipUris).
THEOREM MembersHaveAsked == Spec => []MembersAsked
<1>1. ParticipationInv => MembersAsked
  BY DEF ParticipationInv, MembersInv
<1>2. QED
  BY <1>1, ParticipationInvariant, PTL

\* A nullifier is answered as accepted at most once, whatever its requests had
\* looked up before they insert: the table's constraint decides (zkpNullifier).
THEOREM NullifiersAcceptedOnce == Spec => []AcceptedOnce
<1>1. ParticipationInv => AcceptedOnce
  BY DEF ParticipationInv, NullifiersInv, AcceptedOnce, Zk!AcceptedOnce
<1>2. QED
  BY <1>1, ParticipationInvariant, PTL

\* A profile's karma is of deeds its owner did, one row for each deed and worth
\* what the deed is worth; a profile nobody has hides everything (earn,
\* karma_unique_action, and the foreign keys to anonymous_profiles).
THEOREM KarmaIsOfDeeds == Spec => []KarmaInv
<1>1. ParticipationInv => KarmaInv
  BY DEF ParticipationInv
<1>2. QED
  BY <1>1, ParticipationInvariant, PTL

\* A profile has no more points than what its session did is worth, for any
\* number of sessions, deeds and communities (earn, karma_unique_action).
THEOREM KarmaWasEarned == Spec => []KarmaIsEarned
<1>1. ParticipationInv => KarmaIsEarned
  BY EarnedKarma DEF ParticipationInv
<1>2. QED
  BY <1>1, ParticipationInvariant, PTL

\* Of two posts of one identity that burns, one is of a request that died
\* before the identity was archived, unless the owner took the identity up
\* again in between, with any number of sessions, identities and posts
\* (linkAnonymousPost).
THEOREM BurnersSpokeOnce == Spec => []BurnersSpeakOnce
<1>1. ParticipationInv => BurnersSpeakOnce
  BY SpeakOnce DEF ParticipationInv
<1>2. QED
  BY <1>1, ParticipationInvariant, PTL

\* What holds of ArchivedOnceSpoken, which the code breaks: an identity that
\* burns is archived once it has spoken but for the posts of requests that
\* died, so that no interleaving of others lets it live on (linkAnonymousPost).
ArchivedUnlessEscaped ==
    \A p \in spoken \ escaped : identities[posts[p].identity].status = "archived"

THEOREM OnlyCrashesSpareBurners == Spec => []ArchivedUnlessEscaped
<1>1. ParticipationInv => ArchivedUnlessEscaped
  BY DEF ParticipationInv, IdentitiesInv, ArchivedUnlessEscaped, Burnt
<1>2. QED
  BY <1>1, ParticipationInvariant, PTL

\* Whatever happens to identities and contacts, a post that offers private
\* replies is one whose owner asked for them since the contact was last
\* unlinked (unlinkGermContact, updateAnonymousPostDmPolicy).
THEOREM ContactsWereAskedFor == Spec => []ContactWasAskedFor
<1>1. ParticipationInv => ContactWasAskedFor
  BY ContactsAskedFor DEF ParticipationInv
<1>2. QED
  BY <1>1, ParticipationInvariant, PTL

\* Nobody follows a voice of their own, nor one that is gone, whatever ids a
\* request names it by (followAnonymousProfile).
THEOREM FollowersOfOthers == Spec => []FollowersAreOthers
<1>1. ParticipationInv => FollowersAreOthers
  BY DEF ParticipationInv, FollowsInv
<1>2. QED
  BY <1>1, ParticipationInvariant, PTL

\* The counters of every entry tell its rows, but for those the process died
\* before counting, for any number of sessions and entries
\* (supportPajareoEntry, reportPajareoEntry, createPajareoResponse).
THEOREM CountersAreRows == Spec => []CountersTellRows
<1>1. ParticipationInv => CountersTellRows
  BY PajareoTypes DEF ParticipationInv
<1>2. QED
  BY <1>1, ParticipationInvariant, PTL

\* One component to a behaviour is a choice of the runs alone: what is proved
\* holds as well when the steps of the six interleave, or fall together.
THEOREM SafeTogether ==
    Together => [](/\ TypeOK /\ MembersAsked /\ AcceptedOnce /\ KarmaIsEarned
                   /\ BurnersSpeakOnce /\ ContactWasAskedFor
                   /\ FollowersAreOthers /\ CountersTellRows)
<1>1. ParticipationInv => TypeOK
  BY PajareoTypes
     DEF ParticipationInv, MembersInv, NullifiersInv, Zk!TypeOK, KarmaInv,
         IdentitiesInv, FollowsInv, TypeOK
<1>2. ParticipationInv => MembersAsked /\ AcceptedOnce /\ KarmaIsEarned
  BY EarnedKarma
     DEF ParticipationInv, MembersInv, NullifiersInv, AcceptedOnce, Zk!AcceptedOnce
<1>3. ParticipationInv => /\ BurnersSpeakOnce /\ ContactWasAskedFor
                          /\ FollowersAreOthers /\ CountersTellRows
  BY SpeakOnce, ContactsAskedFor, PajareoTypes DEF ParticipationInv, FollowsInv
<1>4. QED
  BY <1>1, <1>2, <1>3, TogetherInvariant, PTL
=============================================================================
