---------------------------- MODULE CivicVote_proofs ----------------------------
(***************************************************************************)
(* The safety properties of CivicVote, for any people, sessions, subjects  *)
(* and delegations, and any finite set of person roots: a person has one   *)
(* root, so that what is counted implements one person, one vote.          *)
(***************************************************************************)
EXTENDS CivicVote, FiniteSetTheorems, WellFoundedInduction, TLAPS

----------------------------------------------------------------------------
(* The inductive invariant.                                                *)

\* A root is filed under one key.
RootsInv ==
    \A q, r \in Root : roots[q] = roots[r] /\ roots[q] # NoPerson => q = r

\* Rows that name a root and a person name the root of that person.
NamesInv ==
    /\ \A n \in nullifiers : roots[n.root] = n.person
    /\ \A d \in Delegation : delegations[d] # NoDelegation =>
          roots[delegations[d].root] = delegations[d].person
    /\ \A subject \in Subject : \A c \in counted[subject] :
          /\ c.nullifier[2] = subject
          /\ roots[c.nullifier[1]] = c.person

\* Whoever has a proof, a delegation or a ballot was verified.
VerifiedInv ==
    /\ \A n \in nullifiers : n.person \in Verified
    /\ \A d \in Delegation : delegations[d] # NoDelegation =>
          delegations[d].person \in Verified
    /\ \A subject \in Subject : \A c \in counted[subject] : c.person \in Verified

\* The key of an enrollment is the key of the person.
KeysInv == \A s \in Session : \A i \in DOMAIN enrollments[s] :
              enrollments[s][i].key = enrollments[s][i].person

CivicInv == TypeOK /\ KeysInv /\ RootsInv /\ NamesInv /\ VerifiedInv
                   /\ CountedWasAuthorised

----------------------------------------------------------------------------
(* Rows.                                                                   *)

LEMMA RootType ==
    ASSUME TypeOK, NEW r \in Root
    PROVE  roots[r] \in Person \cup {NoPerson}
BY DEF TypeOK, PersonKeys, PersonKey

\* A set of positions of a sequence has a largest member.
LEMMA MaxIsMember ==
    ASSUME NEW n \in Nat, NEW S \in SUBSET (1..n), S # {}
    PROVE  Max(S) \in S
<1> DEFINE D == {n - k : k \in S}
<1>1. D \subseteq Nat /\ D # {}
  <2>1. ASSUME NEW k \in S PROVE n - k \in Nat
    <3>1. k \in 1..n
      OBVIOUS
    <3>2. QED
      BY <3>1
  <2>2. D \subseteq Nat
    BY <2>1
  <2>3. D # {}
    OBVIOUS
  <2>4. QED
    BY <2>2, <2>3
<1>2. \E x \in D : \A y \in D : ~ (<<y, x>> \in OpToRel(<, Nat))
  BY <1>1, WFMin, NatLessThanWellFounded, Zenon
<1>3. PICK x \in D : \A y \in D : ~ (y < x)
  BY <1>1, <1>2 DEF OpToRel
<1>4. PICK m \in S : x = n - m
  BY <1>3
<1>5. \A k \in S : k <= m
  <2>1. ASSUME NEW k \in S PROVE k <= m
    <3>1. n - k \in D
      OBVIOUS
    <3>2. ~ (n - k < n - m)
      BY <1>3, <1>4, <3>1
    <3>3. QED
      BY <3>2
  <2>2. QED
    BY <2>1
<1>6. QED
  BY <1>4, <1>5 DEF Max

\* The credential of a session is an active enrollment of it.
LEMMA CredentialIs ==
    ASSUME CivicInv, NEW s \in Session, Usable(s) # {}
    PROVE  /\ Credential(s).person \in Person
           /\ Credential(s).key = Credential(s).person
           /\ Credential(s).person \in Verified
           /\ Enrolled(Credential(s).person)
<1>1. enrollments[s] \in Seq(Enrollment) /\ DOMAIN enrollments[s] = 1..Len(enrollments[s])
  BY DEF CivicInv, TypeOK
<1>2. PICK i \in DOMAIN enrollments[s] :
         enrollments[s][i].status = "active" /\ Credential(s) = enrollments[s][i]
  <2>1. Len(enrollments[s]) \in Nat /\ Usable(s) \subseteq 1..Len(enrollments[s])
    BY <1>1 DEF Usable
  <2>2. Max(Usable(s)) \in Usable(s)
    BY <2>1, MaxIsMember
  <2>3. QED
    BY <2>2 DEF Usable, Credential
<1>3. enrollments[s][i] \in Enrollment
  BY <1>1
<1>4. Credential(s).person \in Person
  BY <1>2, <1>3 DEF Enrollment
<1>5. Credential(s).key = Credential(s).person
  BY <1>2 DEF CivicInv, KeysInv
<1>6. Credential(s).person \in Verified
  BY <1>2, <1>4 DEF Verified
<1>7. Enrolled(Credential(s).person)
  BY <1>2 DEF Enrolled
<1>8. QED
  BY <1>4, <1>5, <1>6, <1>7

----------------------------------------------------------------------------
(* Every step preserves the invariant.                                     *)

LEMMA ResolveRootEffect ==
    ASSUME CivicInv, NEW s \in Session, NEW r \in Root, ResolveRoot(s, r)
    PROVE  /\ roots' \in [Root -> PersonKeys \cup {NoPerson}]
           /\ RootsInv'
           /\ \A q \in Root : roots[q] # NoPerson => roots'[q] = roots[q]
           /\ roots'[r] = Credential(s).person
<1> DEFINE p == Credential(s).person
<1>1. p \in Person /\ Credential(s).key = p
  BY CredentialIs DEF ResolveRoot
<1>2. roots \in [Root -> PersonKeys \cup {NoPerson}] /\ p \in PersonKeys
  BY <1>1 DEF CivicInv, TypeOK, PersonKeys, PersonKey
<1>3. CASE r \in RootsOf(p) /\ roots' = roots
  BY <1>2, <1>3 DEF RootsOf, CivicInv, RootsInv
<1>4. CASE RootsOf(p) = {} /\ roots[r] = NoPerson /\ roots' = [roots EXCEPT ![r] = p]
  <2>1. \A q \in Root : roots'[q] = IF q = r THEN p ELSE roots[q]
    BY <1>2, <1>4
  <2>2. \A q \in Root : roots[q] # p
    BY <1>4 DEF RootsOf
  <2>3. RootsInv'
    BY <2>1, <2>2 DEF CivicInv, RootsInv
  <2>4. QED
    BY <1>2, <1>4, <2>1, <2>3
<1>5. QED
  BY <1>1, <1>3, <1>4 DEF ResolveRoot

\* The names of stored rows stay right when roots are added.
LEMMA NamesKept ==
    ASSUME CivicInv, \A q \in Root : roots[q] # NoPerson => roots'[q] = roots[q]
    PROVE  /\ \A n \in nullifiers : roots'[n.root] = n.person
           /\ \A d \in Delegation : delegations[d] # NoDelegation =>
                 roots'[delegations[d].root] = delegations[d].person
           /\ \A subject \in Subject : \A c \in counted[subject] :
                 /\ c.nullifier[2] = subject
                 /\ roots'[c.nullifier[1]] = c.person
<1>1. ASSUME NEW n \in nullifiers PROVE roots'[n.root] = n.person
  <2>1. n.root \in Root /\ n.person \in Person
    BY DEF CivicInv, TypeOK
  <2>2. QED
    BY <2>1, ConstantsAssumption DEF CivicInv, NamesInv
<1>2. ASSUME NEW d \in Delegation, delegations[d] # NoDelegation
      PROVE  roots'[delegations[d].root] = delegations[d].person
  <2>1. delegations[d] \in DelegationRow
    BY <1>2 DEF CivicInv, TypeOK
  <2>2. delegations[d].root \in Root /\ delegations[d].person \in Person
    BY <2>1 DEF DelegationRow
  <2>3. QED
    BY <1>2, <2>2, ConstantsAssumption DEF CivicInv, NamesInv
<1>3. ASSUME NEW subject \in Subject, NEW c \in counted[subject]
      PROVE  c.nullifier[2] = subject /\ roots'[c.nullifier[1]] = c.person
  <2>1. c \in [nullifier: Root \X Subject, person: Person]
    BY DEF CivicInv, TypeOK
  <2>2. c.nullifier[1] \in Root /\ c.person \in Person
    BY <2>1
  <2>3. QED
    BY <2>2, ConstantsAssumption DEF CivicInv, NamesInv
<1>4. QED
  BY <1>1, <1>2, <1>3

\* Whoever was verified stays so, and the keys remain the people's.
LEMMA EnrollEffect ==
    ASSUME CivicInv, NEW s \in Session, NEW p \in Person, Enroll(s, p)
    PROVE  /\ enrollments' \in [Session -> Seq(Enrollment)]
           /\ KeysInv'
           /\ Verified' = Verified \cup {p}
<1> DEFINE e == [person |-> p, key |-> PersonKey(p, s), status |-> "active"]
<1>1. enrollments \in [Session -> Seq(Enrollment)] /\ e \in Enrollment
  BY DEF CivicInv, TypeOK, Enrollment, EnrollmentStatus, PersonKeys
<1>2. enrollments' = [enrollments EXCEPT ![s] = Append(enrollments[s], e)]
  BY DEF Enroll
<1>3. enrollments' \in [Session -> Seq(Enrollment)]
  BY <1>1, <1>2
<1>4. enrollments[s] \in Seq(Enrollment)
  BY <1>1
<1>5. \A t \in Session : enrollments'[t] = IF t = s THEN Append(enrollments[s], e)
                                           ELSE enrollments[t]
  BY <1>1, <1>2
<1>6. /\ DOMAIN enrollments'[s] = DOMAIN enrollments[s] \cup {Len(enrollments[s]) + 1}
      /\ \A i \in DOMAIN enrollments[s] : enrollments'[s][i] = enrollments[s][i]
      /\ enrollments'[s][Len(enrollments[s]) + 1] = e
  <2>1. DOMAIN enrollments[s] = 1..Len(enrollments[s]) /\ Len(enrollments[s]) \in Nat
    BY <1>4
  <2>2. DOMAIN Append(enrollments[s], e) = 1..(Len(enrollments[s]) + 1)
    BY <1>1, <1>4
  <2>3. \A i \in 1..Len(enrollments[s]) : Append(enrollments[s], e)[i] = enrollments[s][i]
    BY <1>1, <1>4
  <2>4. Append(enrollments[s], e)[Len(enrollments[s]) + 1] = e
    BY <1>1, <1>4
  <2>5. enrollments'[s] = Append(enrollments[s], e)
    BY <1>5
  <2>6. DOMAIN enrollments'[s] = DOMAIN enrollments[s] \cup {Len(enrollments[s]) + 1}
    BY <2>1, <2>2, <2>5
  <2>7. QED
    BY <2>1, <2>3, <2>4, <2>5, <2>6, Zenon
<1>7. KeysInv'
  <2>1. ASSUME NEW t \in Session, NEW i \in DOMAIN enrollments'[t]
        PROVE  enrollments'[t][i].key = enrollments'[t][i].person
    <3>1. CASE t # s
      BY <1>5, <3>1 DEF CivicInv, KeysInv
    <3>2. CASE t = s
      BY <1>6, <3>2 DEF CivicInv, KeysInv, PersonKey
    <3>3. QED
      BY <3>1, <3>2
  <2>2. QED
    BY <2>1 DEF KeysInv
<1>8. ASSUME NEW q
      PROVE  q \in Verified' <=> q \in Verified \cup {p}
  <2>1. \A i \in DOMAIN enrollments'[s] :
           i \in DOMAIN enrollments[s] \/ enrollments'[s][i].person = p
    BY <1>6
  <2>2. \E i \in DOMAIN enrollments'[s] : enrollments'[s][i].person = p
    BY <1>6
  <2>3. QED
    BY <1>5, <1>6, <2>1, <2>2 DEF Verified
<1>9. QED
  BY <1>3, <1>7, <1>8

LEMMA ChangeStatusEffect ==
    ASSUME CivicInv, NEW s \in Session, NEW i \in DOMAIN enrollments[s],
           NEW status \in EnrollmentStatus, ChangeStatus(s, i, status)
    PROVE  /\ enrollments' \in [Session -> Seq(Enrollment)]
           /\ KeysInv'
           /\ Verified' = Verified
<1> DEFINE e == [enrollments[s][i] EXCEPT !.status = status]
           row == [enrollments[s] EXCEPT ![i] = e]
<1>1. enrollments \in [Session -> Seq(Enrollment)] /\ enrollments[s] \in Seq(Enrollment)
  BY DEF CivicInv, TypeOK
<1>2. enrollments[s][i] \in Enrollment
  BY <1>1
<1>3. /\ e \in Enrollment
      /\ e.person = enrollments[s][i].person /\ e.key = enrollments[s][i].key
  BY <1>2 DEF Enrollment
<1>4. row \in Seq(Enrollment) /\ DOMAIN row = DOMAIN enrollments[s]
  BY <1>1, <1>3
<1>5. enrollments' = [enrollments EXCEPT ![s] = row]
  BY DEF ChangeStatus
<1>6. enrollments' \in [Session -> Seq(Enrollment)]
  BY <1>1, <1>4, <1>5
<1>7. \A t \in Session : enrollments'[t] = IF t = s THEN row ELSE enrollments[t]
  BY <1>1, <1>5
<1>8. \A k \in DOMAIN enrollments[s] : row[k] = IF k = i THEN e ELSE enrollments[s][k]
  BY <1>1
<1>9. \A t \in Session :
         /\ DOMAIN enrollments'[t] = DOMAIN enrollments[t]
         /\ \A k \in DOMAIN enrollments[t] :
               /\ enrollments'[t][k].person = enrollments[t][k].person
               /\ enrollments'[t][k].key = enrollments[t][k].key
  BY <1>3, <1>4, <1>7, <1>8
<1>10. KeysInv'
  BY <1>9 DEF CivicInv, KeysInv
<1>11. Verified' = Verified
  BY <1>9 DEF Verified
<1>12. QED
  BY <1>6, <1>10, <1>11

\* What an enrollment, or the end of one, leaves of the invariant.
LEMMA EnrollmentsChange ==
    ASSUME CivicInv, enrollments' \in [Session -> Seq(Enrollment)], KeysInv',
           Verified \subseteq Verified',
           UNCHANGED <<members, roots, nullifiers, delegations, counted>>
    PROVE  CivicInv'
<1>1. TypeOK'
  BY DEF CivicInv, TypeOK
<1>2. RootsInv' /\ NamesInv' /\ CountedWasAuthorised'
  BY DEF CivicInv, RootsInv, NamesInv, CountedWasAuthorised, Authorised
<1>3. VerifiedInv'
  BY DEF CivicInv, VerifiedInv
<1>4. QED
  BY <1>1, <1>2, <1>3 DEF CivicInv

LEMMA IssueProofInv ==
    ASSUME CivicInv, NEW s \in Session, NEW subject \in Subject, NEW r \in Root,
           IssueProof(s, subject, r)
    PROVE  CivicInv'
<1> DEFINE n == [root |-> r, subject |-> subject, person |-> Credential(s).person]
<1>1. /\ roots' \in [Root -> PersonKeys \cup {NoPerson}]
      /\ RootsInv'
      /\ \A q \in Root : roots[q] # NoPerson => roots'[q] = roots[q]
      /\ roots'[r] = n.person
  BY ResolveRootEffect DEF IssueProof
<1>2. n.person \in Person /\ n.person \in Verified
  BY CredentialIs DEF IssueProof, ResolveRoot
<1>3. /\ nullifiers' = nullifiers \cup {n}
      /\ UNCHANGED <<enrollments, members, delegations, counted>>
  BY DEF IssueProof
<1>4. TypeOK'
  BY <1>1, <1>2, <1>3 DEF CivicInv, TypeOK
<1>5. NamesInv'
  BY <1>1, <1>3, NamesKept DEF NamesInv
<1>6. KeysInv' /\ Verified' = Verified
  BY <1>3 DEF CivicInv, KeysInv, Verified
<1>7. VerifiedInv'
  BY <1>2, <1>3, <1>6 DEF CivicInv, VerifiedInv
<1>8. CountedWasAuthorised'
  BY <1>3 DEF CivicInv, CountedWasAuthorised, Authorised
<1>9. QED
  BY <1>1, <1>4, <1>5, <1>6, <1>7, <1>8 DEF CivicInv

LEMMA IssueDelegationInv ==
    ASSUME CivicInv, NEW s \in Session, NEW d \in Delegation,
           NEW scope \in Uri \cup {"passive"}, NEW r \in Root,
           IssueDelegation(s, d, scope, r)
    PROVE  CivicInv'
<1> DEFINE row == [root |-> r, person |-> Credential(s).person, scope |-> scope]
<1>1. /\ roots' \in [Root -> PersonKeys \cup {NoPerson}]
      /\ RootsInv'
      /\ \A q \in Root : roots[q] # NoPerson => roots'[q] = roots[q]
      /\ roots'[r] = row.person
  BY ResolveRootEffect DEF IssueDelegation
<1>2. row.person \in Person /\ row.person \in Verified
  BY CredentialIs DEF IssueDelegation, ResolveRoot
<1>3. /\ delegations[d] = NoDelegation
      /\ delegations' = [delegations EXCEPT ![d] = row]
      /\ UNCHANGED <<enrollments, members, nullifiers, counted>>
  BY DEF IssueDelegation
<1>4. row \in DelegationRow
  BY <1>2 DEF DelegationRow
<1>5. \A e \in Delegation : delegations'[e] = IF e = d THEN row ELSE delegations[e]
  BY <1>3 DEF CivicInv, TypeOK
<1>6. TypeOK'
  BY <1>1, <1>3, <1>4 DEF CivicInv, TypeOK
<1>7. NamesInv'
  BY <1>1, <1>3, <1>5, NamesKept DEF NamesInv
<1>8. KeysInv' /\ Verified' = Verified
  BY <1>3 DEF CivicInv, KeysInv, Verified
<1>9. VerifiedInv'
  BY <1>2, <1>3, <1>5, <1>8 DEF CivicInv, VerifiedInv
<1>10. CountedWasAuthorised'
  <2>1. ASSUME NEW subject \in Subject, NEW c \in counted[subject]
        PROVE  Authorised(c.person, subject)'
    <3>1. CASE \E m \in nullifiers : m.subject = subject /\ m.person = c.person
      BY <1>3, <3>1 DEF Authorised
    <3>2. ASSUME NEW e \in Delegation, delegations[e].person = c.person,
                 delegations[e].scope \in {"passive", subject[2]}
          PROVE  Authorised(c.person, subject)'
      <4>1. c.person \in Person
        BY DEF CivicInv, TypeOK
      <4>2. e # d
        BY <1>3, <3>2, <4>1, ConstantsAssumption DEF NoDelegation
      <4>3. QED
        BY <1>5, <3>2, <4>2 DEF Authorised
    <3>3. QED
      BY <3>1, <3>2 DEF CivicInv, CountedWasAuthorised, Authorised
  <2>2. QED
    BY <1>3, <2>1 DEF CountedWasAuthorised
<1>11. QED
  BY <1>1, <1>6, <1>7, <1>8, <1>9, <1>10 DEF CivicInv

----------------------------------------------------------------------------
(* A ballot is counted.                                                    *)

\* The ballot of p, under the nullifier of p's root, is counted on a subject.
Counts(subject, r, p) ==
    /\ roots[r] = p
    /\ p \in Verified
    /\ Authorised(p, subject)
    /\ counted' = [counted EXCEPT ![subject] = @ \cup
           {[nullifier |-> <<r, subject>>, person |-> p]}]
    /\ UNCHANGED <<enrollments, members, roots, nullifiers, delegations>>

LEMMA VerifyProofCounts ==
    ASSUME CivicInv, NEW n \in nullifiers, VerifyProof(n)
    PROVE  /\ n.subject \in Subject /\ n.root \in Root /\ n.person \in Person
           /\ Counts(n.subject, n.root, n.person)
<1>1. n.subject \in Subject /\ n.root \in Root /\ n.person \in Person
  BY DEF CivicInv, TypeOK
<1>2. roots[n.root] = n.person /\ n.person \in Verified
  BY DEF CivicInv, NamesInv, VerifiedInv
<1>3. Authorised(n.person, n.subject)
  BY DEF Authorised
<1>4. QED
  BY <1>1, <1>2, <1>3 DEF Counts, VerifyProof, VoteNullifier

LEMMA ResolveDelegationCounts ==
    ASSUME CivicInv, NEW d \in Delegation, NEW uri \in Uri, ResolveDelegation(d, uri)
    PROVE  /\ <<"cabildeo", uri>> \in Subject
           /\ delegations[d].root \in Root /\ delegations[d].person \in Person
           /\ Counts(<<"cabildeo", uri>>, delegations[d].root, delegations[d].person)
<1> DEFINE subject == <<"cabildeo", uri>>
<1>1. delegations[d] \in DelegationRow /\ delegations[d] # NoDelegation
  BY DEF ResolveDelegation, CivicInv, TypeOK
<1>2. delegations[d].root \in Root /\ delegations[d].person \in Person
  BY <1>1 DEF DelegationRow
<1>3. roots[delegations[d].root] = delegations[d].person /\ delegations[d].person \in Verified
  BY <1>1 DEF CivicInv, NamesInv, VerifiedInv
<1>4. Authorised(delegations[d].person, subject)
  BY DEF ResolveDelegation, InScope, Authorised
<1>5. QED
  BY <1>2, <1>3, <1>4 DEF Counts, ResolveDelegation, DelegatedNullifier, VoteNullifier

LEMMA CountsInv ==
    ASSUME CivicInv, NEW subject \in Subject, NEW r \in Root, NEW p \in Person,
           Counts(subject, r, p)
    PROVE  CivicInv'
<1> DEFINE c == [nullifier |-> <<r, subject>>, person |-> p]
<1>1. /\ roots[r] = p /\ p \in Verified /\ Authorised(p, subject)
      /\ UNCHANGED <<enrollments, members, roots, nullifiers, delegations>>
      /\ counted' = [counted EXCEPT ![subject] = counted[subject] \cup {c}]
  BY DEF Counts
<1>2. c \in [nullifier: Root \X Subject, person: Person]
  OBVIOUS
<1>3. counted \in [Subject -> SUBSET [nullifier: Root \X Subject, person: Person]]
  BY DEF CivicInv, TypeOK
<1>4. counted' \in [Subject -> SUBSET [nullifier: Root \X Subject, person: Person]]
  BY <1>1, <1>2, <1>3
<1>5. \A u \in Subject : \A b \in counted'[u] : b \in counted[u] \/ (u = subject /\ b = c)
  BY <1>1, <1>3
<1>6. TypeOK'
  BY <1>1, <1>4 DEF CivicInv, TypeOK
<1>7. KeysInv' /\ RootsInv' /\ Verified' = Verified
  BY <1>1 DEF CivicInv, KeysInv, RootsInv, Verified
<1>8. NamesInv'
  BY <1>1, <1>5 DEF CivicInv, NamesInv
<1>9. VerifiedInv'
  BY <1>1, <1>5, <1>7 DEF CivicInv, VerifiedInv
<1>10. \A q, u : Authorised(q, u)' <=> Authorised(q, u)
  BY <1>1 DEF Authorised
<1>11. CountedWasAuthorised'
  <2>1. ASSUME NEW u \in Subject, NEW b \in counted'[u] PROVE Authorised(b.person, u)
    <3>1. CASE b \in counted[u]
      BY <3>1 DEF CivicInv, CountedWasAuthorised
    <3>2. CASE u = subject /\ b = c
      BY <1>1, <3>2
    <3>3. QED
      BY <1>5, <3>1, <3>2
  <2>2. QED
    BY <1>1, <2>1 DEF CountedWasAuthorised, Authorised
<1>12. QED
  BY <1>6, <1>7, <1>8, <1>9, <1>11 DEF CivicInv

LEMMA CivicInit == Init => CivicInv
<1> SUFFICES ASSUME Init PROVE CivicInv
  OBVIOUS
<1>1. TypeOK
  <2>1. enrollments \in [Session -> Seq(Enrollment)]
    BY DEF Init
  <2>2. roots \in [Root -> PersonKeys \cup {NoPerson}]
    BY DEF Init
  <2>3. QED
    BY <2>1, <2>2 DEF Init, TypeOK
<1>2. KeysInv
  BY DEF Init, KeysInv
<1>3. RootsInv /\ NamesInv /\ VerifiedInv /\ CountedWasAuthorised
  BY DEF Init, RootsInv, NamesInv, VerifiedInv, CountedWasAuthorised
<1>4. QED
  BY <1>1, <1>2, <1>3 DEF CivicInv

LEMMA CivicStep == CivicInv /\ [Next]_vars => CivicInv'
<1> SUFFICES ASSUME CivicInv, [Next]_vars PROVE CivicInv'
  OBVIOUS
<1>1. ASSUME NEW s \in Session, NEW p \in Person, Enroll(s, p) PROVE CivicInv'
  BY <1>1, EnrollEffect, EnrollmentsChange DEF Enroll
<1>2. ASSUME NEW s \in Session, NEW i \in DOMAIN enrollments[s],
             NEW status \in EnrollmentStatus, ChangeStatus(s, i, status)
      PROVE  CivicInv'
  BY <1>2, ChangeStatusEffect, EnrollmentsChange DEF ChangeStatus
<1>3. ASSUME NEW s \in Session, ChangeMembership(s) PROVE CivicInv'
  BY <1>3 DEF ChangeMembership, CivicInv, TypeOK, KeysInv, RootsInv, NamesInv,
              VerifiedInv, Verified, CountedWasAuthorised, Authorised
<1>4. ASSUME NEW s \in Session, NEW subject \in Subject, NEW r \in Root,
             IssueProof(s, subject, r)
      PROVE  CivicInv'
  BY <1>4, IssueProofInv
<1>5. ASSUME NEW n \in nullifiers, VerifyProof(n) PROVE CivicInv'
  BY <1>5, VerifyProofCounts, CountsInv
<1>6. ASSUME NEW s \in Session, NEW d \in Delegation,
             NEW scope \in Uri \cup {"passive"}, NEW r \in Root,
             IssueDelegation(s, d, scope, r)
      PROVE  CivicInv'
  BY <1>6, IssueDelegationInv
<1>7. ASSUME NEW d \in Delegation, NEW uri \in Uri, ResolveDelegation(d, uri)
      PROVE  CivicInv'
  BY <1>7, ResolveDelegationCounts, CountsInv
<1>8. CASE UNCHANGED vars
  BY <1>8 DEF vars, CivicInv, TypeOK, KeysInv, RootsInv, NamesInv,
              VerifiedInv, Verified, CountedWasAuthorised, Authorised
<1>9. QED
  BY <1>1, <1>2, <1>3, <1>4, <1>5, <1>6, <1>7, <1>8 DEF Next

----------------------------------------------------------------------------
(* What is counted implements one person, one vote.                        *)

Voters == [subject \in Subject |-> {c.person : c \in counted[subject]}]
Nullifiers(subject) == {c.nullifier : c \in counted[subject]}
Ballots == [subject \in Subject |-> Cardinality(Nullifiers(subject))]

LEMMA NullifiersFinite ==
    ASSUME CivicInv, NEW subject \in Subject
    PROVE  IsFiniteSet(Nullifiers(subject))
<1>1. IsFiniteSet(Root \X {subject})
  BY ConstantsAssumption, FS_Product, FS_Singleton
<1>2. ASSUME NEW c \in counted[subject] PROVE c.nullifier \in Root \X {subject}
  <2>1. c.nullifier \in Root \X Subject
    BY DEF CivicInv, TypeOK
  <2>2. c.nullifier[2] = subject
    BY DEF CivicInv, NamesInv
  <2>3. QED
    BY <2>1, <2>2
<1>3. Nullifiers(subject) \in SUBSET (Root \X {subject})
  BY <1>2 DEF Nullifiers
<1>4. QED
  BY <1>1, <1>3, FS_Subset

\* Who is counted already is counted under the same nullifier.
LEMMA CountedAgain ==
    ASSUME CivicInv, NEW subject \in Subject, NEW r \in Root, NEW p \in Person,
           Counts(subject, r, p), NEW b \in counted[subject]
    PROVE  /\ b.person = p => b = [nullifier |-> <<r, subject>>, person |-> p]
           /\ b.nullifier = <<r, subject>> => b.person = p
<1>1. b \in [nullifier: Root \X Subject, person: Person]
  BY DEF CivicInv, TypeOK
<1>2. PICK q \in Root : b.nullifier = <<q, subject>>
  BY <1>1 DEF CivicInv, NamesInv
<1>3. roots[q] = b.person /\ roots[r] = p
  BY <1>2 DEF CivicInv, NamesInv, Counts
<1>4. ASSUME b.person = p PROVE b = [nullifier |-> <<r, subject>>, person |-> p]
  <2>1. q = r
    BY <1>3, <1>4, ConstantsAssumption DEF CivicInv, RootsInv
  <2>2. b = [nullifier |-> b.nullifier, person |-> b.person]
    BY <1>1
  <2>3. QED
    BY <1>2, <1>4, <2>1, <2>2
<1>5. ASSUME b.nullifier = <<r, subject>> PROVE b.person = p
  BY <1>2, <1>3, <1>5
<1>6. QED
  BY <1>4, <1>5

LEMMA CountsVotes ==
    ASSUME CivicInv, NEW subject \in Subject, NEW r \in Root, NEW p \in Person,
           Counts(subject, r, p)
    PROVE  \/ UNCHANGED <<Verified, Voters, Ballots>>
           \/ /\ p \in Verified
              /\ p \notin Voters[subject]
              /\ Voters' = [Voters EXCEPT ![subject] = @ \cup {p}]
              /\ Ballots' = [Ballots EXCEPT ![subject] = @ + 1]
              /\ UNCHANGED Verified
<1> DEFINE c == [nullifier |-> <<r, subject>>, person |-> p]
<1>1. /\ p \in Verified
      /\ UNCHANGED enrollments
      /\ counted' = [counted EXCEPT ![subject] = counted[subject] \cup {c}]
  BY DEF Counts
<1>2. Verified' = Verified
  BY <1>1 DEF Verified
<1>3. \A u \in Subject : counted'[u] = IF u = subject THEN counted[u] \cup {c} ELSE counted[u]
  BY <1>1 DEF CivicInv, TypeOK
<1>4. CASE p \in Voters[subject]
  <2>1. c \in counted[subject]
    BY <1>4, CountedAgain DEF Voters
  <2>2. \A u \in Subject : counted'[u] = counted[u]
    BY <1>3, <2>1
  <2>3. Voters' = Voters
    BY <2>2 DEF Voters
  <2>4. \A u \in Subject : Nullifiers(u)' = Nullifiers(u)
    BY <2>2 DEF Nullifiers
  <2>5. Ballots' = Ballots
    BY <2>4 DEF Ballots
  <2>6. QED
    BY <1>2, <2>3, <2>5
<1>5. CASE p \notin Voters[subject]
  <2>1. <<r, subject>> \notin Nullifiers(subject)
    BY <1>5, CountedAgain DEF Voters, Nullifiers
  <2>2. Voters' = [Voters EXCEPT ![subject] = @ \cup {p}]
    <3>1. ASSUME NEW u \in Subject
          PROVE  Voters'[u] = IF u = subject THEN Voters[u] \cup {p} ELSE Voters[u]
      <4>1. CASE u = subject
        <5>1. counted'[u] = counted[u] \cup {c}
          BY <1>3, <4>1
        <5>2. {b.person : b \in counted'[u]} = {b.person : b \in counted[u]} \cup {c.person}
          BY <5>1
        <5>3. QED
          BY <4>1, <5>2 DEF Voters
      <4>2. CASE u # subject
        BY <1>3, <4>2 DEF Voters
      <4>3. QED
        BY <4>1, <4>2
    <3>2. QED
      BY <3>1 DEF Voters
  <2>3. Ballots' = [Ballots EXCEPT ![subject] = @ + 1]
    <3>1. ASSUME NEW u \in Subject
          PROVE  Nullifiers(u)' = IF u = subject THEN Nullifiers(u) \cup {<<r, subject>>}
                                                 ELSE Nullifiers(u)
      <4>1. CASE u = subject
        <5>1. counted'[u] = counted[u] \cup {c}
          BY <1>3, <4>1
        <5>2. {b.nullifier : b \in counted'[u]}
                 = {b.nullifier : b \in counted[u]} \cup {c.nullifier}
          BY <5>1
        <5>3. QED
          BY <4>1, <5>2 DEF Nullifiers
      <4>2. CASE u # subject
        BY <1>3, <4>2 DEF Nullifiers
      <4>3. QED
        BY <4>1, <4>2
    <3>2. Cardinality(Nullifiers(subject) \cup {<<r, subject>>})
             = Cardinality(Nullifiers(subject)) + 1
      BY <2>1, NullifiersFinite, FS_AddElement
    <3>3. \A u \in Subject : Ballots'[u] = IF u = subject THEN Ballots[u] + 1 ELSE Ballots[u]
      BY <3>1, <3>2 DEF Ballots
    <3>4. QED
      BY <3>3 DEF Ballots
  <2>4. QED
    BY <1>1, <1>2, <1>5, <2>2, <2>3
<1>6. QED
  BY <1>4, <1>5

LEMMA TallyInit == Init => Tally!Init
<1> SUFFICES ASSUME Init PROVE Tally!Init
  OBVIOUS
<1>1. Verified = {}
  BY DEF Init, Verified
<1>2. \A subject \in Subject : counted[subject] = {}
  BY DEF Init
<1>3. \A subject \in Subject : Nullifiers(subject) = {} /\ Voters[subject] = {}
  BY <1>2 DEF Nullifiers, Voters
<1>4. \A subject \in Subject : Cardinality(Nullifiers(subject)) = 0
  BY <1>3, FS_EmptySet
<1>5. QED
  BY <1>1, <1>3, <1>4 DEF Tally!Init, Voters, Nullifiers

LEMMA TallyStep ==
    ASSUME CivicInv, [Next]_vars
    PROVE  [Tally!Next]_<<Verified, Voters, Ballots>>
<1> DEFINE Goal == [Tally!Next]_<<Verified, Voters, Ballots>>
<1>1. ASSUME UNCHANGED counted PROVE UNCHANGED <<Voters, Ballots>>
  BY <1>1 DEF Voters, Ballots, Nullifiers
<1>2. ASSUME NEW s \in Session, NEW p \in Person, Enroll(s, p) PROVE Goal
  <2>1. Verified' = Verified \cup {p}
    BY <1>2, EnrollEffect
  <2>2. UNCHANGED <<Voters, Ballots>>
    BY <1>1, <1>2 DEF Enroll
  <2>3. QED
    BY <2>1, <2>2 DEF Tally!Next, Tally!Verify, Voters, Ballots, Nullifiers
<1>3. ASSUME NEW s \in Session, NEW i \in DOMAIN enrollments[s],
             NEW status \in EnrollmentStatus, ChangeStatus(s, i, status)
      PROVE  Goal
  BY <1>1, <1>3, ChangeStatusEffect DEF ChangeStatus
<1>4. ASSUME UNCHANGED <<enrollments, counted>> PROVE Goal
  BY <1>1, <1>4 DEF Verified
<1>5. ASSUME NEW subject \in Subject, NEW r \in Root, NEW p \in Person,
             Counts(subject, r, p)
      PROVE  Goal
  <2>1. CASE UNCHANGED <<Verified, Voters, Ballots>>
    BY <2>1
  <2>2. CASE /\ p \in Verified
             /\ p \notin Voters[subject]
             /\ Voters' = [Voters EXCEPT ![subject] = @ \cup {p}]
             /\ Ballots' = [Ballots EXCEPT ![subject] = @ + 1]
             /\ UNCHANGED Verified
    <3>1. Tally!Vote(p, subject)
      BY <2>2 DEF Tally!Vote, Voters, Ballots, Nullifiers
    <3>2. QED
      BY <3>1 DEF Tally!Next
  <2>3. QED
    BY <1>5, <2>1, <2>2, CountsVotes
<1>6. ASSUME NEW n \in nullifiers, VerifyProof(n) PROVE Goal
  BY <1>5, <1>6, VerifyProofCounts
<1>7. ASSUME NEW d \in Delegation, NEW uri \in Uri, ResolveDelegation(d, uri) PROVE Goal
  BY <1>5, <1>7, ResolveDelegationCounts
<1>8. CASE UNCHANGED vars
  BY <1>4, <1>8 DEF vars
<1>9. ASSUME NEW s \in Session, ChangeMembership(s) PROVE Goal
  BY <1>4, <1>9 DEF ChangeMembership
<1>10. ASSUME NEW s \in Session, NEW subject \in Subject, NEW r \in Root,
              IssueProof(s, subject, r)
       PROVE  Goal
  BY <1>4, <1>10 DEF IssueProof
<1>11. ASSUME NEW s \in Session, NEW d \in Delegation,
              NEW scope \in Uri \cup {"passive"}, NEW r \in Root,
              IssueDelegation(s, d, scope, r)
       PROVE  Goal
  BY <1>4, <1>11 DEF IssueDelegation
<1>12. QED
  BY <1>2, <1>3, <1>6, <1>7, <1>8, <1>9, <1>10, <1>11 DEF Next

----------------------------------------------------------------------------
(* Theorems.                                                               *)

LEMMA CivicAlways == Spec => []CivicInv
BY CivicInit, CivicStep, PTL DEF Spec

\* Every reachable state has the shape of the code's rows; in particular a
\* resolved credential always exists.
THEOREM TypeCorrect == Spec => []TypeOK
<1>1. CivicInv => TypeOK
  BY DEF CivicInv
<1>2. QED
  BY <1>1, CivicAlways, PTL

\* However often people enroll and in however many sessions, two proofs are
\* about the same root exactly when they are about the same person.
THEOREM RootsArePeople == Spec => []OneRootPerPerson
<1>1. CivicInv => OneRootPerPerson
  <2> SUFFICES ASSUME CivicInv, NEW m \in nullifiers, NEW n \in nullifiers
               PROVE  (m.person = n.person) <=> (m.root = n.root)
    BY DEF OneRootPerPerson
  <2>1. m.root \in Root /\ n.root \in Root /\ m.person \in Person
    BY DEF CivicInv, TypeOK
  <2>2. roots[m.root] = m.person /\ roots[n.root] = n.person
    BY DEF CivicInv, NamesInv
  <2>3. QED
    BY <2>1, <2>2, ConstantsAssumption DEF CivicInv, RootsInv
<1>2. QED
  BY <1>1, CivicAlways, PTL

\* No ballot is counted for a person who put none on that subject.
THEOREM BallotsAuthorised == Spec => []CountedWasAuthorised
<1>1. CivicInv => CountedWasAuthorised
  BY DEF CivicInv
<1>2. QED
  BY <1>1, CivicAlways, PTL

\* The civic vote implements one person, one vote: every step is the
\* verification of a person, the one vote of a person on a subject, or nothing.
THEOREM ImplementsOnePersonOneVote == Spec => OnePersonOneVote
<1>1. CivicInv /\ [Next]_vars => [Tally!Next]_<<Verified, Voters, Ballots>>
  BY TallyStep
<1>2. QED
  BY <1>1, TallyInit, CivicAlways, PTL
     DEF Spec, OnePersonOneVote, Tally!Spec, Voters, Ballots, Nullifiers

\* On every subject the number of ballots is the number of people who voted,
\* all of them verified: nullifiers, which is all that can be counted, are
\* neither more than the people behind them nor fewer (computeVoteNullifier).
BallotsAreVoters ==
    \A subject \in Subject :
        /\ IsFiniteSet(Voters[subject])
        /\ Ballots[subject] = Cardinality(Voters[subject])
        /\ Voters[subject] \subseteq Verified

LEMMA VotersCounted == CivicInv => BallotsAreVoters
<1> SUFFICES ASSUME CivicInv, NEW subject \in Subject
             PROVE  /\ IsFiniteSet(Voters[subject])
                    /\ Ballots[subject] = Cardinality(Voters[subject])
                    /\ Voters[subject] \subseteq Verified
  BY DEF BallotsAreVoters
<1> DEFINE N == Nullifiers(subject)
           V == Voters[subject]
           voter == [n \in N |-> roots[n[1]]]
<1>1. ASSUME NEW c \in counted[subject]
      PROVE  /\ c.nullifier \in Root \X Subject /\ c.nullifier[2] = subject
             /\ roots[c.nullifier[1]] = c.person
             /\ c.person \in Person /\ c.person # NoPerson
             /\ c.person \in Verified
  <2>1. c.nullifier \in Root \X Subject /\ c.person \in Person
    BY DEF CivicInv, TypeOK
  <2>2. c.person # NoPerson
    BY <2>1, ConstantsAssumption
  <2>3. QED
    BY <2>1, <2>2 DEF CivicInv, NamesInv, VerifiedInv
<1>2. V = {c.person : c \in counted[subject]} /\ N = {c.nullifier : c \in counted[subject]}
  BY DEF Voters, Nullifiers
<1>3. ASSUME NEW n \in N
      PROVE  /\ voter[n] \in V /\ voter[n] # NoPerson
             /\ n[1] \in Root /\ n = <<n[1], subject>> /\ voter[n] = roots[n[1]]
  <2>1. PICK c \in counted[subject] : n = c.nullifier
    BY <1>2
  <2>2. QED
    BY <1>1, <1>2, <2>1
<1>4. ASSUME NEW v \in V
      PROVE  \E n \in N : voter[n] = v
  <2>1. PICK c \in counted[subject] : v = c.person
    BY <1>2
  <2>2. c.nullifier \in N /\ voter[c.nullifier] = v
    BY <1>1, <1>2, <2>1
  <2>3. QED
    BY <2>2
<1>5. ASSUME NEW m \in N, NEW n \in N, voter[m] = voter[n]
      PROVE  m = n
  BY <1>3, <1>5 DEF CivicInv, RootsInv
<1>6. voter \in [N -> V]
  BY <1>3
<1> HIDE DEF N, V, voter
<1>7. voter \in Bijection(N, V)
  BY <1>4, <1>5, <1>6 DEF Bijection, Injection, Surjection, IsInjective
<1>8. IsFiniteSet(N)
  BY NullifiersFinite DEF N
<1>9. IsFiniteSet(V) /\ Cardinality(V) = Cardinality(N)
  BY <1>7, <1>8, FS_Bijection DEF ExistsBijection
<1>10. V \subseteq Verified
  BY <1>1, <1>2
<1>11. QED
  BY <1>9, <1>10 DEF N, V, Ballots

\* So there are as many ballots as verified people who voted.
THEOREM TallyIsOfVoters == Spec => []BallotsAreVoters
BY VotersCounted, CivicAlways, PTL

\* A step gives proofs and delegations only to people with an active enrollment.
LEMMA NothingNewStep ==
    ASSUME CivicInv, [Next]_vars
    PROVE  /\ \A n \in nullifiers' \ nullifiers : Enrolled(n.person)
           /\ \A d \in Delegation : delegations'[d] # delegations[d]
                                     => Enrolled(delegations'[d].person)
<1> DEFINE Goal == /\ \A n \in nullifiers' \ nullifiers : Enrolled(n.person)
                   /\ \A d \in Delegation : delegations'[d] # delegations[d]
                                             => Enrolled(delegations'[d].person)
<1>1. ASSUME NEW s \in Session, NEW subject \in Subject, NEW r \in Root,
             IssueProof(s, subject, r)
      PROVE  Goal
  <2>1. Enrolled(Credential(s).person)
    BY <1>1, CredentialIs DEF IssueProof, ResolveRoot
  <2>2. QED
    BY <1>1, <2>1 DEF IssueProof
<1>2. ASSUME NEW s \in Session, NEW d \in Delegation,
             NEW scope \in Uri \cup {"passive"}, NEW r \in Root,
             IssueDelegation(s, d, scope, r)
      PROVE  Goal
  <2>1. Enrolled(Credential(s).person)
    BY <1>2, CredentialIs DEF IssueDelegation, ResolveRoot
  <2>2. \A e \in Delegation : delegations'[e] =
           IF e = d THEN [root |-> r, person |-> Credential(s).person, scope |-> scope]
                    ELSE delegations[e]
    BY <1>2 DEF IssueDelegation, CivicInv, TypeOK
  <2>3. QED
    BY <1>2, <2>1, <2>2 DEF IssueDelegation
<1>3. ASSUME UNCHANGED <<nullifiers, delegations>> PROVE Goal
  BY <1>3
<1>4. QED
  BY <1>1, <1>2, <1>3 DEF Next, vars, Enroll, ChangeStatus, ChangeMembership,
                          VerifyProof, ResolveDelegation

\* A person all of whose enrollments are over gets no new proof or delegation,
\* through no session.
THEOREM RevokedPeopleGetNothing == Spec => NothingNewOnceRevoked
<1>1. CivicInv /\ [Next]_vars =>
         [/\ \A n \in nullifiers' \ nullifiers : Enrolled(n.person)
          /\ \A d \in Delegation : delegations'[d] # delegations[d]
                                    => Enrolled(delegations'[d].person)]_vars
  BY NothingNewStep
<1>2. QED
  BY <1>1, CivicAlways, PTL DEF Spec, NothingNewOnceRevoked
=============================================================================
