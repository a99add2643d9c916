------------------------------ MODULE Memberships ------------------------------
(***************************************************************************)
(* The members of one community.  A person asks to join, an administrator  *)
(* approves or rejects, a member leaves and may ask again.  Asking and     *)
(* approving await the writing of records to personal data servers, and    *)
(* then store the records' URIs in whatever row there is by then.          *)
(***************************************************************************)
EXTENDS Naturals

CONSTANTS Did,       \* people, by their DID
          Request,   \* requests the server can hold at once (a bound)
          NoDid      \* JavaScript undefined

\* What an instance must satisfy.
DidAssumption == NoDid \notin Did

VARIABLES
    memberships,  \* community_memberships
    admins,       \* people who administer the community now
    requests,     \* handlers that await a write to a personal data server
    asked         \* history: people whose own last act was to ask to join, or
                  \* whom an administrator let in since

mvars == <<memberships, admins, requests, asked>>

----------------------------------------------------------------------------
\* group, member: whether the row lists the community's record of the member
\* and the member's record of the membership.
MembershipRow == [status: {"pending", "active", "left"},
                  group: BOOLEAN, member: BOOLEAN]
NoRow == [status |-> "none", group |-> FALSE, member |-> FALSE]

NoRequest == [pc |-> "idle", did |-> NoDid, group |-> FALSE]
MembershipRequest == [pc: {"asking"}, did: Did, group: {FALSE}]
                     \cup [pc: {"approving"}, did: Did, group: {FALSE}]
                     \cup [pc: {"approved"}, did: Did, group: BOOLEAN]

End(r) == requests' = [requests EXCEPT ![r] = NoRequest]

\* Mutant of StoreUris: the row is stored as the handler remembers it.
StoreUrisOfActive(d, group, member) ==
    memberships' = [memberships EXCEPT ![d] =
        [status |-> "active", group |-> group, member |-> member]]

\* Mutant of StoreUris: a row that was deleted meanwhile is stored again.
StoreUrisUpsert(d, group, member) ==
    memberships' = [memberships EXCEPT ![d].group = group, ![d].member = member]

\* updateMembershipUris: what the handler does not know is set to null, and the
\* row's status is not looked at; without a row nothing happens.
StoreUris(d, group, member) ==
    memberships' = [memberships EXCEPT ![d] =
        IF @ = NoRow THEN NoRow ELSE [@ EXCEPT !.group = group, !.member = member]]

----------------------------------------------------------------------------
Init ==
    /\ memberships = [d \in Did |-> NoRow]
    /\ admins = {}
    /\ requests = [r \in Request |-> NoRequest]
    /\ asked = {}

\* A row that was left is taken up again, with the URIs it has.
RequestMembership(r, d) ==
    /\ requests[r] = NoRequest
    /\ memberships[d].status \notin {"active", "pending"}
    /\ memberships' = [memberships EXCEPT ![d].status = "pending"]
    /\ requests' = [requests EXCEPT ![r] =
           [pc |-> "asking", did |-> d, group |-> FALSE]]
    /\ asked' = asked \cup {d}
    /\ UNCHANGED admins

\* The member's server has taken the record, or not.
FinishRequest(r, written) ==
    /\ requests[r].pc = "asking"
    /\ IF written
       THEN StoreUris(requests[r].did, FALSE, TRUE)
       ELSE UNCHANGED memberships
    /\ End(r)
    /\ UNCHANGED <<admins, asked>>

\* Mutant of Approvable: whoever has a row is approved.
ApprovableAny(d) == memberships[d] # NoRow

Approvable(d) == memberships[d].status = "pending"

ApproveMembership(r, a, d) ==
    /\ requests[r] = NoRequest
    /\ a \in admins
    /\ Approvable(d)
    /\ memberships' = [memberships EXCEPT ![d].status = "active"]
    /\ requests' = [requests EXCEPT ![r] =
           [pc |-> "approving", did |-> d, group |-> FALSE]]
    /\ UNCHANGED <<admins, asked>>

\* The community's server has taken the record, or not.
WriteGroupRecord(r, written) ==
    /\ requests[r].pc = "approving"
    /\ requests' = [requests EXCEPT ![r].pc = "approved", ![r].group = written]
    /\ UNCHANGED <<memberships, admins, asked>>

FinishApproval(r, written) ==
    /\ requests[r].pc = "approved"
    /\ IF requests[r].group \/ written
       THEN StoreUris(requests[r].did, requests[r].group, written)
       ELSE UNCHANGED memberships
    /\ End(r)
    /\ UNCHANGED <<admins, asked>>

RejectMembership(a, d) ==
    /\ a \in admins
    /\ memberships[d].status = "pending"
    /\ memberships' = [memberships EXCEPT ![d] = NoRow]
    /\ asked' = asked \ {d}
    /\ UNCHANGED <<admins, requests>>

LeaveMembership(d) ==
    /\ memberships[d].status = "active"
    /\ memberships' = [memberships EXCEPT ![d].status = "left"]
    /\ asked' = asked \ {d}
    /\ UNCHANGED <<admins, requests>>

\* The community's votes appoint and dismiss administrators.
ChangeAdmins(a) ==
    /\ \/ admins' = admins \cup {a}
       \/ admins' = admins \ {a}
    /\ UNCHANGED <<memberships, requests, asked>>

\* The process dies; what its handlers awaited is lost.
CrashMemberships ==
    /\ requests' = [r \in Request |-> NoRequest]
    /\ UNCHANGED <<memberships, admins, asked>>

Next ==
    \/ \E r \in Request, d \in Did : RequestMembership(r, d)
    \/ \E r \in Request, written \in BOOLEAN : FinishRequest(r, written)
    \/ \E r \in Request, a, d \in Did : ApproveMembership(r, a, d)
    \/ \E r \in Request, written \in BOOLEAN : WriteGroupRecord(r, written)
    \/ \E r \in Request, written \in BOOLEAN : FinishApproval(r, written)
    \/ \E a, d \in Did : RejectMembership(a, d)
    \/ \E d \in Did : LeaveMembership(d)
    \/ \E a \in Did : ChangeAdmins(a)
    \/ CrashMemberships

Spec == Init /\ [][Next]_mvars

----------------------------------------------------------------------------
(* Properties.                                                             *)

\* Rows and requests have the shape the code gives them.
TypeOK ==
    /\ memberships \in [Did -> MembershipRow \cup {NoRow}]
    /\ admins \subseteq Did
    /\ requests \in [Request -> MembershipRequest \cup {NoRequest}]
    /\ asked \subseteq Did

\* Nobody is a member, or waits to be one, who has not asked since they last
\* left or were rejected, however late a handler stores the URIs it awaited
\* (updateMembershipUris, approveMembership).
MembersAsked ==
    \A d \in Did : memberships[d].status \in {"pending", "active"} => d \in asked
=============================================================================
