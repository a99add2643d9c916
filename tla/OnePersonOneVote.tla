---------------------------- MODULE OnePersonOneVote ----------------------------
(***************************************************************************)
(* What the civic vote promises those who count: on each subject there is  *)
(* one ballot for each person who voted, and only people whose identity    *)
(* was verified vote.  Ballots carry no name, so that the number of them   *)
(* is all that can be counted.                                             *)
(***************************************************************************)
EXTENDS Naturals

CONSTANTS Person, Subject

VARIABLES verified,  \* people whose identity was verified at some time
          voters,    \* those who voted on each subject
          ballots    \* the ballots counted on each subject

Init ==
    /\ verified = {}
    /\ voters = [s \in Subject |-> {}]
    /\ ballots = [s \in Subject |-> 0]

Verify(p) ==
    /\ verified' = verified \cup {p}
    /\ UNCHANGED <<voters, ballots>>

Vote(p, s) ==
    /\ p \in verified
    /\ p \notin voters[s]
    /\ voters' = [voters EXCEPT ![s] = @ \cup {p}]
    /\ ballots' = [ballots EXCEPT ![s] = @ + 1]
    /\ UNCHANGED verified

Next == \E p \in Person : Verify(p) \/ \E s \in Subject : Vote(p, s)

Spec == Init /\ [][Next]_<<verified, voters, ballots>>
=============================================================================
