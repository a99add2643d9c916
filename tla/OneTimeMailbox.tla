---------------------------- MODULE OneTimeMailbox ----------------------------
(***************************************************************************)
(* What a relay of the broker promises: one party opens a slot, the other  *)
(* party's answer is put in it at most once, and it is read at most once.  *)
(* A slot may be closed at any time, by a refusal or because it expired;   *)
(* nothing is put in a closed slot and nothing is read from it.            *)
(***************************************************************************)
EXTENDS Naturals

CONSTANT Slot

VARIABLES box,    \* the state of each slot
          reads   \* how often the content of each slot was handed out

SlotState == {"unused", "open", "full", "taken", "closed"}

Init ==
    /\ box = [s \in Slot |-> "unused"]
    /\ reads = [s \in Slot |-> 0]

\* Every move of a slot but its reading.
Moves == {<<"unused", "open">>, <<"open", "full">>, <<"open", "closed">>,
          <<"full", "closed">>, <<"taken", "closed">>}

SlotStep(s) ==
    \/ /\ box'[s] = box[s] \/ <<box[s], box'[s]>> \in Moves
       /\ reads'[s] = reads[s]
    \/ /\ <<box[s], box'[s]>> = <<"full", "taken">>
       /\ reads'[s] = reads[s] + 1

\* Slots move independently: one operation may open a slot and close others.
Next ==
    /\ box' \in [Slot -> SlotState]
    /\ reads' \in [Slot -> Nat]
    /\ \A s \in Slot : SlotStep(s)

Spec == Init /\ [][Next]_<<box, reads>>

\* The content of a slot is handed out at most once, and not before the slot
\* was filled.
ReadAtMostOnce ==
    \A s \in Slot :
        /\ reads[s] <= 1
        /\ box[s] \in {"unused", "open", "full"} => reads[s] = 0
=============================================================================
