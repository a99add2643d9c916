------------------------- MODULE OneTimeMailbox_proofs -------------------------
(***************************************************************************)
(* What a one-time mailbox gives its users, for any number of slots.       *)
(***************************************************************************)
EXTENDS OneTimeMailbox, TLAPS

TypeOK ==
    /\ box \in [Slot -> SlotState]
    /\ reads \in [Slot -> Nat]

\* How often a slot was read is told by its state, but for a closed slot,
\* which was read once or not at all.
IInv ==
    /\ TypeOK
    /\ \A s \in Slot :
          /\ box[s] \in {"unused", "open", "full"} => reads[s] = 0
          /\ box[s] \in {"taken", "closed"} => reads[s] \in 0..1

LEMMA SlotStepIInv ==
    ASSUME IInv, Next, NEW s \in Slot
    PROVE  /\ box'[s] \in {"unused", "open", "full"} => reads'[s] = 0
           /\ box'[s] \in {"taken", "closed"} => reads'[s] \in 0..1
<1>1. box[s] \in SlotState /\ box'[s] \in SlotState /\ SlotStep(s)
  BY DEF IInv, TypeOK, Next
<1>2. CASE box'[s] = box[s] /\ reads'[s] = reads[s]
  BY <1>2 DEF IInv
<1>3. CASE <<box[s], box'[s]>> \in Moves /\ reads'[s] = reads[s]
  BY <1>1, <1>3 DEF IInv, Moves, SlotState
<1>4. CASE <<box[s], box'[s]>> = <<"full", "taken">> /\ reads'[s] = reads[s] + 1
  BY <1>4 DEF IInv
<1>5. QED
  BY <1>1, <1>2, <1>3, <1>4 DEF SlotStep

\* The content of a slot is read at most once, and not before it was put
\* there: what a relay that implements the mailbox promises its readers.
THEOREM ReadOnce == Spec => []ReadAtMostOnce
<1>1. Init => IInv
  BY DEF Init, IInv, TypeOK, SlotState
<1>2. IInv /\ [Next]_<<box, reads>> => IInv'
  <2>1. CASE Next
    BY <2>1, SlotStepIInv DEF IInv, TypeOK, Next
  <2>2. CASE UNCHANGED <<box, reads>>
    BY <2>2 DEF IInv, TypeOK
  <2>3. QED
    BY <2>1, <2>2
<1>3. IInv => ReadAtMostOnce
  <2>1. ASSUME IInv, NEW s \in Slot PROVE reads[s] <= 1
    <3>1. box[s] \in SlotState
      BY <2>1 DEF IInv, TypeOK
    <3>2. reads[s] = 0 \/ reads[s] \in 0..1
      BY <2>1, <3>1 DEF IInv, SlotState
    <3>3. QED
      BY <3>2
  <2>2. QED
    BY <2>1 DEF IInv, ReadAtMostOnce
<1>4. QED
  BY <1>1, <1>2, <1>3, PTL DEF Spec
=============================================================================
