-------------------------------- MODULE MCRelays --------------------------------
(***************************************************************************)
(* What the broker keeps for a short while and hands out once: challenges, *)
(* signature requests and identity requests, and the limiter in front of   *)
(* all of them.  The four share no state, so that each behaviour is one of *)
(* one component, chosen at the start.                                     *)
(***************************************************************************)
EXTENDS Naturals

CONSTANTS Session, Key, Action, Nonce, Challenge, Jti, SignId, Request, Credential,
          Element, Linkable, Address, Category, MaxPending, Lifetime, MaxAge, Limit, Window,
          AlertAt, MaxEvents, None

VARIABLES component,
          issued, receipts, outstanding, registered, accepted,
          signRequests, seen,
          idRequests, live, credentials, issuer, delivered,
          windows, refusals, events

Proofs == INSTANCE ProofOfPossession
Signing == INSTANCE MatrixSignRelay
Presenting == INSTANCE Presentation
Limiter == INSTANCE RateLimiter

\* The bounds suit each of the components.
ASSUME ConstantsAssumption ==
    /\ Proofs!PossessionAssumption
    /\ Signing!SignRelayAssumption
    /\ Presenting!PresentationAssumption
    /\ Limiter!LimiterAssumption

rvars == <<issued, receipts, outstanding, registered, accepted>>
svars == <<signRequests, seen>>
ivars == <<idRequests, live, credentials, issuer, delivered>>
lvars == <<windows, refusals, events>>
vars == <<component, rvars, svars, ivars, lvars>>

Init ==
    /\ component \in {"proofs", "signing", "presenting", "limiter"}
    /\ Proofs!Init /\ Signing!Init /\ Presenting!Init /\ Limiter!Init

Next ==
    \/ /\ component = "proofs"
       /\ Proofs!Next
       /\ UNCHANGED <<component, svars, ivars, lvars>>
    \/ /\ component = "signing"
       /\ Signing!Next
       /\ UNCHANGED <<component, rvars, ivars, lvars>>
    \/ /\ component = "presenting"
       /\ Presenting!Next
       /\ UNCHANGED <<component, rvars, svars, lvars>>
    \/ /\ component = "limiter"
       /\ Limiter!Next
       /\ UNCHANGED <<component, rvars, svars, ivars>>

\* The one thing that is sure to happen is that time passes.
Tick ==
    \/ /\ component = "proofs"
       /\ Proofs!Tick
       /\ UNCHANGED <<component, svars, ivars, lvars>>
    \/ /\ component = "signing"
       /\ Signing!Tick
       /\ UNCHANGED <<component, rvars, ivars, lvars>>
    \/ /\ component = "limiter"
       /\ Limiter!Tick
       /\ UNCHANGED <<component, rvars, svars, ivars>>

Spec == Init /\ [][Next]_vars /\ WF_vars(Tick)

TypeOK == Proofs!TypeOK /\ Signing!TypeOK /\ Presenting!TypeOK /\ Limiter!TypeOK
ProofSpentOnce == Proofs!ProofSpentOnce
OneAnswer == Signing!OneAnswer
PresentationIsMailbox == Presenting!PresentationIsMailbox
CanAskAgain == Proofs!CanAskAgain /\ Signing!CanAskAgain /\ Limiter!AdmittedAgain
=============================================================================
