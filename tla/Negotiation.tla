----------------------------- MODULE Negotiation -----------------------------
(***************************************************************************)
(* What a negotiation engine promises (spec section 4.3), for a set of     *)
(* engines: each starts in AuthContinue, runs rounds only while it is in   *)
(* AuthContinue, and owns one security context, which does not exist      *)
(* before the first round that leaves AuthContinue or AuthSuccess, is      *)
(* updated and never replaced by later rounds, and is released by the     *)
(* engine's destruction and by nothing else.                               *)
(***************************************************************************)
CONSTANT Engines

VARIABLES
    alife,   \* "unborn", "alive" or "dead"
    astate,  \* the engine's AuthState
    actx     \* its context: "none", "live" or "released"

avars == <<alife, astate, actx>>

States == {"AuthSuccess", "AuthFailed", "AuthContinue", "AuthError"}

NTypeOK ==
    /\ alife \in [Engines -> {"unborn", "alive", "dead"}]
    /\ astate \in [Engines -> States]
    /\ actx \in [Engines -> {"none", "live", "released"}]

NInit ==
    /\ alife = [e \in Engines |-> "unborn"]
    /\ astate = [e \in Engines |-> "AuthContinue"]
    /\ actx = [e \in Engines |-> "none"]

Create(e) ==
    /\ alife[e] = "unborn"
    /\ alife' = [alife EXCEPT ![e] = "alive"]
    /\ UNCHANGED <<astate, actx>>

\* One round: any next state; the context may come into existence, with a
\* state that is not a rejection or an error, and is otherwise kept.
Round(e) ==
    /\ alife[e] = "alive"
    /\ astate[e] = "AuthContinue"
    /\ \E s \in States, c \in IF actx[e] = "none" THEN {"none", "live"}
                                                 ELSE {actx[e]} :
          /\ c = "live" /\ actx[e] = "none" => s \in {"AuthSuccess", "AuthContinue"}
          /\ astate' = [astate EXCEPT ![e] = s]
          /\ actx' = [actx EXCEPT ![e] = c]
    /\ UNCHANGED alife

\* Destruction, from any state, releases the context if there is one.
Destroy(e) ==
    /\ alife[e] = "alive"
    /\ alife' = [alife EXCEPT ![e] = "dead"]
    /\ actx' = [actx EXCEPT ![e] = IF @ = "live" THEN "released" ELSE @]
    /\ UNCHANGED astate

NNext == \E e \in Engines : Create(e) \/ Round(e) \/ Destroy(e)

NSpec == NInit /\ [][NNext]_avars
=============================================================================
