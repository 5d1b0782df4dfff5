---------------------- MODULE MCDependencyResilience ----------------------
(***************************************************************************)
(* The two helpers of libs/shared that promise progress, checked in one    *)
(* run: the guard of a dependency, with two concurrent calls and a backoff *)
(* that doubles up to a maximum, and the inbox of a consumer. They share   *)
(* no variable, so the run takes one part per behaviour.                   *)
(***************************************************************************)
EXTENDS DependencyResilience, EventProcessing

CONSTANTS c1, c2, InitialBackoff, MaxBackoff

\* delay_for_attempt with backoff_multiplier 2.
DoublingBackoff ==
    [n \in 1..MaxAttempts |-> AtMost(InitialBackoff * 2 ^ (n - 1), MaxBackoff)]

VARIABLE part

EitherInit == part \in {"guard", "inbox"} /\ Init /\ EventsInit

EitherNext ==
    \/ part = "guard" /\ Next /\ UNCHANGED <<part, eventVars>>
    \/ part = "inbox" /\ EventsNext /\ UNCHANGED <<part, vars>>

\* Consumers wait when nothing is queued: only the guard may not come to a stop.
Waiting == part = "inbox" /\ UNCHANGED <<part, vars, eventVars>>

EitherSpec ==
    /\ EitherInit /\ [][EitherNext \/ Waiting]_<<part, vars, eventVars>>
    /\ part = "guard" => Fairness
    /\ part = "inbox" => EventsFairness
=============================================================================
