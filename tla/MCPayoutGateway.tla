-------------------------- MODULE MCPayoutGateway --------------------------
(***************************************************************************)
(* Instances of PayoutGateway for TLC.                                     *)
(***************************************************************************)
EXTENDS PayoutGateway, TLC

CONSTANTS p1, p2, e1, e2, s1, s2

\* Callers that derive the execution id from the payout.
OwnExecution == p1 :> {e1} @@ p2 :> {e2}

\* Callers that may send any execution id, a fresh one on a retry included.
AnyExecution == [p \in Payouts |-> Executions]

\* Callers that execute only the first payout; the other competes for the ids of
\* decisions and confirmations.
FirstExecuted == p1 :> Executions @@ p2 :> {}

\* A provider that settles a payment when it accepts it.
Settled == [s \in PayoutPaymentStatus |-> {}]

\* A provider that moves a payment through all the statuses.
Gradual ==
    [s \in PayoutPaymentStatus |->
        CASE s = "accepted"   -> {"processing", "succeeded", "failed"}
          [] s = "processing" -> {"succeeded", "failed"}
          [] s = "succeeded"  -> {"returned", "refunded"}
          [] OTHER            -> {}]
=============================================================================
