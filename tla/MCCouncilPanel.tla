--------------------------- MODULE MCCouncilPanel ---------------------------
(***************************************************************************)
(* The Council's panel over an instance of the payout gateway.             *)
(***************************************************************************)
EXTENDS CouncilPanel, MCPayoutGateway

\* The Council noted a risk for one payout; the other has that of its share.
MCAnnotated == p1 :> NoId @@ p2 :> "critical"
MCShare == p1 :> 20 @@ p2 :> 5

\* The ids of confirmations are interchangeable; those of payouts are not.
SameIds == Permutations(Confirmations)
=============================================================================
