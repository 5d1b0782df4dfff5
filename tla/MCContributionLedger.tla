------------------------ MODULE MCContributionLedger ------------------------
(* Two members, two periods, two worker threads and two contributions of   *)
(* different weight.  A share has two places: three eighths and five       *)
(* eighths both round up and leave a residual.                             *)
EXTENDS ContributionLedger, TLC

CONSTANTS w1, w2, k1, k2, june, july

Symmetric == Permutations({w1, w2}) \cup Permutations({k1, k2})
                 \cup Permutations({june, july})
=============================================================================
