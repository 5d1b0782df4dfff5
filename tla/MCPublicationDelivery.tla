----------------------- MODULE MCPublicationDelivery -----------------------
(***************************************************************************)
(* The messenger adapter's outgoing side, one part per behaviour: the part *)
(* is chosen in the initial state, and the states of the run are the sum   *)
(* of those of the parts, which share no variable.                         *)
(*                                                                         *)
(* Delivery: two batches, one for every active platform and one for the    *)
(* first: that platform has two fallback routes and three proxy endpoints, *)
(* of which the middle one is unhealthy; the second platform has neither,  *)
(* and the third one is in the catalogue only.                             *)
(***************************************************************************)
EXTENDS PublicationDelivery, PlatformClients, PlatformAccounts, TLC

CONSTANTS b1, b2, telegram, vk, youtube, ipfs, ton, x1, x2, x3, p1, s1, s2, t1, t2

VARIABLE part

ThreePlatforms == <<telegram, vk, youtube>>
StatusOverrides == vk :> "active" @@ youtube :> "active"
OneForAll == b1 :> <<>> @@ b2 :> <<telegram>>
SomeRoutes == telegram :> <<ipfs, ton>> @@ vk :> <<>> @@ youtube :> <<>>
SomeProxies == telegram :> <<x1, x2, x3>> @@ vk :> <<>> @@ youtube :> <<>>
SomeHealth == telegram :> {{x1, x3}, {}} @@ vk :> {{}} @@ youtube :> {{}}

FirstAccount == p1 :> t1
OneForBoth == s1 :> t1 @@ s2 :> t1

AdapterInit ==
    /\ part \in {"delivery", "clients", "accounts", "metrics"}
    /\ Init /\ ClientsInit /\ AccountsInit /\ MetricsInit
    /\ part # "delivery" => leasable = [pl \in Platforms |-> {}]
    /\ part # "clients" => client = "vk"

Only(name, step, others) == part = name /\ step /\ UNCHANGED part /\ UNCHANGED others

AdapterNext ==
    \/ Only("delivery", Next, <<clientVars, accountVars, metricVars>>)
    \/ Only("clients", ClientsNext, <<vars, accountVars, metricVars>>)
    \/ Only("accounts", AccountsNext, <<vars, clientVars, metricVars>>)
    \/ Only("metrics", MetricsNext, <<vars, clientVars, accountVars>>)

AdapterSpec ==
    AdapterInit /\ [][AdapterNext]_<<part, vars, clientVars, accountVars, metricVars>>

\* What publications share is handed out in turn: the endpoints of a proxy pool,
\* and the places, sessions and clients of a platform account.
TurnsAreTaken == LeasesRotate /\ AccountsAreKept
=============================================================================
