-------------------------- MODULE MCSharedContracts --------------------------
(***************************************************************************)
(* The contracts of libs/shared, checked in one run. The modules share no  *)
(* variable and no step of one enables a step of another, so the run takes *)
(* one part per behaviour: the part is chosen in the initial state, and    *)
(* the states of the run are the sum of those of the parts.                *)
(***************************************************************************)
EXTENDS APIGateway, TenantMarketplace, AuthTokens, SignedRequests, TenantCache,
        TenantStorage, EventTopics

VARIABLE part

MCPlans ==
    {[request_limit |-> 2, window_seconds |-> 2, concurrent_operations |-> 2,
      queue_depth |-> 2, storage_bytes |-> 2],
     [request_limit |-> 1, window_seconds |-> 3, concurrent_operations |-> 1,
      queue_depth |-> 1, storage_bytes |-> 1]}
MCDefaultPlan == CHOOSE p \in MCPlans : p.request_limit = 2
MCRateLimit == [limit |-> 2, window_seconds |-> 2]

\* One token of each tenant, one that expires, one that names no valid tenant and
\* one with another signature.
Token(tenant, signed, nbf, exp) == [tenant |-> tenant, signed |-> signed, nbf |-> nbf, exp |-> exp]
MCBearerTokens ==
    {Token(t, TRUE, 0, 9) : t \in StorageTenants}
    \cup {Token(CHOOSE t \in StorageTenants : TRUE, TRUE, 0, 1),
          Token(Malformed, TRUE, 0, 9), Token(CHOOSE t \in StorageTenants : TRUE, FALSE, 0, 9)}

\* A host in a cluster, one outside that holds the issuer's key, one that has left the
\* cluster off, one that names its method and holds no key, one with a secret, and one
\* that does not start.
Host(named, enabled, files, secret) ==
    [method |-> named, k8s_enabled |-> enabled, files |-> files, secret |-> secret]
MCHostEnvs ==
    {Host(Unset, Unset, {"token"}, FALSE), Host("k8s_sa", "off", {"oidc"}, FALSE),
     Host("", "no", {"token", "rsa_private", "rsa_public"}, TRUE),
     Host("rsa", "yes", {}, FALSE),
     Host(Unset, "1", {}, TRUE), Host(Unset, "maybe", {"token"}, TRUE)}

MCTopicTenants == {<<"north">>, <<"south">>, <<"north", "paid">>}
MCEventTypes == {<<"wallet", "paid">>, <<"wallet", "paid", "late">>, <<"wallet">>}
MCBindings ==
    {<<"#">>, <<"tenant", "north", "#">>, <<"tenant", "*", "wallet", "paid">>,
     <<"tenant", "south", "#", "paid", "#">>}

Init ==
    /\ part \in {"gateway", "marketplace", "lock", "tokens", "signed", "cache", "storage", "topics"}
    /\ GatewayInit /\ MarketInit /\ LockInit /\ TokensInit /\ SignedInit /\ CacheInit /\ StorageInit
    /\ TopicsInit
    /\ part # "signed" => {signer, verifier} = {ConfigFromEnv(Host(Unset, "1", {}, TRUE))}
    /\ part # "cache" => cacheBackend = "memory"
    /\ part # "storage" => vectorBackend = "memory"
    /\ part # "topics" => transport = "memory"

Only(name, step, others) == part = name /\ step /\ UNCHANGED part /\ UNCHANGED others

Next ==
    \/ Only("gateway", GatewayNext,
            <<marketVars, lockVars, tokenVars, signedVars, cacheVars, storageVars, topicVars>>)
    \/ Only("marketplace", MarketNext,
            <<gatewayVars, lockVars, tokenVars, signedVars, cacheVars, storageVars, topicVars>>)
    \/ Only("lock", LockNext,
            <<gatewayVars, marketVars, tokenVars, signedVars, cacheVars, storageVars, topicVars>>)
    \/ Only("tokens", TokensNext,
            <<gatewayVars, marketVars, lockVars, signedVars, cacheVars, storageVars, topicVars>>)
    \/ Only("signed", SignedNext,
            <<gatewayVars, marketVars, lockVars, tokenVars, cacheVars, storageVars, topicVars>>)
    \/ Only("cache", CacheNext,
            <<gatewayVars, marketVars, lockVars, tokenVars, signedVars, storageVars, topicVars>>)
    \/ Only("storage", StorageNext,
            <<gatewayVars, marketVars, lockVars, tokenVars, signedVars, cacheVars, topicVars>>)
    \/ Only("topics", TopicsNext,
            <<gatewayVars, marketVars, lockVars, tokenVars, signedVars, cacheVars, storageVars>>)

Spec == Init /\ [][Next]_<<part, gatewayVars, marketVars, lockVars, tokenVars, signedVars, cacheVars,
                       storageVars, topicVars>>
=============================================================================
