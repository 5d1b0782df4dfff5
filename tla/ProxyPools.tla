------------------------------ MODULE ProxyPools ------------------------------
(***************************************************************************)
(* Proxy rotation of the neuro-agent orchestrator, for one pool. Every     *)
(* operation is one step of the event loop up to its announcement. The     *)
(* proxies of a pool are kept in the order of priority and id.             *)
(***************************************************************************)
EXTENDS Integers, Sequences, FiniteSets, SequencesExt

CONSTANTS
    ProxyConfigs,    \* pools to configure: sequences of [proxy_id, enabled] in order
    MaxPoolRevision, \* bound: revisions of the pool
    MaxLeases        \* bound: leases the audit log holds

ConfiguredIds == UNION {{config[i].proxy_id : i \in DOMAIN config} : config \in ProxyConfigs}

\* A pool does not name one proxy twice (_ensure_unique_proxy_ids).
ASSUME ConfigsAssumption ==
    /\ \A config \in ProxyConfigs :
          /\ config \in Seq([proxy_id : ConfiguredIds, enabled : BOOLEAN])
          /\ \A i, j \in DOMAIN config : config[i].proxy_id = config[j].proxy_id => i = j
    /\ MaxPoolRevision \in Nat /\ MaxLeases \in Nat

VARIABLES
    pool,          \* _pools entry: revision (0: none), rotation_cursor, proxies
    leaseAudit,    \* proxy.leased records of the audit log, in order
    leaseEvents,   \* how many of them were announced
    passedOver     \* for each proxy: leases of others while it could be leased

proxyVars == <<pool, leaseAudit, leaseEvents, passedOver>>

Nobody == [p \in ConfiguredIds |-> 0]

ProxiesInit ==
    /\ pool = [revision |-> 0, rotation_cursor |-> 0, proxies |-> <<>>]
    /\ leaseAudit = <<>>
    /\ leaseEvents = 0
    /\ passedOver = Nobody

IsLeasable(proxy) == proxy.enabled /\ proxy.health_status = "healthy"
LeasableIds(proxies) ==
    {proxies[i].proxy_id : i \in {j \in DOMAIN proxies : IsLeasable(proxies[j])}}

\* _state_from_config.
StateFromConfig(config) ==
    [proxy_id |-> config.proxy_id, enabled |-> config.enabled,
     health_status |-> IF config.enabled THEN "healthy" ELSE "disabled"]

\* upsert_pool replaces the proxies and starts the rotation over.
UpsertPool(config) ==
    /\ config # <<>> /\ pool.revision < MaxPoolRevision
    /\ pool' = [revision |-> pool.revision + 1, rotation_cursor |-> 0,
                proxies |-> [i \in DOMAIN config |-> StateFromConfig(config[i])]]
    /\ passedOver' = Nobody
    /\ UNCHANGED <<leaseAudit, leaseEvents>>

\* apply_proxy_health_checks: a dead proxy is unhealthy even when it is disabled.
Checked(proxy, alive) ==
    [proxy EXCEPT !.health_status =
        IF ~alive THEN "unhealthy" ELSE IF proxy.enabled THEN "healthy" ELSE "disabled"]

\* Fault: the pool is built anew and its rotation starts over.
PoolAfterCheck_StartsOver(i, alive) ==
    [revision |-> pool.revision + 1, rotation_cursor |-> 0,
     proxies |-> [pool.proxies EXCEPT ![i] = Checked(@, alive)]]

\* build_proxy_pool_state after a check: the rotation goes on where it was.
PoolAfterCheck(i, alive) ==
    [revision |-> pool.revision + 1, rotation_cursor |-> pool.rotation_cursor,
     proxies |-> [pool.proxies EXCEPT ![i] = Checked(@, alive)]]

\* check_pool_health, one check at a time; a proxy that is unknown raises.
CheckPoolHealth(i, alive) ==
    /\ i \in DOMAIN pool.proxies /\ pool.revision < MaxPoolRevision
    /\ pool' = PoolAfterCheck(i, alive)
    /\ passedOver' = [p \in ConfiguredIds |->
           IF p \in LeasableIds(pool.proxies) THEN passedOver[p] ELSE 0]
    /\ UNCHANGED <<leaseAudit, leaseEvents>>

At(offset) == ((pool.rotation_cursor + offset) % Len(pool.proxies)) + 1

\* select_live_proxy: the first live one from the cursor on.
LiveOffsets == {o \in 0..(Len(pool.proxies) - 1) : IsLeasable(pool.proxies[At(o)])}
SelectLive == At(CHOOSE o \in LiveOffsets : \A other \in LiveOffsets : o <= other)

\* lease_proxy: cursor, audit, announcement; the revision stays.
LeaseProxy(accepted) ==
    /\ Len(leaseAudit) < MaxLeases
    /\ LiveOffsets # {}
    /\ LET index == SelectLive
           id == pool.proxies[index].proxy_id
       IN  /\ pool' = [pool EXCEPT !.rotation_cursor = index % Len(pool.proxies)]
           /\ leaseAudit' = Append(leaseAudit, id)
           /\ passedOver' = [p \in ConfiguredIds |->
                  IF p = id \/ p \notin LeasableIds(pool.proxies) THEN 0 ELSE passedOver[p] + 1]
    /\ leaseEvents' = IF accepted THEN leaseEvents + 1 ELSE leaseEvents

ProxiesNext ==
    \/ \E config \in ProxyConfigs : UpsertPool(config)
    \/ \E i \in DOMAIN pool.proxies, alive \in BOOLEAN : CheckPoolHealth(i, alive)
    \/ \E accepted \in BOOLEAN : LeaseProxy(accepted)

ProxiesSpec == ProxiesInit /\ [][ProxiesNext]_proxyVars

ProxiesTypeOK ==
    /\ pool.revision \in 0..MaxPoolRevision
    /\ pool.rotation_cursor \in 0..Len(pool.proxies)
    /\ ToSet(leaseAudit) \subseteq ConfiguredIds
    /\ leaseEvents \in 0..Len(leaseAudit)

\* A proxy that can be leased waits for at most as many leases as there are other
\* proxies, however leases and health checks of the others come in between.
ProxiesTakeTurns ==
    /\ ProxiesTypeOK
    /\ \A p \in LeasableIds(pool.proxies) : passedOver[p] < Len(pool.proxies)
=============================================================================
