------------------------ MODULE PublicationDelivery ------------------------
(***************************************************************************)
(* Delivery of publications by the messenger adapter                       *)
(* (services/messenger-adapter/messenger_adapter): UnifiedMessengerAdapter *)
(* takes the platforms of a batch one after the other, BasePlatformAdapter *)
(* retries on each, and ResilientPlatformPublisher leases a proxy, calls   *)
(* the platform and turns to fallback channels.                            *)
(*                                                                         *)
(* Batches run concurrently and share the platform registry, the proxy     *)
(* pools and the health of the fallback routes; every await (the lease,    *)
(* the platform, the fallback channel, the sleep between attempts) is a    *)
(* point where other batches and operators act.  One tenant is modelled:   *)
(* every key of the shared stores starts with the tenant.                  *)
(***************************************************************************)
EXTENDS Naturals, Sequences, SequencesExt

CONSTANTS
    Batches,            \* the publications, one batch request for each
    Requested,          \* the platforms each request names; <<>>: none
    MayStop,            \* the batches that may be published with stop_on_error
    Catalog,            \* the platforms of the registry, in priority order
    ActiveCount,        \* how many of them, from the first on, start as active
    PausedCount,        \* and how many of the rest as paused
    Overrides,          \* status_overrides: platform -> its status instead
    Native,             \* the platforms with a publisher of their own
    OverHTTP,           \* those the registry's HTTP publisher serves
    Operated,           \* bound: the platforms operators pause and resume
    RoutesOf,           \* fallback routes of each platform, in priority order
    Pool,               \* proxy endpoints of each platform, in priority order
    PoolHealth,         \* the sets of them an operator may register as healthy
    ProxyRequired,      \* the platforms with proxy_pool_required
    MaxAttempts,        \* RetryPolicy.max_attempts
    MaxFallback,        \* ResiliencePolicy.max_fallback_attempts
    NoProxy

Platforms == Range(Catalog)
PlatformStatus == {"active", "paused", "disabled"}
Routes == UNION {Range(RoutesOf[pl]) : pl \in Platforms}
Proxies == UNION {Range(Pool[pl]) : pl \in Platforms}

ASSUME DeliveryAssumption ==
    /\ Catalog \in Seq(Platforms) /\ IsInjective(Catalog)
    /\ {ActiveCount, PausedCount} \subseteq Nat
    /\ DOMAIN Overrides \subseteq Platforms /\ Range(Overrides) \subseteq PlatformStatus
    /\ Native \cup OverHTTP \cup Operated \subseteq Platforms
    /\ \A pl \in Platforms : /\ RoutesOf[pl] \in Seq(Routes) /\ IsInjective(RoutesOf[pl])
                              /\ Pool[pl] \in Seq(Proxies) /\ IsInjective(Pool[pl])
    /\ \A pl, other \in Platforms : pl # other =>
           Range(RoutesOf[pl]) \cap Range(RoutesOf[other]) = {}
    /\ \A b \in Batches : Requested[b] \in Seq(Platforms)
                            /\ IsInjective(Requested[b])
    /\ MayStop \subseteq Batches
    /\ \A pl \in Platforms : /\ PoolHealth[pl] # {}
                              /\ PoolHealth[pl] \subseteq SUBSET Range(Pool[pl])
    /\ MaxAttempts \in Nat \ {0}
    /\ MaxFallback \in Nat \ {0}
    /\ ProxyRequired \subseteq Platforms
    /\ NoProxy \notin Proxies

VARIABLES
    status,     \* InMemoryPlatformRegistry: the status of each platform
    healthy,    \* InMemoryFallbackChannelRegistry: the healthy routes
    leasable,   \* the proxy endpoints that can be leased
    cursor,     \* InMemoryProxyLeaseProvider: the index of the next lease
    leased,     \* the proxy leased last from the present pool
    batch,      \* where the publish of each batch is suspended
    report,     \* PublicationBatchResult: receipts and failures so far
    audit,      \* the audit records
    events,     \* the events consumers receive
    posts,      \* how often a batch was published for a platform
    lost        \* where an answer to a delivery was lost

shared == <<status, healthy, leasable, cursor, leased>>
books  == <<report, audit, events>>
vars   == <<status, healthy, leasable, cursor, leased, batch, report, audit,
            events, posts, lost>>

\* todo starts with the platform in progress, routes with the fallback route
\* being tried; posted tells whether the call in flight has been carried out.
Batch == [step : {"new", "next", "leasing", "primary", "fallback", "sleeping",
                  "done"},
          todo : Seq(Platforms), attempt : 0..MaxAttempts, routes : Seq(Routes),
          posted : BOOLEAN, stop : BOOLEAN]

Verdict == {"succeeded", "failed"}
Line == [type : Verdict, batch : Batches, platform : Platforms]

\* posts counts no further: no property tells two posts from more.
MaxPosts == 2

TypeOK ==
    /\ status \in [Platforms -> PlatformStatus]
    /\ healthy \subseteq Routes
    /\ leasable \in [Platforms -> SUBSET Proxies]
    /\ cursor \in [Platforms -> Nat]
    /\ leased \in [Platforms -> Proxies \cup {NoProxy}]
    /\ batch \in [Batches -> Batch]
    /\ report \subseteq Line
    /\ audit \subseteq Line
    /\ events \subseteq Line
    /\ posts \in [Batches \X Platforms -> 0..MaxPosts]
    /\ lost \subseteq Batches \X Platforms

\* default_platform_registry_entries: the catalogue's order decides, where the
\* tenant does not.
CatalogStatus(position) ==
    IF position <= ActiveCount THEN "active"
    ELSE IF position <= ActiveCount + PausedCount THEN "paused" ELSE "disabled"

DefaultEntries ==
    [pl \in Platforms |->
        IF pl \in DOMAIN Overrides THEN Overrides[pl]
        ELSE CatalogStatus(CHOOSE position \in DOMAIN Catalog : Catalog[position] = pl)]

\* The rest of the catalogue is listed, but nothing publishes there.
IntegrationProfile(pl) ==
    CASE pl \in Native -> "native"
      [] pl \in OverHTTP \ Native -> "registry_http"
      [] pl \notin Native \cup OverHTTP -> "catalog_only"

HasAdapter(pl) == IntegrationProfile(pl) # "catalog_only"

Init ==
    /\ status = DefaultEntries
    /\ healthy = Routes
    /\ leasable \in {health \in [Platforms -> SUBSET Proxies] :
                        \A pl \in Platforms : health[pl] \in PoolHealth[pl]}
    /\ cursor = [pl \in Platforms |-> 0]
    /\ leased = [pl \in Platforms |-> NoProxy]
    /\ batch = [b \in Batches |->
           [step |-> "new", todo |-> <<>>, attempt |-> 0, routes |-> <<>>,
            posted |-> FALSE, stop |-> FALSE]]
    /\ posts = [target \in Batches \X Platforms |-> 0]
    /\ report = {} /\ audit = {} /\ events = {} /\ lost = {}

Here(b) == Head(batch[b].todo)
At(b, step) == batch[b].step = step

-----------------------------------------------------------------------------
(***************************************************************************)
(* UnifiedMessengerAdapter: the batch                                      *)
(***************************************************************************)

\* The members of S in the order they have in the sequence: the one way to list them.
InOrderOf(sequence, S) ==
    {listed \in Injection(1 .. Cardinality(S), S) :
        \A i, j \in DOMAIN listed : i < j =>
            \E k \in DOMAIN sequence :
                sequence[k] = listed[i] /\ \A l \in 1 .. k : sequence[l] # listed[j]}

\* The platforms of the request, or the active ones of the registry.
PublicationPlatforms(b) ==
    IF Requested[b] # <<>> THEN {Requested[b]}
    ELSE InOrderOf(Catalog, {pl \in Platforms : status[pl] = "active"})

Begin(b) ==
    /\ At(b, "new")
    /\ \E stop \in BOOLEAN, platforms \in PublicationPlatforms(b) :
           /\ stop => b \in MayStop
           /\ batch' = [batch EXCEPT
               ![b].step = IF platforms = <<>> THEN "done" ELSE "next",
               ![b].todo = platforms, ![b].stop = stop]
    /\ UNCHANGED <<shared, books, posts, lost>>

\* The platform in progress is over: the next one, or the end of the batch.
Onward(b, verdict) ==
    LET rest == Tail(batch[b].todo)
        over == rest = <<>> \/ (verdict = "failed" /\ batch[b].stop)
    IN  /\ report' = report \cup
               {[type |-> verdict, batch |-> b, platform |-> Here(b)]}
        /\ batch' = [batch EXCEPT ![b] =
               [step |-> IF over THEN "done" ELSE "next", todo |-> rest,
                attempt |-> 0, routes |-> <<>>, posted |-> FALSE, stop |-> @.stop]]

-----------------------------------------------------------------------------
(***************************************************************************)
(* BasePlatformAdapter: one platform, with retries                         *)
(***************************************************************************)

\* _record_success and _record_failure: an audit record, then the event.  When
\* publish raises, the batch reports a failure, whatever the verdict was.
Record(b, verdict) ==
    LET line == [type |-> verdict, batch |-> b, platform |-> Here(b)]
    IN  /\ audit' = audit \cup {line}
        /\ \/ events' = events \cup {line} /\ Onward(b, verdict)
           \/ UNCHANGED events /\ Onward(b, "failed")

Attempt(b, number) ==
    batch' = [batch EXCEPT ![b].step = "leasing", ![b].attempt = number]

\* The platform must be active when its turn comes, and have an adapter.
StartPlatform(b) ==
    /\ At(b, "next")
    /\ HasAdapter(Here(b))
    /\ status[Here(b)] = "active"
    /\ Attempt(b, 1)
    /\ UNCHANGED <<shared, books, posts, lost>>

\* The platform is paused, or the request cannot be prepared (no adapter, no
\* target, no token): the batch reports it and nothing is recorded.
RefusePlatform(b) ==
    /\ At(b, "next")
    /\ Onward(b, "failed")
    /\ UNCHANGED <<shared, audit, events, posts, lost>>

\* An attempt failed for good, or is followed by another one.
AttemptFails(b, retryable) ==
    IF retryable /\ batch[b].attempt < MaxAttempts
      THEN /\ batch' = [batch EXCEPT ![b].step = "sleeping", ![b].routes = <<>>,
                                     ![b].posted = FALSE]
           /\ UNCHANGED books
      ELSE Record(b, "failed")

WakeUp(b) ==
    /\ At(b, "sleeping")
    /\ Attempt(b, batch[b].attempt + 1)
    /\ UNCHANGED <<shared, books, posts, lost>>

-----------------------------------------------------------------------------
(***************************************************************************)
(* ResilientPlatformPublisher: proxy, platform, fallback channels          *)
(***************************************************************************)

\* The offset, from the cursor on, of the first endpoint that can be leased.
Offsets(pl) ==
    {k \in 0..Len(Pool[pl]) - 1 :
        Pool[pl][((cursor[pl] + k) % Len(Pool[pl])) + 1] \in leasable[pl]}

FirstOffset(pl) == CHOOSE k \in Offsets(pl) : \A j \in Offsets(pl) : k <= j

CallPrimary(b) ==
    batch' = [batch EXCEPT ![b].step = "primary", ![b].posted = FALSE]

LeaseProxy(b) ==
    /\ At(b, "leasing")
    /\ Offsets(Here(b)) # {}
    /\ LET pl == Here(b)
           index == (cursor[pl] + FirstOffset(pl)) % Len(Pool[pl])
       IN  /\ cursor' = [cursor EXCEPT ![pl] = (index + 1) % Len(Pool[pl])]
           /\ leased' = [leased EXCEPT ![pl] = Pool[pl][index + 1]]
    /\ CallPrimary(b)
    /\ UNCHANGED <<status, healthy, leasable, books, posts, lost>>

\* No endpoint is left: the attempt fails before the platform is called and
\* without a fallback, or goes on without a proxy.
LeaseFails(b) ==
    /\ At(b, "leasing")
    /\ Offsets(Here(b)) = {}
    /\ IF Here(b) \in ProxyRequired THEN AttemptFails(b, TRUE)
                        ELSE CallPrimary(b) /\ UNCHANGED books
    /\ UNCHANGED <<shared, posts, lost>>

\* The platform or the fallback channel carries out the call in flight.
Deliver(b) ==
    /\ batch[b].step \in {"primary", "fallback"}
    /\ ~batch[b].posted
    /\ batch' = [batch EXCEPT ![b].posted = TRUE]
    /\ posts' = [posts EXCEPT ![<<b, Here(b)>>] = IF @ < MaxPosts THEN @ + 1 ELSE @]
    /\ UNCHANGED <<shared, books, lost>>

\* Fault: the success is recorded inside the try of the retry loop, and an
\* event that cannot be published makes the adapter publish again.
PrimaryAnswers_Retried(b) ==
    /\ At(b, "primary")
    /\ batch[b].posted
    /\ Record(b, "succeeded") \/ AttemptFails(b, TRUE)
    /\ UNCHANGED <<shared, posts, lost>>

PrimaryAnswers(b) ==
    /\ At(b, "primary")
    /\ batch[b].posted
    /\ Record(b, "succeeded")
    /\ UNCHANGED <<shared, posts, lost>>

\* A call that was carried out may still time out or be answered with garbage.
NoteLost(b) ==
    lost' = IF batch[b].posted THEN lost \cup {<<b, Here(b)>>} ELSE lost

\* The healthy routes, no more than the policy allows.
RoutesFor(pl) ==
    {IF Len(available) > MaxFallback THEN SubSeq(available, 1, MaxFallback) ELSE available :
        available \in InOrderOf(RoutesOf[pl], healthy \cap Range(RoutesOf[pl]))}

\* The platform fails with a code fallback_on_error_codes does not list.
PrimaryRefuses(b) ==
    /\ At(b, "primary")
    /\ \E retryable \in BOOLEAN : /\ batch[b].posted => retryable
                                  /\ AttemptFails(b, retryable)
    /\ NoteLost(b)
    /\ UNCHANGED <<shared, posts>>

\* It is unavailable: the routes that are healthy now are tried in order.
PrimaryUnavailable(b) ==
    /\ At(b, "primary")
    /\ \E routes \in RoutesFor(Here(b)) :
         IF routes = <<>>
           THEN AttemptFails(b, TRUE)
           ELSE /\ batch' = [batch EXCEPT ![b].step = "fallback", ![b].posted = FALSE,
                                          ![b].routes = routes]
                /\ UNCHANGED books
    /\ NoteLost(b)
    /\ UNCHANGED <<shared, posts>>

\* update_status of the route: later batches see it at once.
MarkHealthy(route) == healthy' = healthy \cup {route}
MarkUnhealthy(route) == healthy' = healthy \ {route}

\* The result of the channel stands for the platform: FallbackPublicationResult
\* keeps the platform's name and adds where it was published instead.
FallbackResult(b) == Record(b, "succeeded")

RouteAnswers(b) ==
    /\ At(b, "fallback")
    /\ batch[b].posted
    /\ MarkHealthy(Head(batch[b].routes))
    /\ FallbackResult(b)
    /\ UNCHANGED <<status, leasable, cursor, leased, posts, lost>>

RouteFails(b) ==
    /\ At(b, "fallback")
    /\ MarkUnhealthy(Head(batch[b].routes))
    /\ LET rest == Tail(batch[b].routes)
       IN  IF rest # <<>>
             THEN /\ batch' = [batch EXCEPT ![b].routes = rest, ![b].posted = FALSE]
                  /\ UNCHANGED books
             ELSE \E retryable \in BOOLEAN : /\ batch[b].posted => retryable
                                             /\ AttemptFails(b, retryable)
    /\ NoteLost(b)
    /\ UNCHANGED <<status, leasable, cursor, leased, posts>>

-----------------------------------------------------------------------------
(***************************************************************************)
(* Operators                                                               *)
(***************************************************************************)

\* Paused and disabled are one to a publication: operators resume or pause.
UpdateStatus(pl) ==
    /\ pl \in Operated
    /\ status' = [status EXCEPT ![pl] = IF @ = "active" THEN "paused" ELSE "active"]
    /\ UNCHANGED <<healthy, leasable, cursor, leased, batch, books, posts, lost>>

\* register_pool: the pool is registered anew with other healthy endpoints.
RegisterPool(pl, endpoints) ==
    /\ leasable[pl] # endpoints
    /\ leasable' = [leasable EXCEPT ![pl] = endpoints]
    /\ cursor' = [cursor EXCEPT ![pl] = 0]
    /\ leased' = [leased EXCEPT ![pl] = NoProxy]
    /\ UNCHANGED <<status, healthy, batch, books, posts, lost>>

Publishing(b) ==
    \/ Begin(b) \/ StartPlatform(b) \/ RefusePlatform(b) \/ WakeUp(b)
    \/ LeaseProxy(b) \/ LeaseFails(b) \/ Deliver(b)
    \/ PrimaryAnswers(b) \/ PrimaryRefuses(b) \/ PrimaryUnavailable(b)
    \/ RouteAnswers(b) \/ RouteFails(b)

Operating == \E pl \in Platforms :
    UpdateStatus(pl) \/ \E endpoints \in PoolHealth[pl] : RegisterPool(pl, endpoints)

Next == Operating \/ \E b \in Batches : Publishing(b)

Spec == Init /\ [][Next]_vars

-----------------------------------------------------------------------------
(***************************************************************************)
(* Properties                                                              *)
(***************************************************************************)

LineOf(verdict, b, pl) == [type |-> verdict, batch |-> b, platform |-> pl]

\* A receipt stands for a post and for the event consumers received; a failure
\* is reported for a published platform only when an answer was lost on the
\* way or the event of the recorded success could not be published.
ReportIsTrue ==
    \A b \in Batches, pl \in Platforms :
        /\ LineOf("succeeded", b, pl) \in report =>
               posts[<<b, pl>>] > 0 /\ LineOf("succeeded", b, pl) \in events
        /\ LineOf("failed", b, pl) \in report /\ posts[<<b, pl>>] > 0 =>
               \/ <<b, pl>> \in lost
               \/ LineOf("succeeded", b, pl) \in audit \ events

\* However attempts, fallback channels and failing publishes combine, a
\* publication reaches a platform or one of its fallback channels once, unless
\* an answer was lost.
PostedOnce ==
    \A b \in Batches, pl \in Platforms :
        <<b, pl>> \notin lost => posts[<<b, pl>>] <= 1

\* A platform of a batch is recorded as published or as failed, never both,
\* and what is recorded is final: no attempt follows.
OneVerdict ==
    \A b \in Batches, pl \in Platforms :
        /\ ~ \A verdict \in Verdict : LineOf(verdict, b, pl) \in audit
        /\ (\E verdict \in Verdict : LineOf(verdict, b, pl) \in audit) =>
               pl \notin Range(batch[b].todo)

\* stop_on_error stops the batch at its first failure, before the platforms
\* that follow; without it every platform of the batch gets its verdict.
StopOnErrorHolds ==
    \A b \in Batches :
        /\ batch[b].stop /\ (\E pl \in Platforms : LineOf("failed", b, pl) \in report)
               => At(b, "done") /\ \A pl \in Range(batch[b].todo) : posts[<<b, pl>>] = 0
        /\ At(b, "done") /\ ~batch[b].stop => batch[b].todo = <<>>

\* What a batch tells its caller, the audit log and the consumers agree with
\* each other and with what happened on the platforms (publish, _record_success
\* and _record_failure, with attempts, fallbacks and stop_on_error).
VerdictsAreTrue == TypeOK /\ ReportIsTrue /\ PostedOnce /\ OneVerdict /\ StopOnErrorHolds

\* Leases rotate: while another endpoint can be leased, whatever batches ask,
\* the endpoint leased last is not leased again (the cursor of lease_proxy).
LeasesRotate ==
    [][\A b \in Batches :
          At(b, "leasing") /\ At(b, "primary")' =>
              LET pl == Here(b)
              IN  leasable[pl] \ {leased[pl]} # {} => leased'[pl] # leased[pl]]_vars
=============================================================================
