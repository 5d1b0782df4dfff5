# TLA+ specifications of Media_Center

Media_Center is a set of Python services (FastAPI, one process each) over a
shared library. It manages the contributions of the members of a tenant, turns
them into payouts that a Council may veto and must confirm, publishes content
on external platforms, and keeps receipts of what happened with a blockchain
auditor. This directory holds TLA+ models of the parts where the order of
events decides correctness, the TLC configurations that check them, and the
proofs TLAPS checks.

Contents: [1 the system](#1-the-system), [2 modules and code](#2-modules-and-code),
[3 runs](#3-runs), [4 fairness](#4-fairness), [5 proofs](#5-proofs),
[6 disagreements and observations](#6-disagreements-and-observations),
[7 what the models leave out](#7-what-the-models-leave-out), [8 plan](#8-plan).

    tlc -workers 2 -config PayoutRace.cfg MCPayoutGateway     # one run
    tlapm PayoutGatewayProofs.tla                             # one proof module

`PROJECT.json` maps every definition to the lines it models, and lists the runs,
the mutant that each property detects, the findings, the hazards and the
theorems.

## 1 The system

### How the services run

Three facts of the runtime shape every model.

*Await points.* An `async def` handler runs on the event loop of its service. It
is atomic between two awaits **that really suspend**. The in-memory event bus is
awaited but never suspends; connectors to payment, blockchain, notification,
transcription and platforms do, and so may whatever the code takes as a protocol
(publishers of some services, the contribution logger, the vector store). A
model therefore cuts a handler into one action for each stretch between
suspending awaits. What the handler keeps in local variables over an await is
part of the model's state.

*Worker threads.* FastAPI runs a handler written as a plain `def` on a worker
thread. It interleaves with the loop, and with other such handlers, between any
two accesses to the shared in-memory repository. Recalculation, export, the
retention clean-up, the requests of data subjects, the pages of the cabinet, the
application of policies and the reading of thresholds are of this kind; their
models cut them at every such access. `asyncio.to_thread` has the same effect on
the stores.

*State.* Repositories, audit sinks and the bus are in memory. A restart loses
everything of a service at once, so there is little crash recovery to model: the
restart of a consumer whose broker redelivers (`EventProcessing`), a worker that
stops between two commands of Redis (`TenantCache`), and what external systems
(payment gateway, auditor, platforms, brokers) hold after a failure. The models
keep that as separate variables. Events are published after the state has
changed, and a failing publish raises: there is no outbox.

### Components

| Component | State | Operations | Hard part | Model |
|---|---|---|---|---|
| HITL payout gateway | payouts, vetoes, confirmations, audit log; outside: payments, chain records, notices | queue, veto, confirm, mark ready, execute, sync payment status | stale copies written back after three awaits; lost answers; retries | `PayoutGateway` |
| The Council's panel (web cabinet) | what a panel showed | overview, veto, TOTP confirmation | members act on an old listing | `CouncilPanel` |
| Dependency resilience (`libs/shared/resilience.py`) | circuit state, counters, opening time | execute | late answers, timeouts, cancellation, retries within a budget | `DependencyResilience` |
| Messenger adapter: publication | platform registry, route health, proxy pools with their cursor, audit | publish a batch; pause a platform; replace a pool | retries after lost answers; concurrent batches over shared health | `PublicationDelivery` |
| Messenger adapter: clients | tokens, sessions, limiter slots, links | publish to one platform, collect metrics, poll Telegram | what an answer says about the post; sessions and slots between awaits | `PlatformClients`, `PlatformAccounts`, `TelegramUpdates` |
| Contribution ledger | contributions, weight snapshots | register, recalculate, weights, payout distribution | worker threads against the loop; rounding | `ContributionLedger`, `WeightEngine` |
| Blockchain auditor | records by event id | record, record batch, verify | conflicts inside a batch; duplicates | `AuditChain` |
| Voice to chain | temporary audio records and payloads, audit | transcribe, clean up | lost receipts; clean-up threads on old copies | `VoiceToChain` |
| Event bus, idempotent processing | messages, queues; events in progress and done | publish, consume, begin, complete, fail | redelivery, cancellation, restart; wildcards | `EventProcessing`, `EventTopics` |
| Notification gateway | preferences, templates, deliveries, e-mail outbox | notify, update preferences, send e-mail | preferences that change during a dispatch, lost answers | `NotificationGateway` |
| Policy manager | policy versions | update, apply, history | versions that change under an application | `PolicyVersions` |
| Activity command centre | thresholds, tasks | update thresholds, create task | limits lowered under a full queue | `CouncilThresholds`, `CommandCenter` |
| Neuro agent orchestrator | thresholds, documents, runs | upsert documents, update thresholds, run agent | thresholds read before a wait | `CouncilThresholds`, `AgentRuns` |
| Proxy rotation | pools with health and cursor | upsert pool, check health, lease | the cursor while health checks and replacements change the pool | `ProxyPools` |
| CGLR | generated content, clicks | generate content, route links | announced before it is stored; choice of the third partner | `ContentGeneration` |
| Wallet | operations | record, balance, list | stored, then refused by the bus; repeated keys | `Wallet` |
| Analytics engine | events, pilot batches, RL/KPI iterations | record, collect, create, approve, measure, report | a batch that stops part-way; reports while records arrive | `AnalyticsIterations`, `KPIDashboards` |
| Web cabinet | records and consents of members, journal | requests of data subjects, pages, dashboards | worker threads that write copies of shared lists | `CabinetPrivacy`, `KPIDashboards` |
| API gateway, tenant resources | limiter windows; request windows, slots, queue, storage | forward a request; reserve and release | what is reserved when a step fails; windows of two kinds | `APIGateway` |
| Tenant cache and locks | entries and locks with expiry | get, set, increment, invalidate, acquire, release | a lock that expires under its holder; two commands of Redis | `TenantCache` |
| Tenant marketplace | profiles, applications, slug index | publish, submit, moderate | an application decided on again; renamed slugs | `TenantMarketplace` |
| Authentication | refresh tokens | issue, refresh, revoke; TOTP | an old refresh token sent again | `AuthTokens`, `CouncilPanel` |
| Service-to-service | replay cache | sign, verify, review | repetition at the edge of the window, clocks that differ | `SignedRequests` |
| Tenant context and storage | bucket, vector collections, tables | put, get, list, delete, presign; upsert, query; add, read | tenants interleaved in threads; URLs that outlive the request | `TenantStorage` |
| Points calculator, service runtime | none | tables, assembly, configuration | – | not modelled (see 7) |

### Interactions

- *Ledger → payout gateway → wallet.* The exported shares of a period become
  amounts of payouts; an executed payout is booked as an operation. The services
  call each other over HTTP and share no memory.
- *Council's panel → payout gateway.* The cabinet is wired to the repositories and
  managers of the gateway: `CouncilPanel` extends `PayoutGateway`.
- *Payout gateway, voice to chain → blockchain auditor.* Each records hashes
  under event ids; the auditor refuses a second hash under a known id and answers
  a repeated one with the first receipt. `VoiceToChain` extends `AuditChain`.
- *Gateway middleware → tenant resources*: both are in `APIGateway`.
- *Command centre, orchestrator ← thresholds of the Council.* The two services
  keep the same record with the same code, each its own copy: `CommandCenter` and
  `AgentRuns` extend `CouncilThresholds`.
- *Pages ← requests of data subjects*: one repository, read by one and rewritten by
  the others.
- *Everything → event bus, audit logger.* The audit record is written first, then
  the state, then the event is published; the order matters where a step fails.
- `libs/shared/resilience.py`, `IdempotentEventProcessor`, `RBACASGIMiddleware` and
  `require_s2s` are contracts no service installs yet. The messenger adapter has a
  `resilience.py` of its own.

### What makes each modelled part correct

- *Payout gateway*: money leaves only for a confirmed payout whose veto window is
  over; a veto is final; a payout is paid once; what an executed payout cites
  exists; records and events say what happened; a confirmed payout gets settled
  although connectors fail; what the panel offers can be done.
- *Resilience*: the circuit opens and stays open as promised under late answers;
  a call keeps its budget; a dependency that works again is used again.
- *Publication*: reports, audit, events and real posts agree; nothing is posted
  twice unless an answer was lost; a batch stops where it should; clients repeat
  only what may be repeated; proxies, sessions and slots are handed out in turn.
- *Ledger*: an idempotency key counts once; a distribution counts what was
  answered before; shares add up to one and stay proportional.
- *Auditor and voice*: a receipt holds for ever; a batch is all or nothing; raw
  audio is never kept where no clean-up finds it.
- *Events*: an event is handled once, and in the end unless its handler was
  cancelled; it reaches the consumers bound to it and no other tenant's.
- *Shared contracts*: budgets are kept and nothing reserved is lost; a slug leads
  to one tenant; a lock is its owner's for its time; a session has one refresh
  token; a late copy of a signed request is refused; tenants never meet in the stores.
- *Services*: what is credited, decided, queued, stored, notified or counted can be
  explained from what the service read, and is so once.

## 2 Modules and code

Each module opens with a comment that names its code. A definition called
`Name_Something` below a "Fault" or "Mutant" comment is a wrong version of
`Name`, as a plausible bug would have it. No specification uses them: they show
that a property notices the bug.

| Component | Specification | Instance for TLC | Proofs |
|---|---|---|---|
| payouts | `PayoutGateway`; abstract: `PayoutLifecycle` | `MCPayoutGateway` | `PayoutGatewayProofs` |
| payouts and panel | `CouncilPanel` | `MCCouncilPanel` | `PayoutGatewayProofs` |
| resilience, idempotent processing | `DependencyResilience`, `EventProcessing` | `MCDependencyResilience` | `DependencyResilienceProofs` |
| messenger adapter, outgoing | `PublicationDelivery`, `PlatformClients`, `PlatformAccounts` | `MCPublicationDelivery` | `PublicationProofs` |
| ledger | `ContributionLedger`, which extends `WeightEngine` | `MCContributionLedger` | `ContributionLedgerProofs` |
| voice, auditor | `VoiceToChain`, which extends `AuditChain` | `VoiceToChain` itself | `VoiceToChainProofs` |
| shared library | `APIGateway`, `TenantMarketplace`, `TenantCache`, `AuthTokens`, `SignedRequests`, `TenantStorage`, `EventTopics` | `MCSharedContracts` | `SharedContractsProofs` |
| services | `ContentGeneration`, `CabinetPrivacy`, `Wallet`, `PolicyVersions`, `CommandCenter` and `AgentRuns` with `CouncilThresholds`, `ProxyPools`, `NotificationGateway`, `TelegramUpdates`, `AnalyticsIterations`, `KPIDashboards` | `MCServices` | `ServicesProofs`, `OutreachProofs` |

*One part per behaviour.* `MCDependencyResilience`, `MCPublicationDelivery`,
`MCSharedContracts` and `MCServices` check several components that share no
variable in one run. A variable `part`, chosen in the initial state and never
changed, says which of them moves; the others stay in their initial states. The
states of such a run are the sum of those of its parts, and every property is
stated over the variables of its own part, so nothing is gained or lost against
separate runs.

*Properties of several clauses.* Where clauses about one promise are checked
together, the property names them (`RecordsAgree` is `TypeOK`,
`ExecutedHasEvidence`, `AuditMatchesStatus` and `EventsTellTheTruth`), and each
clause has a comment of its own.

### PayoutGateway and CouncilPanel

`payouts`, `decisions` and `confirmations` are the repositories, `audit` and
`events` the sink and the bus, as sets. `calls` holds, for each request in
flight, the connector it waits for and the copy of the payout it read;
`wire`, `payments`, `chain` and `notices` are what the connectors' other ends
hold.

- Queue, veto, confirm and mark ready have no suspending await: one action each.
  The repository refuses a second decision or confirmation under a known id
  *after* the audit record was written, so `VetoDuplicateDecision` and
  `ConfirmDuplicate` are actions with that effect.
- `execute_payout` awaits the payment connector, the chain and the notification:
  `BeginExecute` (checks, copy, request sent), `PaymentAnswers`, `ChainAnswers`,
  and `NotificationAnswers` (store the copy with the execution, publish).
  `ConnectorFails` ends the request at any await. The other side acts on its own
  (`GatewayAccepts`, `GatewayDrops`, `GatewayProgress`), so a payment may be made
  after the request that asked for it has failed.
- `sync_payment_status` is cut at its one await: `BeginSync`, `GatewayReports`,
  `ApplyStatus`.
- `Nows` is the time a handler works with. The API passes the `now` of the
  request body on, or takes the clock. `Skew` bounds the difference; it is 0
  where a run assumes that callers leave `now` out.

`PayoutLifecycle` says in five actions what a payout may do. `PayoutGateway`
instantiates it with `phase` computed from status and confirmation, `open` from
the clock and `paid` from the payments; `NothingIsUndone` contains the refinement.

`CouncilPanel` builds the overview on a worker thread (`OpenPanel`, `ListPayouts`,
`ShowPanel`) and lets members veto and confirm from what it showed while every
action of the gateway goes on. What it shows is in the order of risk and closing
window; ids, which break ties in the code, have no order here. A TOTP code is the member it belongs to and the
time step it is made for.

### DependencyResilience and EventProcessing

`circuit` is the guard; `failures` and `age` saturate at the value they are
compared with, which no branch can tell from counting on. `calls` keeps for each
call of `execute` its attempt number, the time it used and the time to its
timeout or wake-up. `execute` decides about its attempts when it begins
(`probe`), and its answers are applied to the circuit as it is when they arrive.

`EventProcessing` has a broker that delivers at least once (`Publish`,
`Redeliver`), workers that begin, skip, end, raise or are cancelled, and `Restart`,
which empties the inbox and returns unacknowledged deliveries to the queue.
`HandlerCancelled` leaves its event in progress, for `CancelledError` is no
`Exception`.

### The messenger adapter

`PublicationDelivery`: `batch` is, for each batch, the platforms to come, the
attempt and what it waits for; `books` are its report, audit records and events.
`status` comes from the catalogue (`CatalogStatus`: so many active, so many
paused, overrides), `healthy`, `leasable` and `cursor` are shared between batches.
`posts` counts up to 2, since no property tells two posts from three; `lost` (an
answer that was lost after a post) and `leased` (the endpoint leased last) are
history. `Deliver` and the answers are separate actions, so a post may stand
behind every kind of failure. `ResilientPlatformPublisher` takes the list of
routes once and goes on with it whatever other batches find out.

`PlatformClients` is the layer below: for each kind of publisher the request it
sends, how it reads the answer, and the repetition by
`BasePlatformAdapter.publish`, while tokens, the registry and the HTTP settings
change. `PlatformAccounts` has the Telethon sessions, which the server may replace
while a client is open, and the limiters. The collector of VK metrics with its two
calls is in `PlatformClients` too. `TelegramUpdates` is the inbound side: polls of the
Telethon bridge, of which some ask for no replies (`Silent`), account links,
replies, and the proxies a tenant may or may not have.

### ContributionLedger and WeightEngine

`WeightEngine` is the arithmetic. A decimal fraction is an integer in units of
its last place: 10^6 for raw coefficients, 10^5 for capped ones and 10^10 for
shares in the code, smaller scales in the runs and any in the proofs. A fraction
exactly half way is rounded up; binary floating point may take either neighbour,
and no property depends on which.

`RegisterContribution` and `DropSnapshot` are the two halves of
`add_contribution` (append, then drop the period's snapshot), between which
worker threads run, but not another registration. `BeginRecalculation` and
`SaveSnapshot` bracket the unprotected reading and writing of a recalculation;
`AskDistribution` and `CalculateDistribution` are the two readings of an export.
A snapshot is stored as what it was calculated *from* (how much of the ledger,
which average, which cap), and the coefficients follow from that. `raced` is a
history flag of a snapshot whose recalculation overlapped a registration.

### AuditChain and VoiceToChain

`AuditChain` is the auditor: `RecordBatch` accepts a set of commands when no
event id in it has two hashes, here or on the chain, and then records all of
them. Hashes are values (collisions of SHA-256 are taken to be impossible): the
hash of a transcript is the record of what goes into it, the completion time
included, so a second transcription of the same audio has another hash.

`VoiceToChain` cuts `POST /voice/transcribe` at the two writes of `put_audio`
(`Submit`, `StorePayload`: the clean-up thread may come between), at the
transcriber, and at the auditor, whose recording (`ChainRecords`) and answer
(`ChainAnswers`, or `ChainFails` when it is lost) are separate. A clean-up copies
the records (`BeginCleanup`), and for each expired one deletes the payload and
writes the copied record back, marked (`DropPayload`, `MarkDeleted`), then audits
the deletions. `stored` and `acknowledged` are history. Council batches use the
same event ids, so requests collide with them.

### The shared library

- `APIGateway`. Every operation of the resource manager holds its
  lock and is an operator from counters to counters; a request of the gateway is
  one step up to the call of the service (`CallService`) and one in the `finally`
  (`Finish`). `SigningFails` is the step between the two that leaks its slot: it
  stays counted for the plan, and the request is "lost". `inherited` is what the last
  change of the plan found in use, which may be more than the new plan allows.
- `TenantCache`. The lock with its time to live and owners that work
  on when it is over; one entry under `INCRBY` and `EXPIRE`, `SCAN` and `DEL` as
  separate steps of Redis, and the same operations in one step in memory.
- `AuthTokens`: rotation of refresh tokens, with clients that keep old ones.
- `SignedRequests`: each host finds its method in its environment (`ConfigFromEnv`,
  `DetectAuthMethod`), a request may be repeated and delayed by the network, the
  clocks of the two hosts differ, and the review by the cluster is a call that
  takes time. Verifiers run on worker threads: reading the clock, looking the nonce
  up and storing it are three steps, and an iteration over the dictionary that
  another thread changes may raise.
- `TenantStorage`: requests with the tenant context that the middleware sets, cut
  where a store is called in a thread; signed URLs are used after their request.
- `EventTopics`: routing keys and bindings as sequences of segments; the list of the
  in-memory bus and the queues of RabbitMQ.
- `TenantMarketplace`: one action per operation, each under the lock.

### The services

- `ContentGeneration`: look-up of the key, announcement, wait for the contribution
  logger, and only then the store; the choice of a partner by weight is exact.
- `CabinetPrivacy`: a step is one read or one assignment of a thread. Clients choose
  their request ids: those of `Reusing` may choose another's. Progress is rounded
  as the page rounds it.
- `Wallet`, `ProxyPools`, `CommandCenter`: one step of the loop per operation, with
  the refusal that comes after the store.
- `PolicyVersions`: applying looks up one key after another on a worker thread;
  a key that is repeated replaces the version named for it, not its reasons.
- `AgentRuns`: one operator for each `_run_` handler, with what it records and its
  reasons to escalate; the protocol around them is common.
- `NotificationGateway`: a dispatch goes from recipient to recipient and waits at
  each e-mail; the route resolved and the answer, or its loss, decide the status.
- `AnalyticsIterations`: batches that stop at a known id; the states of an iteration.
- `KPIDashboards`: one listing after another while events are recorded; the sums,
  averages, statuses and summaries are calculated as the code does.

## 3 Runs

Every passing run explores its whole state space.

| Run | Shows | Bounds | Distinct states |
|---|---|---|---|
| `payout_race` | two execute requests against veto, confirmation and failing connectors; `PayoutLifecycle` is implemented | 2 payouts, one of which is executed and the other competes for ids; 2 executors, 2 execution ids, 2 users of whom 1 in the Council, 1 decision and 1 confirmation id, clock to 2, window 1 | 527,359 |
| `payout_pair` | payments are unique and traceable; the panel keeps its word | 2 payouts with one execution id each, 1 executor, 2 confirmation ids (symmetric), 1 decision id, one panel at a time, clock to 1 | 594,533 |
| `payout_settlement` | statuses and liveness | 1 payout, 1 executor, 1 reconciliation, a provider that goes through all 6 statuses, failing publishes | 30,068 |
| `payout_paid_twice` | violation, see 6 | 1 payout, 2 execution ids | – |
| `breaker` | the circuit, the budget, recovery; events are handled, and once | 2 calls, 3 attempts, thresholds of 2, cooldown 2, backoff 1 then 2, attempt 1 and total 4 ticks; 2 events, 2 workers, 2 redeliveries, one failure, cancellation and restart | 18,764 |
| `publication` | verdicts, clients, metrics, turns | 2 batches (all platforms; one), 3 platforms of which 1 is in the catalogue only and 1 is paused and resumed, 2 routes, 3 endpoints, 2 attempts; 1 publication by every client, 3 attempts, 2 accounts, 2 versions of a token; 2 senders, interval 2; 2 posts | 981,050 |
| `ledger` | keys, freshness, shares | 2 members, 2 periods, 2 keys, 2 point values, 2 workers, 2 contributions | 327,632 |
| `voice` | receipts, batches, retention | 1 audio stored up to twice, 2 contents, 2 event ids, 2 requests, 1 clean-up, council batches of 2, clock to 2 | 136,196 |
| `shared_contracts` | budgets, slugs, cache and lock, tokens, signatures, storage, topics | 3 requests and 2 plans with windows of 2 and 3 seconds; 2 tenants and slugs, 2 applications; 3 owners; 2 logins, 4 tokens; 6 kinds of host, windows of 2 seconds, clocks up to 2 apart; 3 workers, counters to 3; 2 tenants with 2 requests and 5 bearer tokens; 3 tenants, 3 types, 4 bindings, 3 envelopes | 1,077,360 |
| `services` | one property per service | see `MCServices` and `Services.cfg`; two of whatever competes, and lengths of 1 to 3 | 916,124 |
| `council_thresholds_reset` | violation, see 6 | as `services`, the command centre alone | – |
| `cabinet_half_done` | violation, see 6 | as `services`, the requests of data subjects alone | – |

Why the bounds are enough:

- *Payouts.* A race needs two requests over one payout; ids collide with two of a
  kind, or two payouts for one id. The clock passes the window's end and the
  tick before and after it. In `payout_pair` the clock stops at the window's end,
  which keeps the panel's states in reach; the tick beyond is in `payout_race`.
- *Breaker.* Thresholds of 2 tell a count from a flag; two calls are what a late
  answer takes; three attempts let the backoff reach its maximum; a total of 4
  ends some sequences of retries and not others. Two workers and two events let
  deliveries of one event overlap while another waits.
- *Publication.* Two platforms make `stop_on_error` and its remainder
  differ; three endpoints of which the middle one is unhealthy exercise the skip
  and the wrap of the cursor; two attempts over two routes are four ways to lose
  an answer after a post. A pool may also become empty. Clients have three
  attempts, so that what changes between two of them may change back.
- *Ledger.* Two contributions of 3 and 5 points give shares 3/8 and 5/8, which
  both round up at two places: the residual is negative. Two periods tell a
  period's invalidation from another's, and two workers let a saved snapshot be
  overwritten by an older recalculation.
- *Voice.* An audio id may be stored again after its deletion, which is the case
  retention is about; two requests and a council batch compete for event ids.
  A tick stands for hours: none falls between the two writes of `put_audio`.
- *Shared contracts.* Limits of 1 and 2 put a counter at, below and above its
  limit; plans with windows of 2 and 3 seconds next to a limiter of 2 have rolls
  at different seconds. A third owner tells the release of one's own lock from
  that of another's. The last second lies beyond the replay window and the life
  of a token. Two tenants are what meeting takes; a third with a dot in its name
  is what a wildcard could confuse.
- *Services.* Two callers with one key, two readers of one list, or one worker
  thread against the loop are the races of these services; queues and logs are
  long enough to pass their limits once. Two dashboards of different periods and
  a report see events that come between their listings.

Deadlock checking is off except for `breaker`: a bounded clock, ledger or set of
ids does run out, and a finished instance stops. The guard never stops, and its
run checks that; consumers that have nothing to do wait (`Waiting`).

`EventsTellTheTruth`, a
clause of `RecordsAgree`, is checked where publishing cannot fail: when it fails
the event is lost for good.

## 4 Fairness

- *payout_settlement*: a failed attempt is announced for reprocessing and leaves
  the payout executable, so callers come back: strong fairness of `BeginExecute`.
  A connector that is asked again and again answers in the end: strong fairness
  of accepting and answering. The clock ticks and a hanging connector call ends
  (its client has a timeout): weak fairness. Nothing is assumed of the Council.
- *breaker*: the service goes on calling (weak, `Begin`), timers fire (weak,
  `Tick`, `TimeOut`, `NextAttempt`), and of infinitely many attempts on a working
  dependency some are answered and not cancelled (strong, `Succeed`). Of consumers:
  a delivery that is queued is taken by some worker, and a handler ends in one of
  its ways (weak). The broker need not redeliver, and nothing is said of restarts.
- *voice*: the clock ticks, the loop gets its turn, and somebody keeps calling
  the clean-up, which is how `docs/modules/voice-to-chain.md` intends it to be
  used. Requests may hang for ever at the transcriber.

The other runs check safety and assume no fairness.

## 5 Proofs

TLAPS checks all of the following for every value of the constants that their
`ASSUME`s allow: any number of payouts, users, callers, workers, tenants, audios,
batches, platforms, any thresholds, windows and scales. TLC checked each inductive
invariant on the runs of section 3, part by part.

| Theorem | Property | Argument |
|---|---|---|
| `PayoutGatewayProofs!TypeCorrect` | `TypeOK` | with `CallsTyped`: an execute request in flight has a payout and an execution id |
| `PaymentSafety` | `PaidOnlyAfterWindowAndConfirmation` | `PaymentInv`, below |
| `VetoFinality` | `VetoIsFinal` | `VetoInv`, below; under `Skew = 0` |
| `RecordsTraceable` | `ExecutedHasEvidence`, `AuditMatchesStatus` | `RecordInv`: what a request in flight will cite is there already |
| `RecordsAgreement` | `RecordsAgree` | `EventInv`; under `Skew = 0` and `BusMayFail = FALSE` |
| `PaymentTraceability` | `PaymentIsTraceable` | `AccountInv`: a payment is of an execution in flight, recorded or failed |
| `PaymentAccounting` | `PaymentsAreAccounted` | `AccountInv`; for callers that use one execution id for a payout |
| `NothingUndone` | `NothingIsUndone`, with the refinement of `PayoutLifecycle` | `LifecycleInv`, below |
| `StatusHeldOnce` | `StoredStatusIsPast` | `StatusInv`: of every answer, held by a request or stored, the provider is at least as far by now |
| `StatusHonesty` | `StatusIsHonest` | the former and `TurnInv`, below; for one execute request and one reconciliation at a time |
| `PanelStands` | `PanelKeepsItsWord` | `PanelInv`, below; under `Skew = 0` |
| `CircuitIsSound` | `CircuitSound` | the transitions of the circuit keep `Sound`, stated over circuit values |
| `CallsKeepBudget` | `BudgetKept` | `InBudget`: a sleeping call has room for its sleep and one more attempt |
| `RecoveryStaysOrderly` | `RecoveryIsOrderly` | three action properties, each from one lemma about one step of the circuit |
| `HandlersRunOnce` | `HandledOnce` | `InboxInv`: an event that a worker handles or has handled is known to the inbox |
| `ContributionLedgerProofs!TypeCorrect` | `TypeOK` | with `Underway`: a registration under way has appended something |
| `SnapshotFreshness`, `DistributionCurrency` | `SnapshotsAreFresh`, `DistributionIsCurrent` | `FreshInv`, below |
| `ReadingsStayCurrent` | `ReadingsAreCurrent` | the three before, together |
| `KeysRegisterOnce` | `KeyRegistersOnce` | `EventsPaired`: contribution *i* was announced by events 2*i*-1 and 2*i* and by no others |
| `SharesStayProportional` | `SharesFollowWeights` (`SharesAddUp` but for the sign) | `FreshInv` bounds what was read; the rest is about any coefficients |
| `SharesStayExact` | `SharesAddUp` | under `FewMembers` |
| `VoiceToChainProofs!TypeCorrect` | `TypeOK` | inductive by itself |
| `ReceiptsHold`, `BatchesAreWhole` | `AcknowledgedIsRecorded`, `NothingByHalves` | `ChainInv`: also, what a suspended request was answered is on the chain |
| `ReceiptsStand` | `ReceiptsAreKept` | the three before, together |
| `TranscriptsLogged` | `TranscriptsAreAudited` | `ChainInv` with `LoggedIsAcknowledged` |
| `RawAudioTracked` | `RawAudioIsTracked` | `AudioInv`: what a clean-up has copied agrees with the store; in behaviours whose clean-ups do not overlap (`[]CleanUpsApart`), whatever the number of cleaners |
| `DeletionsRecorded` | `OneDeletionEach` (the safety half of `RawAudioEnds`) | `DeletionInv`: one receipt per audio, none of one still to be deleted; under `[]CleanUpsApart` |
| `OverlappingCleanUpsAreSafe` | `OnceStoredIsTracked`, `DeletedIsRecorded` | `OverlapInv`: for any overlaps, what holds of audio ids that are stored once, and the trace every deletion leaves |
| `SharedContractsProofs!SessionKeepsOneToken` | `SessionHasOneToken` | `TokensInv`: a login's live token is one record, and bounds the ends of its access tokens from its issue; a session whose tokens are all revoked is closed for good, and its access ends within one life of an access token |
| `ReplaysRefused` | `ReplaysAreRefused` | `SignedInv`: a call that was let in is still in the nonce cache, or its time stamp has left the window; a verifier holds a clock reading of inside the window; a copy whose verifier read the clock after another was let in finds it there |
| `SlugsLeadToTheirTenants` | `SlugLeadsToItsTenant` | `MarketInv`: every profile is found under its slug; a tenant made from an application has a profile, so it is not made again |
| `CacheIsInTime` | `CacheKeepsTime` | `LockInv` (an owner within its time holds the lock until its time ends) and `CacheInv` (only a worker between `INCRBY` and `EXPIRE` leaves a counter without an end) |
| `GatewayKeepsBudgets` | `BudgetsAreKept` | `GatewayInv`, below |
| `StoresKeptApart` | `StorageKeptApart` | `StorageInv`: the context of a suspended request, the tenant of a signed URL and that of the stored object, vector or row agree |
| `EventsFound` | `EventsFindTheirConsumers` | `TopicsInv`, below |
| `ServicesProofs!DecisionsExplained` | `DecisionsAreExplained` | `PolicyInv`: the history of a key only grows at its end, so what a thread looked up under a version stays found under it; a reason comes from a version named or, for a repeated key, from an earlier one |
| `QueueBounded` | `QueueIsBounded` | `ThresholdsInv` and `QueueInv`: each queue is within the limit of some thresholds that were ever in force |
| `RunsAccounted` | `RunsAreAccounted` | `RunsInv`: each await of a run leaves it on record so far, and a stored id is not stored again |
| `AutonomyBounded` | `AutonomyIsBounded` | the two before, in the composition of `MCServices` |
| `ProxiesInTurn` | `ProxiesTakeTurns` | `ProxiesInv`, below |
| `PollsAccounted` | `PolledIsAccounted` | `UpdatesInv`: at every step of a poll, what it handled, passed over and still has in hand is what it fetched, each once; what it handled was answered unless no replies are asked for |
| `RecordsKeptApart` | `OthersAreUntouched` | `PrivacyInv`: a copy that a thread holds has, like the collection it was taken from, whatever nobody asked to erase |
| `CabinetConsistent` | `CabinetIsConsistent` | the former and `PagesInv`, below; the required consents are finitely many |
| `CreditedReady` | `CreditedContentIsReady` | `ContentsInv`: a request that waits for the contribution logger has a content id of its own that nobody was credited for |
| `ContentsCredited` | `ContentsAreCredited` | the former, `PartnersInv` (a stored partner was eligible) and `PlacesWeigh`: an offset below the total lies in one candidate's interval, as long as its weight |
| `StatementKept` | `StatementAddsUp` | inductive by itself: an operation moves the balances and the statement by one sum |
| `BoardsKept` | `DashboardsAddUp` | `BoardsInv`, below |
| `FiguresKept` | `FiguresAddUp` | the two before, in the composition of `MCServices` |
| `OutreachProofs!RecordedOnceDecidedOnce` | `RecordedAndDecidedOnce` | `AnalyticsInv`: the log has no decision on an iteration that awaits the Council, and one on each that was approved |
| `OptOutStands` | `OptOutHonoured` | `NotifyInv`: a dispatch at a member serves only channels the member allows, or was there at the member's last update |
| `PublicationProofs!VerdictsStand` | `VerdictsAreTrue` | `VerdictsInv`, below |
| `LeasesTurn` | `LeasesRotate` | `RotationInv`: the endpoint leased last is the one before the cursor, so every other one that can be leased is met before it |
| `AccountsKept` | `AccountsAreKept` | `AccountsInv`, below |
| `TurnsTaken` | `TurnsAreTaken` | the two before, in the composition of `MCPublicationDelivery` |
| `MetricsTrue` | `MetricsAddUp` | `MetricsInv`: what an answer in hand says of a post lies between the counts at the start and now |
| `ClientsExact` | `ClientsAreExact` | `ClientsInv`: the request on the wire is the publication's latest and bears the token and the key it was begun with; a key was posted once |

*PaymentInv.* The property speaks of payments, but the check is made when
`BeginExecute` reads the payout, and several awaits lie between. The invariant
carries the two facts that were checked (the window is over, there is a
confirmation) over to the suspended copy, the request on the wire and the
payment, and adds that a payout that exists never changes its window and never
loses a confirmation. The last holds although copies are written back, because a
copy was itself taken with a confirmation and after the window.

*VetoInv.* With one clock, a veto needs `now < veto_until` and an execution
`now >= veto_until`. `PaymentInv` already says that a payout to which some
suspended request, request on the wire or payment refers is past its window, so
it can no longer be vetoed; `UserLive` adds that it is not canceled, and
`VetoesStand` that a decision still has its payout. Together they are inductive,
because a copy written back is then never that of a vetoed payout. `Skew = 0` is
used exactly there, and it is needed (see 6).

*RecordInv, EventInv, AccountInv.* Each is `PaymentInv` and a sentence about the
requests in flight: what the last step of an execution will cite (the decision it
was checked against, the audit record of the status it will write over, the
payment with its id) is in the repositories when the step before it ends. The
lemmas that open this part of `PayoutGatewayProofs` say once what a step makes of one
payout (`GetsQueued`, `GetsVetoed`, ...), and the invariants are proved from
them instead of from the actions. The event clause needs `BusMayFail = FALSE`:
a publish that raises leaves a stored status without its event, which is why the
run `payout_settlement`, where the bus may fail, does not check it.

*LifecycleInv and the refinement.* `phaseBar`, `openBar` and `paidBar` map the
stored status and confirmation, the clock and the payments. The hard step is
`NotificationAnswers`, which writes back a copy that was read several awaits ago:
it maps to `Execute` or, when another execution was faster, to a stutter, and
that no stage between (a veto, a loss of the confirmation) is undone follows from
`VetoInv`. That the stored record itself never goes back also needs
`ExecutionIdsApart`: no execution id is used for two payouts. Clients choose the
ids; the code tells executions apart by them and has nothing else to go by.

*StatusInv, TurnInv.* An execution and a reconciliation store answers that the
provider gave earlier, in any order. That a status is never ahead of the provider's
holds for any number of them. That it never moves back needs that an answer in hand
is at least as new as what is stored: executors act on payouts that are not executed
yet, and the one reconciliation holds an answer to the payment its payout names,
asked for after that payout was executed. With two reconciliations it is false. Both
theorems assume that the statuses of a payment ascend at the provider
(`StatusFlowAscends`), as they do in the value the run gives `StatusFlow`.

*PanelInv.* What the panel shows is what was listed, at a time at which payouts
executed or canceled stay so; a queued payout without a confirmation on its record
has none in the repository either (`ConfirmationsShow`, which is what makes an
offer to confirm true). Payouts are finitely many (`PanelAssumption`), and the
items are as many because an item has its payout's id.

*Shares.* What is proved of shares is proved of any coefficients of finitely many
members. `TotalFolds` unfolds `Total` into its partial sums over subsets, whose
existence and values follow by a least counterexample (`EverySubset`); a sum then
changes as one of its values does (`TotalChange`), whatever the order in which the
fold takes them. The last positive share is the whole less the other rounded
shares, each within half a unit of its part, so it is within half a unit for each
of them (`TotalsClose`). It may be negative when a unit of coefficient is less than
that: `FewMembers` bounds the square of their number times the greatest
coefficient by twice the scale, which at the scales of the code and the Council's
cap admits 1414 members (section 6 says what happens with more).

*GatewayInv.* The counters of the resource manager are what is held: slots are the
requests that run or were lost (`SigningFails`), queue items and bytes the sums
over the workers' reservations (`UsageIsAccounted`). That a sum changes as one
worker's share does is proved by a least counterexample, since the library's
induction theorems take an operator as a parameter. Each counter is within the
plan, or no more than the last change of the plan found in use
(`UsageIsWithinPlan`): a smaller plan takes nothing away, and nothing is added
until there is room. The limiter and the plan count in windows of their own: the
requests admitted since the plan's window began are at most those it counts, and the
window of an earlier one is over when the next begins (`PlanWindowKept`); a change
of the plan forgets nothing that was admitted, and its window may begin elsewhere
(see 6).

*TopicsInv.* A key is matched from the end of the binding; that this is what the
wildcards mean, that a key can be cut into pieces for the parts, is proved for each
rest of the binding (`MatchesAsCovered`). In memory the oldest messages that match
are taken, so what waits for a consumer is newer than what it has got: that keeps
the order, and an envelope is in one place only (`InOnePlace`).

*ProxiesInv.* A proxy that can be leased and stands *o* places behind the cursor
was passed over fewer than *n - o* times in a pool of *n* (`TurnsInTime`). A lease
moves the cursor behind the proxy it took: every other one that can be leased
counts one more and has come closer by at least one place, and the one taken
begins again at the far end. Replacing the pool starts all counts again, and a
proxy that could not be leased begins at 0, as in the property. That the bound follows needs
proxies to be listed once in a pool.

*PrivacyInv, PagesInv.* Each request of a data subject reads a collection, filters it
and assigns the copy, and any other may do so in between. Whether a member was asked
for is never taken back (`AskedStays`), so a copy taken earlier satisfies what is
said of the collection now. A page has read a member's steps, or an erasure was
asked for; the consents it has read are the member's, and the required ones among
them are granted. That a full progress bar means ready is arithmetic on what was
counted (`ReadinessRight`): with fewer than 200 steps and consents required no
rounding makes it full before they are done (see 6). They are finitely many, and a
page never counts more of them than there are keys.

*BoardsInv.* A dashboard lists its period twice, with other requests in between. A
listing holds what an earlier listing of its period held, so a slice is at least
its part of the summary. The periods of a dashboard are distinct and leave one out
only when a newer one took its room: stated of the descending order, which is
unique, rather than of a way to sort.

*RecordedAndDecidedOnce.* A batch stops at the first id it knows, so it is whole only
when it has recorded as many as it brought (`EventsWhole`, `SignalsWhole`); usage
and incident signals have an id space each, and signals of a listed batch are
known, so no other batch adds one under their id. Every way into a measurement
passes the Council's approval, and a decision needs an iteration that awaits one,
which none does once the log has a decision on it. An iteration may be measured
again and again, and shows what was logged last. That indicators of a refused batch
do not count again is *not* among the clauses: they do (see 6).

*VerdictsInv.* Of the platforms that a batch has before it nothing is told, in no
book, and nothing was posted there except for the one at work, where the post is
in flight or has lost its answer. An attempt that ends therefore either tells the
one verdict of its platform and moves on, or goes on with nothing told, and only
lost answers let a post come again. The lists of active platforms and healthy routes are stated as
the one arrangement of the members that keeps the catalogue's order (`InOrderOf`),
whose members the proof can name, rather than by a recursive selection.

*AccountsInv.* A call that sleeps is due an interval after every call with its key
that had left when it asked (`PaceKept`), which the slot alone does not say: a
call that is let through meanwhile moves it. An open client holds what it read or
a session issued later, and the store never holds one that was not issued
(`SessionsKept`).

*FreshInv.* A snapshot is fresh because a registration drops it; the hard case is
one that is being recalculated. The invariant therefore says of each
recalculation under way that it has read everything of its period, or is marked
`raced`, and excepts the contribution between its append and the drop.

*Raw audio.* While clean-ups do not overlap, what one has copied and not yet dropped
is still in the store as copied, and what it has dropped has no payload; a new
upload of that id is refused while its record is pending. With two at once the
first half is false, and track of an audio can be lost (see 6).
`OverlappingCleanUpsAreSafe` says what is left then: an id that was stored once is
tracked to the end, and no record is marked as deleted without a trace of it.

*Assumptions.* The theorems rest on the named `ASSUME`s of the modules, which TLC
evaluates in the runs, and on the hypotheses in their statements:

- `Skew = 0`: callers leave `now` out of their requests, so that all handlers use
  one clock. `BusMayFail = FALSE`: the in-memory bus, which cannot fail.
- The constants are of their types, sizes and times are numbers, lives and windows
  are not 0, values that stand for "none" are no members of the sets they are kept
  apart from; payouts, members and requests are finitely many where they are
  counted (`PanelAssumption`, `RequestsAssumption`).
- `KPIAssumption`, `ContentsAssumption`: each event of a dashboard has a definition;
  weights, thresholds and seeds are natural numbers.
- `FewMembers`: the share that carries the rounding is not negative (1414 members at
  the scales of the code). `[]CleanUpsApart`, of a behaviour: no two
  clean-ups of raw audio overlap, for `RawAudioTracked` and `DeletionsRecorded`.
- `ConfigsAssumption`: a proxy is listed once in a pool; a configuration that lists
  one twice is refused (`proxy_rotation.py:664`). `LimitsAssumption`: the queue
  limits the Council may set are those the loops read.

*Only model-checked.* Liveness: `ConfirmedIsSettled`, `ClosesAfterRecovery`, and the
temporal halves of `EventsAreHandled` and `RawAudioEnds`, because the prover has no
rules for ENABLED.

## 6 Disagreements and observations

Three runs end in a violation, by what the code does, of what a document of the
repository says. PROJECT.json quotes the lines.

1. `payout_paid_twice`. Without an `execution_id` in the body a retry gets a new
   one, and no `Idempotency-Key` is read; after a failure behind the payment the
   payout is still executable and is paid again. A caller that repeats its
   execution id is safe (`payout_pair`).
2. `council_thresholds_reset`. A read that finds no thresholds stores the defaults
   from a worker thread, over a revision that the Council saved meanwhile.
3. `cabinet_half_done`. Two requests of data subjects assign copies of one journal,
   and one of the two entries is lost.

The following was observed while modelling. No run is devoted to it; the models
contain it, or leave it out where section 7 says so.

*Payouts.* With different `now`s from their callers an execution may overwrite a
veto (`execution_manager.py:500`; `docs/GOVERNANCE.md:78`). A veto or a
confirmation that is refused for its id leaves an audit record; an event is lost
when its publish raises; the in-memory payment connector answers a reused
execution id with the stored payment, also for another payout. The panel offers
the confirmation when any member has a TOTP secret (`web_cabinet/api.py:2214`),
though confirming needs one's own (`:2292`).

*Ledger and voice.* A recalculation takes a `cap_kv` above the Council's, and the
export uses it (`contribution_ledger/api.py:131`; `docs/REQUIREMENTS.md:109`). With
1431 or more members at the cap the residual of the last share may be negative.
Two overlapping clean-ups and an upload lose track of raw audio
(`retention.py:141`). A voice request that failed leaves its audio pending and
refuses its own retry until the clean-up (`service.py:115`).

*Resilience.* Attempts after a sleep are made without another look at the circuit
(`resilience.py:256`), and a half-open circuit admits every concurrent call (`:220`).

*Publication.* A fallback route that was unhealthy once is never offered again
(messenger `resilience.py:505`, `:318`). Retries reach a platform that was paused
meanwhile (`base_adapter.py:484`), except through the registry-HTTP publisher. The
default catalogue activates 82 platforms of which 10 have a publisher, so a batch
for "all active" reports failures for the rest. Metadata of a publication may
override the target of OK and registry-HTTP posts while receipts name the
command's (`ok_adapter.py:100`, `generic_http_publisher.py:371`). A Bot API answer
200 that cannot be read counts as failed for good though the post is there
(`telegram_adapter.py:136`). A failure after a Telethon message was sent is
retryable (`telegram_telethon.py:339`), a client open during a login saves its
session over the new one (`:327`), and `next_offset_id` covers failed messages. A
limiter that wakes late moves its slot back (`:386`, `vk_adapter.py:61`).

*Events.* A cancelled handler leaves its event in progress until a restart
(`events.py:289`). RabbitMQ drops messages published before any queue is declared,
and nothing is bound to the dead-letter exchange (`:337`, `:357`).

*Shared library.* A slot is lost when signing fails (`gateway.py:300`;
`docs/MULTITENANT_SCALING.md:28`). A new plan whose window begins at another
second starts its budget afresh, so that more is admitted than either plan allows
in one window (`tenant_resources.py:179`, `:416`). Two copies of a signed request
that are verified at the same time may both get in, for the look-up of the nonce
and its storing are two steps (`s2s_auth.py:271`, `:274`). An application
approved, rejected and its slug reused gives two active applications of one slug.
`INCRBY` comes before the check of the ttl and may leave a counter without expiry
(`cache.py:437`). Tenant ids with ":" are valid and refused by the cache
(`cache.py:591`), those with ".." by the object store. A presigned PUT signs a
content hash the store never compares (`object_storage.py:659`). An in-memory
upsert leaves the records before the refused one, Chroma none (`vector.py:158`,
`:259`). A malformed tenant id named inside the application is refused without an
audit event (`tenant.py:349`). Without `app.state.s2s_auth`, `require_s2s` builds
an authenticator with an empty replay cache for every request (`s2s_auth.py:783`).

*Services.* CGLR announces a key twice when two requests overlap
(`docs/modules/cglr.md:47`). A failed or deferred e-mail counts as delivered, and
a lost provider answer as failed (`email_delivery.py:481`). A duplicate task or
run id is refused after its audit record or event. An analytics batch stops
part-way at a known id; the indicators stored before it stay, and count again when
the collector sends the batch under another id (`analytics_engine/api.py:1072`),
and a refused signal leaves an audit record (`:1961`). When a request to apply
policies repeats a key, the escalation names the newer version although an older
one gave the reason (`manager.py:238`). A request of a data subject drops the
journal entry of another member whose request id its client reuses
(`web_cabinet/api.py:1044`). With 200 or more required steps and consents the page
shows 100 % when one is missing (`:2740`). A poll that asks for no replies counts
messages as handled that nobody answered (`telegram_telethon.py:568`, `:599`). The
onboarding page may recommend an unfinished member during an erasure
(`web_cabinet/api.py:1820`). The dashboard reads its period twice, so that summary
and slice may differ (`:1947`, `:1992`), and names of weekly periods sort above
months. Nothing in the API calls `add_audit_record` or `save_annotation` of the
panel's repository, nor `add_event` of the cabinet's analytics.

## 7 What the models leave out

- *Crashes and restarts* beyond those named in 1. A cancelled request is modelled
  where the code reacts to it (resilience, event processing), and as a failed
  connector elsewhere.
- *Several tenants*, except in `TenantStorage`, `EventTopics` and `PlatformAccounts`:
  every other repository key starts with the tenant id.
- *Access control*: roles are looked up in static tables before a handler runs
  (`rbac.py`). The payout confirmation is the exception: its subject and payout
  have to match, and `Confirmable` says so. Which services may record or read at
  the auditor and which metadata keys it forbids are left out too.
- *Validation and formatting* of requests, audit metadata and event payloads; the
  HTML of the cabinet and its design system; the texts of templates, replies and
  recommendations; the content transformer of the messenger adapter.
- *What agents calculate* (segments, timetables, rankings) as far as no decision of
  a run depends on it.
- *Connections to real infrastructure* (RabbitMQ, Redis, PostgreSQL, object storage,
  mail providers): how they connect and encode. What their commands do to shared
  state is modelled where several workers use it.
- *Registering* platforms, adapters and routes at run time: configuration.
- *Points calculator, service runtime*: no state that another part depends on.
- *Tools around the services* (`experiments/`, `scripts/`, `infra/`, `deploy/`,
  `examples/`): not part of the running system.

## 8 Plan

All components of the table in section 1 but the last row are modelled. What is
left is a composition *ledger → payouts → wallet*: what a member is booked is what the
shares gave.

The modules without a proof module contain no RECURSIVE operator, and their
assumptions on constants are named, so that theorems can be added beside them.
