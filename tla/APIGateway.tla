----------------------------- MODULE APIGateway -----------------------------
(***************************************************************************)
(* The resources of a tenant (libs/shared/tenant_resources.py) and the     *)
(* gateway middleware (libs/shared/gateway.py) in front of them.           *)
(*                                                                         *)
(* Every operation of the resource manager holds its lock from the first   *)
(* read to the last write, so each is an operator from the counters to the *)
(* counters, and the caller's action uses it as one step. The manager      *)
(* keeps numbers and no owners: a release is believed whoever makes it.    *)
(*                                                                         *)
(* Between the limiter of the gateway and the call of the service nothing  *)
(* suspends, so a request is decided in one step; then the service runs,   *)
(* next to other requests, until the finally clause gives the slot back.   *)
(* Workers reserve room in queues and storage from the same counters.      *)
(***************************************************************************)
EXTENDS Integers, FiniteSets, Sequences

CONSTANTS
    Plans,        \* TenantResourcePlan records an operator may configure
    DefaultPlan   \* the plan of a tenant nobody configured

ASSUME PlansAssumption ==
    /\ DefaultPlan \in Plans
    /\ \A p \in Plans : /\ p.window_seconds \in Nat \ {0}
                        /\ {p.request_limit, p.concurrent_operations,
                            p.queue_depth, p.storage_bytes} \subseteq Nat

VARIABLES
    tenantPlan,   \* _tenant_plans.get(tenant, default)
    usage,        \* _TenantResourceState; no window yet while nothing was asked
    clock         \* seconds

resourceVars == <<tenantPlan, usage, clock>>

NoWindow == -1

ResourcesInit ==
    /\ tenantPlan = DefaultPlan
    /\ usage = [window_started_at |-> NoWindow, requests_used |-> 0,
                concurrent_operations |-> 0, queue_items |-> 0, storage_bytes_used |-> 0]
    /\ clock = 0

WindowStartedAt(plan) == clock - (clock % plan.window_seconds)

\* Fault: the start of the window is compared with the clock itself.
RollWindow_ByClock(u, plan) ==
    IF u.window_started_at = clock THEN u
    ELSE [u EXCEPT !.window_started_at = WindowStartedAt(plan), !.requests_used = 0]

RollWindow(u, plan) ==
    IF u.window_started_at = WindowStartedAt(plan) THEN u
    ELSE [u EXCEPT !.window_started_at = WindowStartedAt(plan), !.requests_used = 0]

\* Every operation starts from the state of the current plan and window.
StateForContext == RollWindow(usage, tenantPlan)

RequestAllowed(u) == u.requests_used < tenantPlan.request_limit
AdmitRequest(u) == [u EXCEPT !.requests_used = @ + 1]

SlotAllowed(u) == u.concurrent_operations < tenantPlan.concurrent_operations
AcquireOperationSlot(u) == [u EXCEPT !.concurrent_operations = @ + 1]

LessClamped(used, amount) == IF used < amount THEN 0 ELSE used - amount

ReleaseOperationSlot(u) == [u EXCEPT !.concurrent_operations = LessClamped(@, 1)]

QueueAllowed(u, amount) == u.queue_items + amount <= tenantPlan.queue_depth
ReserveQueueItems(u, amount) == [u EXCEPT !.queue_items = @ + amount]
ReleaseQueueItems(u, amount) == [u EXCEPT !.queue_items = LessClamped(@, amount)]

StorageAllowed(u, amount) == u.storage_bytes_used + amount <= tenantPlan.storage_bytes
ReserveStorageBytes(u, amount) == [u EXCEPT !.storage_bytes_used = @ + amount]
ReleaseStorageBytes(u, amount) == [u EXCEPT !.storage_bytes_used = LessClamped(@, amount)]

\* The new plan takes effect at once; what is in use above its limits stays.
ConfigureTenant(plan) ==
    /\ tenantPlan' = plan
    /\ usage' = IF usage.window_started_at = NoWindow THEN usage
                ELSE RollWindow(usage, plan)
    /\ UNCHANGED clock

Usages == [window_started_at : Nat \cup {NoWindow}, requests_used : Nat,
           concurrent_operations : Nat, queue_items : Nat, storage_bytes_used : Nat]

ResourcesTypeOK ==
    /\ tenantPlan \in Plans
    /\ usage \in Usages
    /\ clock \in Nat

----------------------------------------------------------------------------
\* The gateway.

CONSTANTS
    Requests,          \* requests of the tenant, each made once
    Subjects,          \* who makes them: the key of the limiter
    RateLimit,         \* RateLimitPolicy of the gateway
    QueueAmounts,      \* amounts workers reserve at a time
    MaxClock, MaxHeld  \* bounds: seconds that pass, reservations held at once

ASSUME RateLimitAssumption == /\ RateLimit.limit \in Nat \ {0}
                              /\ RateLimit.window_seconds \in Nat \ {0}
ASSUME RequestsAssumption == IsFiniteSet(Requests) /\ QueueAmounts \subseteq Nat

VARIABLES
    windows,    \* InMemoryRateLimiter._windows, per key
    phase,      \* where each request is
    held,       \* queue reservations of the workers, not yet released
    stored,     \* likewise for storage
    admitted,   \* history: clock readings of the requests admitted, since a change
                \* of the plan last moved the start of the window
    inherited   \* history: the counters as the last change of the plan left them

gatewayVars == <<resourceVars, windows, phase, held, stored, admitted, inherited>>

GatewayInit ==
    /\ ResourcesInit
    /\ windows = [s \in Subjects |-> [started_at |-> NoWindow, request_count |-> 0]]
    /\ phase = [r \in Requests |-> "new"]
    /\ held = <<>>
    /\ stored = <<>>
    /\ admitted = <<>>
    /\ inherited = usage

LimiterStart == clock - (clock % RateLimit.window_seconds)

LimiterWindow(s) ==
    IF windows[s].started_at = LimiterStart THEN windows[s]
    ELSE [started_at |-> LimiterStart, request_count |-> 0]

LimiterAllows(s) == LimiterWindow(s).request_count < RateLimit.limit

Counted(s) == [windows EXCEPT ![s] = [LimiterWindow(s) EXCEPT !.request_count = @ + 1]]

\* No route for the path: answered before any counter is looked at.
RouteNotFound(r) ==
    /\ phase[r] = "new"
    /\ phase' = [phase EXCEPT ![r] = "refused"]
    /\ UNCHANGED <<resourceVars, windows, held, stored, admitted, inherited>>

RateLimited(r, s) ==
    /\ phase[r] = "new"
    /\ ~LimiterAllows(s)
    /\ phase' = [phase EXCEPT ![r] = "refused"]
    /\ UNCHANGED <<resourceVars, windows, held, stored, admitted, inherited>>

\* Refused by the plan: the limiter has counted the request.
RequestRefused(r, s) ==
    /\ phase[r] = "new"
    /\ LimiterAllows(s)
    /\ ~RequestAllowed(StateForContext)
    /\ windows' = Counted(s)
    /\ usage' = StateForContext
    /\ phase' = [phase EXCEPT ![r] = "refused"]
    /\ UNCHANGED <<tenantPlan, clock, held, stored, admitted, inherited>>

\* No slot: the request stays counted although no service saw it.
SlotRefused(r, s) ==
    /\ phase[r] = "new"
    /\ LimiterAllows(s)
    /\ RequestAllowed(StateForContext)
    /\ ~SlotAllowed(StateForContext)
    /\ windows' = Counted(s)
    /\ usage' = AdmitRequest(StateForContext)
    /\ admitted' = Append(admitted, clock)
    /\ phase' = [phase EXCEPT ![r] = "refused"]
    /\ UNCHANGED <<tenantPlan, clock, held, stored, inherited>>

Reserved(r, s, next) ==
    /\ phase[r] = "new"
    /\ LimiterAllows(s)
    /\ RequestAllowed(StateForContext)
    /\ SlotAllowed(StateForContext)
    /\ windows' = Counted(s)
    /\ usage' = AcquireOperationSlot(AdmitRequest(StateForContext))
    /\ admitted' = Append(admitted, clock)
    /\ phase' = [phase EXCEPT ![r] = next]
    /\ UNCHANGED <<tenantPlan, clock, held, stored, inherited>>

CallService(r, s) == Reserved(r, s, "running")

\* Signing for the service fails, for its key or token file cannot be read:
\* S2SAuthenticationError is no TenantCoreError, and the finally clause with
\* the release guards only the call of the service.
SigningFails(r, s) == Reserved(r, s, "lost")

\* The service answers, raises or is cancelled: finally releases the slot.
Finish(r) ==
    /\ phase[r] = "running"
    /\ usage' = ReleaseOperationSlot(StateForContext)
    /\ phase' = [phase EXCEPT ![r] = "done"]
    /\ UNCHANGED <<tenantPlan, clock, windows, held, stored, admitted, inherited>>

Enqueue(n) ==
    /\ Len(held) + Len(stored) < MaxHeld
    /\ QueueAllowed(StateForContext, n)
    /\ usage' = ReserveQueueItems(StateForContext, n)
    /\ held' = Append(held, n)
    /\ UNCHANGED <<tenantPlan, clock, windows, phase, stored, admitted, inherited>>

Dequeue ==
    /\ held # <<>>
    /\ usage' = ReleaseQueueItems(StateForContext, Head(held))
    /\ held' = Tail(held)
    /\ UNCHANGED <<tenantPlan, clock, windows, phase, stored, admitted, inherited>>

Store(n) ==
    /\ Len(held) + Len(stored) < MaxHeld
    /\ StorageAllowed(StateForContext, n)
    /\ usage' = ReserveStorageBytes(StateForContext, n)
    /\ stored' = Append(stored, n)
    /\ UNCHANGED <<tenantPlan, clock, windows, phase, held, admitted, inherited>>

Erase ==
    /\ stored # <<>>
    /\ usage' = ReleaseStorageBytes(StateForContext, Head(stored))
    /\ stored' = Tail(stored)
    /\ UNCHANGED <<tenantPlan, clock, windows, phase, held, admitted, inherited>>

\* Requests and reservations go on under the new plan.
Reconfigure(plan) ==
    /\ plan # tenantPlan
    /\ ConfigureTenant(plan)
    /\ inherited' = usage'
    /\ admitted' = IF WindowStartedAt(plan) = WindowStartedAt(tenantPlan) THEN admitted ELSE <<>>
    /\ UNCHANGED <<windows, phase, held, stored>>

Tick ==
    /\ clock < MaxClock
    /\ clock' = clock + 1
    /\ UNCHANGED <<tenantPlan, usage, windows, phase, held, stored, admitted, inherited>>

GatewayNext ==
    \/ \E r \in Requests : RouteNotFound(r) \/ Finish(r)
    \/ \E r \in Requests, s \in Subjects :
           \/ RateLimited(r, s) \/ RequestRefused(r, s) \/ SlotRefused(r, s)
           \/ CallService(r, s) \/ SigningFails(r, s)
    \/ \E n \in QueueAmounts : Enqueue(n) \/ Store(n)
    \/ Dequeue \/ Erase \/ Tick
    \/ \E p \in Plans : Reconfigure(p)

GatewaySpec == GatewayInit /\ [][GatewayNext]_gatewayVars

----------------------------------------------------------------------------
LimiterWindows == [started_at : Nat \cup {NoWindow}, request_count : Nat]
Phases == {"new", "refused", "running", "done", "lost"}

GatewayTypeOK ==
    /\ ResourcesTypeOK
    /\ windows \in [Subjects -> LimiterWindows]
    /\ phase \in [Requests -> Phases]
    /\ held \in Seq(QueueAmounts)
    /\ stored \in Seq(QueueAmounts)
    /\ admitted \in Seq(Nat)
    /\ inherited \in Usages

In(p) == {r \in Requests : phase[r] = p}

SumOf(s) == LET sum[i \in 0 .. Len(s)] == IF i = 0 THEN 0 ELSE sum[i - 1] + s[i]
            IN sum[Len(s)]

\* The counters, which know no owners, stay in step with the owners: a slot is
\* counted for every request a service is running, and room for what the workers
\* hold, so no release frees what belongs to another and the clamp at zero never
\* hides one too many (the callers of release_* in gateway.py and in the workers).
\* The slots that are lost are those of requests that could not be signed.
UsageIsAccounted ==
    /\ usage.concurrent_operations = Cardinality(In("running")) + Cardinality(In("lost"))
    /\ usage.queue_items = SumOf(held)
    /\ usage.storage_bytes_used = SumOf(stored)

\* Within the limit, or no more than the last change of the plan found in use.
Within(limit, used, found) == used <= limit \/ used <= found

\* Slots, queues and storage are within the plan; what a smaller plan finds above its
\* limits may stay, and nothing is added to it (acquire_operation_slot, reserve_*).
UsageIsWithinPlan ==
    /\ Within(tenantPlan.concurrent_operations,
              usage.concurrent_operations, inherited.concurrent_operations)
    /\ Within(tenantPlan.queue_depth, usage.queue_items, inherited.queue_items)
    /\ Within(tenantPlan.storage_bytes, usage.storage_bytes_used, inherited.storage_bytes_used)

\* Neither the plan's budget nor the limiter's is exceeded within one window,
\* however windows roll over: also when the plan changes inside one and the window
\* still begins at the same second; then what was admitted before counts under the new
\* plan. A change that moves the start of the window begins a new budget
\* (admit_request, check, _roll_window_if_needed).
WindowBudgetKept ==
    LET start == WindowStartedAt(tenantPlan)
        now == Cardinality({i \in DOMAIN admitted : admitted[i] >= start})
    IN  /\ \/ now <= tenantPlan.request_limit
           \/ now <= inherited.requests_used /\ inherited.window_started_at = start
        /\ \A s \in Subjects : windows[s].request_count <= RateLimit.limit

\* What the gateway admits and what the workers hold stay within the plan, through
\* every change of the plan, roll of the window and failure between reservation and
\* release, and no slot is lost but where signing fails.
BudgetsAreKept == GatewayTypeOK /\ UsageIsAccounted /\ UsageIsWithinPlan /\ WindowBudgetKept
=============================================================================
