------------------------- MODULE ContributionLedger -------------------------
(***************************************************************************)
(* The contribution ledger (services/contribution-ledger/                  *)
(* contribution_ledger): contributions are registered under idempotency    *)
(* keys, weights of a period are recalculated into a snapshot, and payout  *)
(* distributions are exported from that snapshot.                          *)
(*                                                                         *)
(* POST /contributions is a coroutine on the event loop: the in-memory bus *)
(* never suspends it, so registrations do not interleave with each other.  *)
(* POST /weights/recalculate and GET /payout-distribution are plain        *)
(* functions, which FastAPI runs on worker threads: they interleave with   *)
(* the loop, and with one another, between any two accesses to the shared  *)
(* repository.  One tenant is modelled: all keys start with the tenant.    *)
(***************************************************************************)
EXTENDS WeightEngine, Sequences, FiniteSets

CONSTANTS
    Members,            \* member ids, numbers in the order they sort
    Periods,
    Keys,               \* idempotency keys
    Points,             \* what calculate_points awards, in hundredths
    Averages,           \* avg_points_council of a recalculation; None: not given
    Caps,               \* cap_kv of a recalculation
    CouncilCap,         \* COUNCIL_CAP_KV
    Workers,            \* worker threads
    MaxContributions,   \* bound: the length of the ledger
    None

ASSUME LedgerAssumption ==
    /\ Members \subseteq Nat
    /\ Points \subseteq Nat
    /\ Averages \subseteq Nat \cup {None}
    /\ CouncilCap \in Caps
    /\ Caps \subseteq 0 .. RawScale
    /\ None \notin Periods \cup Nat
    /\ MaxContributions \in Nat

VARIABLES
    contributions,  \* the ContributionRecords, oldest first
    events,         \* the envelopes published
    snapshots,      \* the WeightSnapshot of each period
    invalidating,   \* the period whose snapshot add_contribution is to drop
    requests        \* where each worker thread stands

vars == <<contributions, events, snapshots, invalidating, requests>>

Contribution == [key : Keys, member : Members, period : Periods, points : Points]

EventTypes == {"contribution.recorded", "audit.record.requested"}

\* A WeightSnapshot is kept as what it was calculated from: the part of the
\* ledger that was read, the explicit average if there was one, and the cap.
\* "raced" is a history flag: a contribution of the period was registered
\* between that reading and the saving.
Snapshot == [seen : Nat, average : Averages \cup {None}, cap : Caps, raced : BOOLEAN]

Idle == [step |-> "idle"]
Recalculation == [step : {"recalculating"}, period : Periods, snapshot : Snapshot]
Lookup == [step : {"reading"}, period : Periods, asked : Nat]
Export == [step : {"exported"}, period : Periods, asked : Nat, snapshot : Snapshot]

Init ==
    /\ contributions = <<>>
    /\ events = <<>>
    /\ snapshots = [p \in Periods |-> None]
    /\ invalidating = None
    /\ requests = [w \in Workers |-> Idle]

-----------------------------------------------------------------------------
(* What a snapshot contains.                                               *)

\* The contributions of period p among the first n.
OfPeriod(p, n) == {i \in 1 .. n : contributions[i].period = p}

PointsOf(m, p, n) ==
    Total([i \in OfPeriod(p, n) |->
        IF contributions[i].member = m THEN contributions[i].points ELSE 0])

MemberPoints(p, n) ==
    [m \in {contributions[i].member : i \in OfPeriod(p, n)} |-> PointsOf(m, p, n)]

CouncilAverage(points, average) ==
    IF average # None THEN average
    ELSE IF DOMAIN points = {} THEN 0
    ELSE Rounded(Total(points), Cardinality(DOMAIN points))

\* The capped coefficients of the members with contributions.
Coefficients(p, snapshot) ==
    LET points  == MemberPoints(p, snapshot.seen)
        average == CouncilAverage(points, snapshot.average)
    IN  [m \in DOMAIN points |-> KvCapped(points[m], average, snapshot.cap)]

-----------------------------------------------------------------------------
(* Registration, on the event loop.                                        *)

\* Mutant: the key of an earlier contribution is not looked up.
Registered_Never(k) == FALSE

Registered(k) == \E i \in DOMAIN contributions : contributions[i].key = k

\* POST /contributions.  A key that is known answers with the first record,
\* or 409 when the payload differs, and changes nothing.  A new one is
\* published, with its request to the auditor, and then appended.
RegisterContribution(k, m, p, points) ==
    /\ invalidating = None
    /\ Len(contributions) < MaxContributions
    /\ ~Registered(k)
    /\ events' = events \o <<[type |-> "contribution.recorded", key |-> k],
                             [type |-> "audit.record.requested", key |-> k]>>
    /\ contributions' = Append(contributions,
            [key |-> k, member |-> m, period |-> p, points |-> points])
    /\ invalidating' = p
    /\ UNCHANGED <<snapshots, requests>>

\* The worker recalculates period p now.
Recalculating(w, p) ==
    requests[w].step = "recalculating" /\ requests[w].period = p

\* History: recalculations under way missed, or may have missed, a
\* contribution of period p.
NoteRace(p) ==
    requests' = [w \in Workers |->
        IF Recalculating(w, p) THEN [requests[w] EXCEPT !.snapshot.raced = TRUE]
        ELSE requests[w]]

\* Mutant: the snapshot survives the contribution.
DropSnapshot_Forgotten ==
    /\ invalidating # None
    /\ invalidating' = None
    /\ UNCHANGED <<contributions, events, snapshots, requests>>

\* The second half of add_contribution, which ends the registration.
DropSnapshot ==
    /\ invalidating # None
    /\ snapshots' = [snapshots EXCEPT ![invalidating] = None]
    /\ NoteRace(invalidating)
    /\ invalidating' = None
    /\ UNCHANGED <<contributions, events>>

-----------------------------------------------------------------------------
(* Recalculation and export, on worker threads.                            *)

\* The weights calculated from the ledger as it is now.
Reading(average, cap) ==
    [seen |-> Len(contributions), average |-> average, cap |-> cap, raced |-> FALSE]

\* POST /weights/recalculate reads the contributions of the period.  Its
\* idempotency key is not used.
BeginRecalculation(w, p, average, cap) ==
    /\ requests[w] = Idle
    /\ requests' = [requests EXCEPT ![w] =
            [step |-> "recalculating", period |-> p, snapshot |-> Reading(average, cap)]]
    /\ UNCHANGED <<contributions, events, snapshots, invalidating>>

\* It replaces the stored snapshot, whatever happened since the reading.
SaveSnapshot(w) ==
    /\ requests[w].step = "recalculating"
    /\ snapshots' = [snapshots EXCEPT ![requests[w].period] = requests[w].snapshot]
    /\ requests' = [requests EXCEPT ![w] = Idle]
    /\ UNCHANGED <<contributions, events, invalidating>>

\* The contributions whose registration has been answered.
Answered ==
    IF invalidating = None THEN Len(contributions) ELSE Len(contributions) - 1

Exported(p, asked, snapshot) ==
    [step |-> "exported", period |-> p, asked |-> asked, snapshot |-> snapshot]

\* GET /payout-distribution: the stored snapshot, if there is one, is
\* exported.  (GET /weights reads the same way.)
AskDistribution(w, p) ==
    /\ requests[w] = Idle
    /\ requests' = [requests EXCEPT ![w] =
            IF snapshots[p] # None THEN Exported(p, Answered, snapshots[p])
            ELSE [step |-> "reading", period |-> p, asked |-> Answered]]
    /\ UNCHANGED <<contributions, events, snapshots, invalidating>>

\* Without a snapshot the weights are calculated, and not stored.
CalculateDistribution(w) ==
    /\ requests[w].step = "reading"
    /\ requests' = [requests EXCEPT ![w] =
            Exported(requests[w].period, requests[w].asked, Reading(None, CouncilCap))]
    /\ UNCHANGED <<contributions, events, snapshots, invalidating>>

Return(w) ==
    /\ requests[w].step = "exported"
    /\ requests' = [requests EXCEPT ![w] = Idle]
    /\ UNCHANGED <<contributions, events, snapshots, invalidating>>

Next ==
    \/ \E k \in Keys, m \in Members, p \in Periods, points \in Points :
           RegisterContribution(k, m, p, points)
    \/ DropSnapshot
    \/ \E w \in Workers, p \in Periods, average \in Averages, cap \in Caps :
           BeginRecalculation(w, p, average, cap)
    \/ \E w \in Workers : SaveSnapshot(w)
    \/ \E w \in Workers, p \in Periods : AskDistribution(w, p)
    \/ \E w \in Workers : CalculateDistribution(w)
    \/ \E w \in Workers : Return(w)

Spec == Init /\ [][Next]_vars

-----------------------------------------------------------------------------
TypeOK ==
    /\ contributions \in Seq(Contribution)
    /\ events \in Seq([type : EventTypes, key : Keys])
    /\ snapshots \in [Periods -> Snapshot \cup {None}]
    /\ invalidating \in Periods \cup {None}
    /\ requests \in [Workers -> {Idle} \cup Recalculation \cup Lookup \cup Export]

\* What is used of an event or a contribution with key k.
EventsOf(k, type) == {i \in DOMAIN events : events[i] = [type |-> type, key |-> k]}

\* An idempotency key registers at most one contribution, however often the
\* request is sent, and the contribution was announced once, to the consumers
\* and to the auditor (register_contribution looks the key up, publishes and
\* appends without being suspended).
KeyRegistersOnce ==
    /\ \A i, j \in DOMAIN contributions :
           contributions[i].key = contributions[j].key => i = j
    /\ \A k \in Keys, type \in EventTypes :
           Cardinality(EventsOf(k, type)) = IF Registered(k) THEN 1 ELSE 0

\* Contribution i of period p is in a snapshot, or its registration has not
\* been answered.
Covered(i, p, snapshot) ==
    i <= snapshot.seen \/ (i = Len(contributions) /\ invalidating = p)

\* A stored snapshot counts every contribution of its period that has been
\* answered, unless one was registered while it was recalculated: then
\* save_weight_snapshot stores over the invalidation, and the snapshot stays
\* behind until the next contribution of the period.
SnapshotsAreFresh ==
    \A p \in Periods : snapshots[p] # None /\ ~snapshots[p].raced =>
        \A i \in OfPeriod(p, Len(contributions)) : Covered(i, p, snapshots[p])

\* A distribution that was not exported from such a snapshot counts every
\* contribution of the period answered before it was asked for.
DistributionIsCurrent ==
    \A w \in Workers : requests[w].step = "exported" /\ ~requests[w].snapshot.raced =>
        OfPeriod(requests[w].period, requests[w].asked)
            \subseteq 1 .. requests[w].snapshot.seen

\* Nothing is read from a ledger of the past: neither the stored snapshots nor
\* the distributions exported from them lack a contribution that was answered
\* before, unless a recalculation overlapped a registration (add_contribution
\* invalidates, save_weight_snapshot stores, get_payout_distribution reads).
ReadingsAreCurrent == TypeOK /\ SnapshotsAreFresh /\ DistributionIsCurrent

\* Distance of two numbers.
Apart(a, b) == IF a < b THEN b - a ELSE a - b

\* How far, in half units, a share may be from its part of the whole: the
\* last positive coefficient carries the rounding of all.
Tolerance(kvs, m) ==
    IF Positive(kvs) # {} /\ m = Max(Positive(kvs))
    THEN Cardinality(DOMAIN kvs) ELSE 1

\* The shares of coefficients are their parts of the whole: they add up to it
\* unless nobody has a coefficient, a coefficient of zero has none, and each
\* is its part up to the rounding.
Proportional(kvs) ==
    LET shares == PayoutShares(kvs)
    IN  /\ Total(shares) = IF Positive(kvs) = {} THEN 0 ELSE ShareScale
        /\ \A m \in DOMAIN kvs :
               /\ kvs[m] = 0 => shares[m] = 0
               /\ 2 * Apart(shares[m] * Total(kvs), kvs[m] * ShareScale)
                      <= Total(kvs) * Tolerance(kvs, m)

NoneNegative(kvs) == \A m \in DOMAIN kvs : PayoutShares(kvs)[m] >= 0

\* Every distribution is of shares proportional to the capped coefficients it
\* was exported from.
SharesFollowWeights ==
    \A w \in Workers : requests[w].step = "exported" =>
        Proportional(Coefficients(requests[w].period, requests[w].snapshot))

\* The shares of a distribution are those of the capped coefficients, and none
\* of them is negative (calculate_payout_shares).
SharesAddUp ==
    /\ SharesFollowWeights
    /\ \A w \in Workers : requests[w].step = "exported" =>
           NoneNegative(Coefficients(requests[w].period, requests[w].snapshot))
=============================================================================
