----------------------------- MODULE KPIDashboards -----------------------------
(***************************************************************************)
(* What the Council reads of the KPI of a tenant: the dashboard of the web *)
(* cabinet (web_cabinet/api.py, with the KPI of web_cabinet/analytics.py)  *)
(* and the pilot report of the analytics engine, which has a copy of the   *)
(* same functions. Both are built on worker threads, one listing after     *)
(* another, while events, usage signals and incidents are recorded.        *)
(*                                                                         *)
(* Abstracted: each service has a repository of its own; a behaviour looks *)
(* at one of them. Periods stand for the places of their names in the      *)
(* order of strings, and a category "all" for no category. An average is   *)
(* rounded down to whole minutes, which no target tells apart.             *)
(***************************************************************************)
EXTENDS Integers, Sequences, FiniteSets, SequencesExt, FiniteSetsExt

CONSTANTS
    KPIEvents,       \* events that may be recorded: [event_id, type, period, value, samples, member]
    PilotIncidents,  \* incidents that may be recorded: [incident_id, period, status, severity]
    UsageSignals,    \* usage signals that may be recorded: [signal_id, period, name, value]
    Earlier,         \* events that the repository was created with
    Boards           \* what may be asked for: [kind, period, category, limit]

VARIABLES
    kpiRecords,      \* _events, without duplicates by event_id
    pilotRecords,    \* [incidents, usage] recorded
    boardAsked,      \* the board that is being built, and what was recorded when it was asked for
    listed,          \* the records that its builder has listed so far, listing by listing
    slicePeriods,    \* the periods that it has chosen for the slices
    board            \* what it answered with

boardVars == <<kpiRecords, pilotRecords, boardAsked, listed, slicePeriods, board>>

NoMember == "none"
Unlimited == -1
NotAsked == [kind |-> "none"]

KPI(type, category, min, max) ==
    [type |-> type, category |-> category, target_min |-> min, target_max |-> max]

\* _KPI_DEFINITIONS: each metric is made of the events of one type.
KPIDefinitions ==
    [active_members      |-> KPI("member_active", "participation", 15, 25),
     new_members         |-> KPI("member_joined", "participation", 3, 5),
     materials_published |-> KPI("material_published", "content", 20, 30),
     content_views       |-> KPI("content_viewed", "content", 10000, Unlimited),
     avg_reading_minutes |-> KPI("reading_time_recorded", "content", 3, Unlimited),
     comments            |-> KPI("comment_created", "engagement", 50, Unlimited),
     tasks_completed     |-> KPI("task_completed", "actions", 10, Unlimited),
     initiatives_created |-> KPI("initiative_created", "actions", 1, 2)]

\* The engine's own table, which names the same targets.
EngineDefinitions == KPIDefinitions

Categories == {KPIDefinitions[k].category : k \in DOMAIN KPIDefinitions}

\* AnalyticsEventType, AnalyticsCategory and the bounds of the query parameters.
ASSUME KPIAssumption ==
    /\ IsFiniteSet(Earlier)
    /\ \A e \in Earlier \cup KPIEvents :
          e.period \in Nat /\ \E k \in DOMAIN KPIDefinitions : KPIDefinitions[k].type = e.type
    /\ \A what \in Boards :
          /\ what.kind \in {"dashboard", "report"}
          /\ what.period \in Nat /\ what.category \in Categories \cup {"all"}
          /\ what.kind = "dashboard" => what.limit \in Nat \ {0}

\* _EVENT_CATEGORIES: an event has the category of the metric its type feeds.
CategoryOf(type) ==
    LET key == CHOOSE k \in DOMAIN KPIDefinitions : KPIDefinitions[k].type = type
    IN  KPIDefinitions[key].category

OfType(events, type) == {e \in events : e.type = type}
SumValues(events) == FoldSet(LAMBDA e, sum : e.value + sum, 0, events)
MembersOf(events) == {e.member : e \in events} \ {NoMember}

\* Events that name a member count the member, the others what they say.
ActiveMembers(events) ==
    Cardinality(MembersOf(events)) + SumValues({e \in events : e.member = NoMember})

\* sample_count or 1.
AverageReadingMinutes(events) ==
    LET samples == FoldSet(LAMBDA e, n : n + (IF e.samples = 0 THEN 1 ELSE e.samples), 0, events)
    IN  IF samples = 0 THEN 0 ELSE SumValues(events) \div (60 * samples)

StatusOf(value, definition) ==
    IF value < definition.target_min THEN "below_target"
    ELSE IF definition.target_max # Unlimited /\ value > definition.target_max
         THEN "above_target" ELSE "on_track"

MetricOf(key, events) ==
    LET own == OfType(events, KPIDefinitions[key].type)
    IN  CASE key = "active_members" -> ActiveMembers(own)
          [] key = "avg_reading_minutes" -> AverageReadingMinutes(own)
          [] OTHER -> SumValues(own)

BuildMetrics(events) ==
    [k \in DOMAIN KPIDefinitions |->
        [value |-> MetricOf(k, events), status |-> StatusOf(MetricOf(k, events), KPIDefinitions[k])]]

\* _build_kpi_summary: how many of the metrics have each status.
Summary(metrics) ==
    [status \in {"below_target", "on_track", "above_target"} |->
        Cardinality({k \in DOMAIN metrics : metrics[k].status = status})]

\* _build_category_aggregates.
Aggregates(events) ==
    [c \in Categories |->
        LET own == {e \in events : CategoryOf(e.type) = c}
        IN  [event_count |-> Cardinality(own), unique_members |-> Cardinality(MembersOf(own)),
             totals |-> [type \in {e.type : e \in own} |-> SumValues(OfType(own, type))]]]

\* The engine's copies of the last three.
EngineMetrics(events) == BuildMetrics(events)
EngineSummary(metrics) == Summary(metrics)
EngineAggregates(events) == Aggregates(events)

---------------------------------------------------------------------------
BoardsInit ==
    /\ kpiRecords = Earlier
    /\ pilotRecords = [incidents |-> {}, usage |-> {}]
    /\ boardAsked = NotAsked
    /\ listed = <<>>
    /\ slicePeriods = <<>>
    /\ board = NotAsked

\* add_event: a known id is refused.
AddEvent(e) ==
    /\ ~\E known \in kpiRecords : known.event_id = e.event_id
    /\ kpiRecords' = kpiRecords \cup {e}
    /\ UNCHANGED <<pilotRecords, boardAsked, listed, slicePeriods, board>>

AddIncident(i) ==
    /\ ~\E known \in pilotRecords.incidents : known.incident_id = i.incident_id
    /\ pilotRecords' = [pilotRecords EXCEPT !.incidents = @ \cup {i}]
    /\ UNCHANGED <<kpiRecords, boardAsked, listed, slicePeriods, board>>

AddUsage(u) ==
    /\ ~\E known \in pilotRecords.usage : known.signal_id = u.signal_id
    /\ pilotRecords' = [pilotRecords EXCEPT !.usage = @ \cup {u}]
    /\ UNCHANGED <<kpiRecords, boardAsked, listed, slicePeriods, board>>

Ask(what) ==
    /\ boardAsked = NotAsked
    /\ boardAsked' = [kind |-> what.kind, period |-> what.period, category |-> what.category,
                      limit |-> what.limit,
                      since |-> kpiRecords, incidents |-> pilotRecords.incidents]
    /\ UNCHANGED <<kpiRecords, pilotRecords, listed, slicePeriods, board>>

InPeriod(records, period) == {x \in records : x.period = period}

ListsNext(found) ==
    /\ board = NotAsked
    /\ listed' = Append(listed, found)
    /\ UNCHANGED <<kpiRecords, pilotRecords, boardAsked, slicePeriods, board>>

\* list_events of the period asked for.
ListEvents ==
    /\ boardAsked # NotAsked /\ listed = <<>>
    /\ ListsNext(InPeriod(kpiRecords, boardAsked.period))

\* The periods, the newest first.
Newest(periods) ==
    CHOOSE s \in [1..Cardinality(periods) -> periods] :
        /\ \A p \in periods : \E i \in DOMAIN s : s[i] = p
        /\ \A i, j \in DOMAIN s : i < j => s[i] > s[j]

\* _dashboard_periods: the one asked for, then those of list_periods that it is
\* not, as many as fit.
DashboardPeriods(period, events, limit) ==
    LET others == Newest({e.period : e \in events} \ {period})
    IN  [i \in 1..Min({limit, Len(others) + 1}) |-> IF i = 1 THEN period ELSE others[i - 1]]

ChoosePeriods ==
    /\ boardAsked.kind = "dashboard" /\ Len(listed) = 1 /\ slicePeriods = <<>>
    /\ slicePeriods' = DashboardPeriods(boardAsked.period, kpiRecords, boardAsked.limit)
    /\ UNCHANGED <<kpiRecords, pilotRecords, boardAsked, listed, board>>

\* Each period is listed anew, the one asked for too.
ListSlice ==
    /\ boardAsked.kind = "dashboard" /\ slicePeriods # <<>> /\ Len(listed) <= Len(slicePeriods)
    /\ ListsNext(InPeriod(kpiRecords, slicePeriods[Len(listed)]))

\* list_usage_signals, then list_incidents.
ListUsage ==
    /\ boardAsked.kind = "report" /\ Len(listed) = 1
    /\ ListsNext(InPeriod(pilotRecords.usage, boardAsked.period))
ListIncidents ==
    /\ boardAsked.kind = "report" /\ Len(listed) = 2
    /\ ListsNext(InPeriod(pilotRecords.incidents, boardAsked.period))

---------------------------------------------------------------------------
FilterMetrics(metrics, category) ==
    [k \in {x \in DOMAIN metrics : category \in {"all", KPIDefinitions[x].category}} |-> metrics[k]]
FilterCategories(aggregates, category) ==
    [c \in {x \in DOMAIN aggregates : category \in {"all", x}} |-> aggregates[c]]
FilterEvents(events, category) ==
    {e \in events : category \in {"all", CategoryOf(e.type)}}

Slice(period, events, category) ==
    LET own == FilterEvents(events, category)
    IN  [period |-> period, event_count |-> Cardinality(own),
         unique_members |-> Cardinality(MembersOf(own)),
         summary |-> Summary(FilterMetrics(BuildMetrics(events), category))]

PeriodSlices ==
    [i \in DOMAIN slicePeriods |-> Slice(slicePeriods[i], listed[i + 1], boardAsked.category)]

ShowsBoard(what) ==
    /\ board = NotAsked
    /\ board' = what
    /\ UNCHANGED <<kpiRecords, pilotRecords, boardAsked, listed, slicePeriods>>

\* _build_analytics_dashboard_overview.
ShowDashboard ==
    /\ slicePeriods # <<>> /\ Len(listed) = Len(slicePeriods) + 1
    /\ LET metrics == FilterMetrics(BuildMetrics(listed[1]), boardAsked.category)
       IN  ShowsBoard([kind |-> "dashboard", metrics |-> metrics, summary |-> Summary(metrics),
                  categories |-> FilterCategories(Aggregates(listed[1]), boardAsked.category),
                  slices |-> PeriodSlices])

\* The signals of one name are added up.
UsageSummary(signals) ==
    [name \in {s.name : s \in signals} |->
        [value |-> SumValues({s \in signals : s.name = name}),
         signal_count |-> Cardinality({s \in signals : s.name = name})]]

IncidentSummary(incidents) ==
    [total |-> Cardinality(incidents),
     open |-> Cardinality({i \in incidents : i.status = "open"}),
     severities |-> [s \in {i.severity : i \in incidents} |->
                        Cardinality({i \in incidents : i.severity = s})]]

\* _build_pilot_feedback_loop.
NeedsAttention(summary, incidents) == summary["below_target"] > 0 \/ incidents.open > 0

\* get_pilot_council_report.
ShowReport ==
    /\ boardAsked.kind = "report" /\ Len(listed) = 3
    /\ LET metrics == EngineMetrics(listed[1])
           incidents == IncidentSummary(listed[3])
       IN  ShowsBoard([kind |-> "report", metrics |-> metrics, summary |-> EngineSummary(metrics),
                  categories |-> EngineAggregates(listed[1]), usage |-> UsageSummary(listed[2]),
                  incidents |-> incidents,
                  status |-> IF NeedsAttention(EngineSummary(metrics), incidents)
                             THEN "needs_council_attention" ELSE "ready_for_council_review"])

BoardsNext ==
    \/ \E e \in KPIEvents : AddEvent(e)
    \/ \E i \in PilotIncidents : AddIncident(i)
    \/ \E u \in UsageSignals : AddUsage(u)
    \/ \E what \in Boards : Ask(what)
    \/ ListEvents \/ ChoosePeriods \/ ListSlice \/ ListUsage \/ ListIncidents
    \/ ShowDashboard \/ ShowReport

BoardsSpec == BoardsInit /\ [][BoardsNext]_boardVars

---------------------------------------------------------------------------
ShownPeriods == {board.slices[i].period : i \in DOMAIN board.slices}
CountedIn(categories) ==
    MapThenSumSet(LAMBDA c : categories[c].event_count, DOMAIN categories)
Quiet(period) == InPeriod(kpiRecords, period) = InPeriod(boardAsked.since, period)

\* The dashboard reads the period asked for twice: its slice never counts less
\* than its summary, and the same when nothing was recorded of it meanwhile. That
\* slice comes first and none comes twice; a period that was recorded when the
\* dashboard was asked for is left out only for want of room, and for newer ones
\* (_dashboard_period_slices, _dashboard_periods).
SlicesFollowSummary ==
    board.kind = "dashboard" =>
        LET current == board.slices[1]
            counted == CountedIn(board.categories)
        IN  /\ current.period = boardAsked.period
            /\ current.event_count >= counted
            /\ Quiet(boardAsked.period) => /\ current.event_count = counted
                                      /\ current.summary = board.summary
            /\ Cardinality(ShownPeriods) = Len(board.slices)
            /\ \A p \in {e.period : e \in boardAsked.since} \ ShownPeriods :
                  /\ Len(board.slices) = boardAsked.limit
                  /\ \A i \in 2..Len(board.slices) : board.slices[i].period > p

\* In the report the KPI and the totals of the categories come from one listing
\* and agree; an incident that was open when the report was asked for calls for
\* the Council's attention whatever was recorded since (get_pilot_council_report).
ReportsMissNothing ==
    board.kind = "report" =>
        /\ \A k \in DOMAIN board.metrics \ {"active_members", "avg_reading_minutes"} :
              LET totals == board.categories[KPIDefinitions[k].category].totals
              IN  board.metrics[k].value =
                      IF KPIDefinitions[k].type \in DOMAIN totals
                      THEN totals[KPIDefinitions[k].type] ELSE 0
        /\ (\E i \in InPeriod(boardAsked.incidents, boardAsked.period) : i.status = "open")
              => board.status = "needs_council_attention"

DashboardsAddUp == SlicesFollowSummary /\ ReportsMissNothing
=============================================================================
