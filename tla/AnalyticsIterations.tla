-------------------------- MODULE AnalyticsIterations --------------------------
(***************************************************************************)
(* The analytics engine: KPI events and pilot batches of a tenant, and the *)
(* supervised RL-KPI iterations the Council decides on. The service's bus  *)
(* publishes without waiting, so every handler is one step; a batch that   *)
(* meets a known id part-way stops there, with what it recorded before.    *)
(* A collector that sends such a batch again has to choose another id, and *)
(* what had been recorded of its indicators counts once more.              *)
(***************************************************************************)
EXTENDS Integers, Sequences, FiniteSets, SequencesExt, FiniteSetsExt

CONSTANTS
    Metrics,         \* KPI metrics; target_min and target_max of each in KPITargets
    KPITargets,      \* metric -> [target_min, target_max]
    Periods,         \* reporting periods
    BatchIds,        \* batch ids that collectors choose
    SignalIds,       \* ids of usage signals and incidents that collectors choose
    KPIValues,       \* values of KPI events
    IterationIds,    \* iteration ids that clients choose
    MaxEvents,       \* bound: KPI events recorded
    MaxMeasurements  \* bound: measurements of an iteration

ASSUME MeasurementsAssumption == MaxMeasurements \in Nat

VARIABLES
    kpiEvents,      \* _events: [batch, metric, period, value]; the id is batch and metric
    pilotBatches,   \* _pilot_batches: batch id, period and what it lists
    pilotSignals,   \* _usage_signals and _incidents: kind, id and batch
    signalAudit,    \* the audit records of usage signals and incidents
    analyticsAudit, \* batches and decisions in the audit log, in order
    iterations      \* _rl_kpi_iterations

analyticsVars == <<kpiEvents, pilotBatches, pilotSignals, signalAudit, analyticsAudit, iterations>>

AnalyticsInit ==
    /\ kpiEvents = {}
    /\ pilotBatches = {}
    /\ pilotSignals = {}
    /\ signalAudit = {}
    /\ analyticsAudit = <<>>
    /\ iterations = {}

\* _sum_values; the other ways to read a metric differ in the data only.
MetricValue(events, metric, period) ==
    FoldSet(LAMBDA e, sum : e.value + sum, 0,
            {e \in events : e.metric = metric /\ e.period = period})

\* _status_for_value.
MetricStatus(metric, value) ==
    IF value < KPITargets[metric].target_min THEN "below_target"
    ELSE IF value > KPITargets[metric].target_max THEN "above_target" ELSE "on_track"

EventKnown(events, batch, metric) ==
    \E e \in events : e.batch = batch /\ e.metric = metric
SignalKnown(signals, kind, id) == \E s \in signals : s.kind = kind /\ s.id = id

\* record_analytics_event: a known event id is refused.
RecordEvent(batch, metric, period, value) ==
    /\ Cardinality(kpiEvents) < MaxEvents
    /\ ~EventKnown(kpiEvents, batch, metric)
    /\ kpiEvents' = kpiEvents \cup
           {[batch |-> batch, metric |-> metric, period |-> period, value |-> value]}
    /\ UNCHANGED <<pilotBatches, pilotSignals, signalAudit, analyticsAudit, iterations>>

BatchKnown(batch) == \E b \in pilotBatches : b.batch_id = batch

\* The KPI events of a batch, one after another, up to the first known id.
EventsAdded(batch, period, specs) ==
    LET known == {i \in DOMAIN specs : EventKnown(kpiEvents, batch, specs[i].metric)}
        upTo == IF known = {} THEN Len(specs) ELSE Min(known) - 1
    IN  {[batch |-> batch, metric |-> specs[i].metric, period |-> period,
          value |-> specs[i].value] : i \in 1..upTo}

\* Then usage signals, and then incidents, up to the first known id of the kind.
SignalsKnown(kind, ids) ==
    {i \in DOMAIN ids : \/ SignalKnown(pilotSignals, kind, ids[i])
                        \/ \E j \in 1..(i - 1) : ids[j] = ids[i]}
Signals(kind, batch, ids, upTo) ==
    {[kind |-> kind, id |-> ids[i], batch |-> batch] : i \in 1..upTo}
SignalsAdded(kind, batch, ids) ==
    LET known == SignalsKnown(kind, ids)
    IN  Signals(kind, batch, ids, IF known = {} THEN Len(ids) ELSE Min(known) - 1)

\* A signal is audited before it turns out that its id is known.
SignalsAudited(kind, batch, ids) ==
    LET known == SignalsKnown(kind, ids)
    IN  Signals(kind, batch, ids, IF known = {} THEN Len(ids) ELSE Min(known))

\* collect_pilot_telemetry: a batch is listed only when all of it was recorded;
\* what was recorded before a refusal stays and counts in the KPI.
CollectBatch(batch, period, specs, usage, incidents) ==
    LET events == EventsAdded(batch, period, specs)
        eventsDone == Cardinality(events) = Len(specs)
        usageDone == eventsDone /\ SignalsKnown("usage", usage) = {}
        whole == usageDone /\ SignalsKnown("incident", incidents) = {}
    IN  /\ ~BatchKnown(batch)
        /\ Cardinality(kpiEvents \cup events) <= MaxEvents
        /\ kpiEvents' = kpiEvents \cup events
        /\ pilotSignals' = pilotSignals
              \cup (IF eventsDone THEN SignalsAdded("usage", batch, usage) ELSE {})
              \cup (IF usageDone THEN SignalsAdded("incident", batch, incidents) ELSE {})
        /\ signalAudit' = signalAudit
              \cup (IF eventsDone THEN SignalsAudited("usage", batch, usage) ELSE {})
              \cup (IF usageDone THEN SignalsAudited("incident", batch, incidents) ELSE {})
        /\ IF whole
           THEN /\ pilotBatches' = pilotBatches \cup
                      {[batch_id |-> batch, period |-> period,
                        metrics |-> {specs[i].metric : i \in DOMAIN specs},
                        usage |-> ToSet(usage), incidents |-> ToSet(incidents)]}
                /\ analyticsAudit' = Append(analyticsAudit, [batch |-> batch])
           ELSE UNCHANGED <<pilotBatches, analyticsAudit>>
        /\ UNCHANGED iterations

ExpectedDirection(metric, value) ==
    IF MetricStatus(metric, value) = "above_target" THEN "decrease" ELSE "increase"

\* _build_rl_kpi_proposals: one for each metric of the latest period off target.
Proposals(period) ==
    {[metric |-> metric, latest |-> MetricValue(kpiEvents, metric, period),
      direction |-> ExpectedDirection(metric, MetricValue(kpiEvents, metric, period)), status |-> "proposed", effect |-> "none"] :
        metric \in {m \in Metrics :
            MetricStatus(m, MetricValue(kpiEvents, m, period)) # "on_track"}}

IterationOf(id) == CHOOSE x \in iterations : x.iteration_id = id
IterationKnown(id) == \E x \in iterations : x.iteration_id = id
SaveIteration(record) ==
    iterations' = {x \in iterations : x.iteration_id # record.iteration_id} \cup {record}

\* create_rl_kpi_iteration.
CreateIteration(id, period) ==
    /\ ~IterationKnown(id)
    /\ iterations' = iterations \cup
           {[iteration_id |-> id, proposals |-> Proposals(period), measurements |-> 0,
             decision |-> IF Proposals(period) = {} THEN "not_required" ELSE "pending",
             status |-> IF Proposals(period) = {} THEN "monitoring_only" ELSE "awaiting_council",
             effect |-> "pending"]}
    /\ analyticsAudit' = Append(analyticsAudit, [created |-> id])
    /\ UNCHANGED <<kpiEvents, pilotBatches, pilotSignals, signalAudit>>

\* Fault: the Council may decide while nothing was measured yet.
MayDecide_Again(record) == record.decision # "not_required" /\ record.measurements = 0

\* Only an iteration that awaits the Council is decided.
MayDecide(record) == record.status = "awaiting_council"

\* approve_rl_kpi_iteration.
ApproveIteration(id, decision) ==
    /\ IterationKnown(id) /\ MayDecide(IterationOf(id))
    /\ SaveIteration([IterationOf(id) EXCEPT !.status = decision, !.decision = decision,
           !.proposals = {[p EXCEPT !.status = decision] : p \in @}])
    /\ analyticsAudit' = Append(analyticsAudit, [decided |-> id, decision |-> decision])
    /\ UNCHANGED <<kpiEvents, pilotBatches, pilotSignals, signalAudit>>

\* A change in the direction expected is an improvement.
EffectStatus(direction, delta) ==
    CASE delta = 0 -> "stable"
      [] delta > 0 -> IF direction = "increase" THEN "improved" ELSE "degraded"
      [] delta < 0 -> IF direction = "decrease" THEN "improved" ELSE "degraded"

\* Measured against the value the proposal was made from.
EffectOf(p, period) ==
    EffectStatus(p.direction, MetricValue(kpiEvents, p.metric, period) - p.latest)

Measured(proposals, period) == {[p EXCEPT !.effect = EffectOf(p, period)] : p \in proposals}

\* _overall_rl_kpi_effect_status.
OverallEffect(proposals) ==
    LET effects == {p.effect : p \in proposals}
    IN  IF "degraded" \in effects THEN "degraded"
        ELSE IF "improved" \in effects THEN "improved" ELSE "stable"

\* Only what the Council approved is measured.
MayMeasure(record) == record.decision = "approved"

\* measure_rl_kpi_effect: may be asked for again, with another period.
MeasureEffect(id, period) ==
    /\ IterationKnown(id) /\ MayMeasure(IterationOf(id))
    /\ IterationOf(id).measurements < MaxMeasurements
    /\ LET record == IterationOf(id)
           measured == Measured(record.proposals, period)
           overall == OverallEffect(measured)
       IN  /\ SaveIteration([record EXCEPT !.proposals = measured, !.effect = overall,
                 !.measurements = @ + 1,
                 !.status = IF overall = "degraded" THEN "rollback_required" ELSE "effect_measured"])
           /\ analyticsAudit' = Append(analyticsAudit, [measured |-> id, effect |-> overall])
    /\ UNCHANGED <<kpiEvents, pilotBatches, pilotSignals, signalAudit>>

SignalLists == {<<>>} \cup {<<s>> : s \in SignalIds}

AnalyticsNext ==
    \/ \E batch \in BatchIds, metric \in Metrics, period \in Periods, value \in KPIValues :
          \/ RecordEvent(batch, metric, period, value)
          \/ \E other \in Metrics \ {metric}, usage, incidents \in SignalLists :
                \/ CollectBatch(batch, period, <<[metric |-> metric, value |-> value]>>,
                                usage, incidents)
                \/ CollectBatch(batch, period, <<[metric |-> metric, value |-> value],
                                                 [metric |-> other, value |-> value]>>,
                                usage, incidents)
    \/ \E id \in IterationIds, period \in Periods :
          \/ CreateIteration(id, period)
          \/ \E decision \in {"approved", "rejected"} : ApproveIteration(id, decision)
          \/ MeasureEffect(id, period)

AnalyticsSpec == AnalyticsInit /\ [][AnalyticsNext]_analyticsVars

AnalyticsTypeOK ==
    /\ \A e \in kpiEvents : e.metric \in Metrics /\ e.period \in Periods
    /\ \A s \in pilotSignals : s.batch \in BatchIds /\ s \in signalAudit
    /\ \A x \in iterations : x.measurements \in 0..MaxMeasurements

\* Whatever is sent again, an id counts once: of an event (a batch and its metric), of
\* a usage signal, of an incident and of a batch.
IdsCountOnce ==
    /\ \A e, f \in kpiEvents : e.batch = f.batch /\ e.metric = f.metric => e = f
    /\ \A s, t \in pilotSignals : s.kind = t.kind /\ s.id = t.id => s = t
    /\ \A b, c \in pilotBatches : b.batch_id = c.batch_id => b = c

\* A batch that is listed is whole: what it lists was recorded, in its period, and
\* under it.
BatchesAreWhole ==
    \A b \in pilotBatches :
        /\ \A metric \in b.metrics : \E e \in kpiEvents :
              e.batch = b.batch_id /\ e.metric = metric /\ e.period = b.period
        /\ \A id \in b.usage : [kind |-> "usage", id |-> id, batch |-> b.batch_id] \in pilotSignals
        /\ \A id \in b.incidents :
              [kind |-> "incident", id |-> id, batch |-> b.batch_id] \in pilotSignals

\* The Council decides an iteration at most once, and only approved proposals
\* are ever measured: every measurement in the audit log follows an approval.
CouncilDecidesOnce ==
    \A i, j \in DOMAIN analyticsAudit :
        /\ "decided" \in DOMAIN analyticsAudit[i] /\ "decided" \in DOMAIN analyticsAudit[j]
              /\ analyticsAudit[i].decided = analyticsAudit[j].decided => i = j
        /\ "measured" \in DOMAIN analyticsAudit[i] =>
              \E k \in 1..(i - 1) : /\ "decided" \in DOMAIN analyticsAudit[k]
                                    /\ analyticsAudit[k].decided = analyticsAudit[i].measured
                                    /\ analyticsAudit[k].decision = "approved"

\* However often the effect is measured, the iteration shows the latest in the log.
LatestEffectIsShown ==
    \A x \in iterations, i \in DOMAIN analyticsAudit :
        /\ "measured" \in DOMAIN analyticsAudit[i] /\ analyticsAudit[i].measured = x.iteration_id
        /\ \A j \in DOMAIN analyticsAudit :
              "measured" \in DOMAIN analyticsAudit[j] /\ analyticsAudit[j].measured = x.iteration_id => j <= i
        => /\ x.effect = analyticsAudit[i].effect
           /\ x.status = IF x.effect = "degraded" THEN "rollback_required" ELSE "effect_measured"

\* Collectors may send the same ids again, batches may stop half-way, and iterations
\* may be decided and measured again at any time: ids are recorded once, listed batches
\* are whole, an iteration is decided once, before it is measured, and shows its latest
\* effect. Indicators sent under another batch id are other events and count again
\* (collect_pilot_telemetry, approve and measure).
RecordedAndDecidedOnce ==
    /\ AnalyticsTypeOK /\ IdsCountOnce /\ BatchesAreWhole
    /\ CouncilDecidesOnce /\ LatestEffectIsShown
=============================================================================
