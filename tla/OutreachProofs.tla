---------------------------- MODULE OutreachProofs ----------------------------
(***************************************************************************)
(* Theorems about what the platform sends to its members and audiences     *)
(* and what it counts of their answers, proved for every number of         *)
(* members, requests, collectors, batches and measurements.                *)
(***************************************************************************)
EXTENDS AnalyticsIterations, NotificationGateway, FiniteSetTheorems, TLAPS

(***************************************************************************)
(* The analytics engine: batches, signals and iterations.                  *)
(***************************************************************************)

Effects == {"degraded", "improved", "stable"}

AnalyticsEntries ==
    [batch : BatchIds] \cup [created : IterationIds]
    \cup [decided : IterationIds, decision : {"approved", "rejected"}]
    \cup [measured : IterationIds, effect : Effects]

IterationFields ==
    {"iteration_id", "proposals", "measurements", "decision", "status", "effect"}

IterationsTyped ==
    /\ \A e \in kpiEvents : e.metric \in Metrics /\ e.period \in Periods
    /\ \A s \in pilotSignals : s.batch \in BatchIds /\ s \in signalAudit
    /\ analyticsAudit \in Seq(AnalyticsEntries)
    /\ \A x \in iterations : /\ DOMAIN x = IterationFields
                             /\ x.measurements \in 0 .. MaxMeasurements
                             /\ x.iteration_id \in IterationIds
                             /\ \A y \in iterations : x.iteration_id = y.iteration_id => x = y

DecidedAt(i, id) == "decided" \in DOMAIN analyticsAudit[i] /\ analyticsAudit[i].decided = id

\* The log knows of no decision on what still awaits the Council, and of one on
\* what the Council approved.
DecisionsLogged ==
    /\ \A i \in DOMAIN analyticsAudit : "decided" \in DOMAIN analyticsAudit[i] =>
          \E x \in iterations : /\ x.iteration_id = analyticsAudit[i].decided
                                /\ x.status # "awaiting_council"
    /\ \A x \in iterations : x.decision = "approved" =>
          \E i \in DOMAIN analyticsAudit :
             DecidedAt(i, x.iteration_id) /\ analyticsAudit[i].decision = "approved"

MeasuredAt(i, id) == "measured" \in DOMAIN analyticsAudit[i] /\ analyticsAudit[i].measured = id

AnalyticsInv ==
    /\ IterationsTyped /\ IdsCountOnce /\ BatchesAreWhole
    /\ DecisionsLogged /\ CouncilDecidesOnce /\ LatestEffectIsShown

LEMMA AnalyticsInitially ==
    ASSUME AnalyticsInit PROVE AnalyticsInv
  <1>1. analyticsAudit \in Seq(AnalyticsEntries) /\ DOMAIN analyticsAudit = {}
    BY DEF AnalyticsInit
  <1> QED
    BY <1>1 DEF AnalyticsInit, AnalyticsInv, IterationsTyped, IdsCountOnce, BatchesAreWhole,
                DecisionsLogged, CouncilDecidesOnce, LatestEffectIsShown

\* The first of at most two places.
LEMMA FirstPlace ==
    ASSUME NEW S \in SUBSET (1 .. 2), S # {}
    PROVE  Min(S) \in S /\ \A i \in S : Min(S) <= i
  <1>1. \E x \in S : \A i \in S : x <= i
    <2>1. CASE 1 \in S
      BY <2>1
    <2>2. CASE 1 \notin S
      <3>1. \A i \in S : i = 2
        <4> SUFFICES ASSUME NEW i \in S PROVE i = 2
          OBVIOUS
        <4> QED
          BY <2>2
      <3>2. 2 \in S
        BY <3>1
      <3> QED
        BY <3>1, <3>2
    <2> QED
      BY <2>1, <2>2
  <1> QED
    BY <1>1 DEF Min

\* The indicators of a batch: one or two, of different metrics.
Indicators(specs) ==
    /\ Len(specs) \in 1 .. 2 /\ DOMAIN specs = 1 .. Len(specs)
    /\ \A i \in DOMAIN specs : specs[i].metric \in Metrics
    /\ \A i, j \in DOMAIN specs : specs[i].metric = specs[j].metric => i = j

\* Those recorded are of the batch, were not known, and are one for a metric.
AreFresh(events, pilot, period) ==
    /\ \A e \in events : /\ e.batch = pilot /\ e.period = period /\ e.metric \in Metrics
                         /\ ~EventKnown(kpiEvents, pilot, e.metric)
    /\ \A e, f \in events : e.metric = f.metric => e = f

\* What a batch of one or two indicators records was not known, and if it is as much
\* as the batch brought, it is all of it.
LEMMA EventsFresh ==
    ASSUME NEW pilot, NEW period, NEW specs, Indicators(specs)
    PROVE  /\ AreFresh(EventsAdded(pilot, period, specs), pilot, period)
           /\ Cardinality(EventsAdded(pilot, period, specs)) = Len(specs) =>
                 \A i \in DOMAIN specs : \E e \in EventsAdded(pilot, period, specs) :
                    e.batch = pilot /\ e.metric = specs[i].metric /\ e.period = period
  <1> DEFINE known == {j \in DOMAIN specs : EventKnown(kpiEvents, pilot, specs[j].metric)}
             event(j) == [batch |-> pilot, metric |-> specs[j].metric, period |-> period,
                          value |-> specs[j].value]
             upTo == IF known = {} THEN Len(specs) ELSE Min(known) - 1
  <1>0. /\ Len(specs) \in 1 .. 2 /\ DOMAIN specs = 1 .. Len(specs)
        /\ \A i \in DOMAIN specs : specs[i].metric \in Metrics
        /\ \A i, j \in DOMAIN specs : specs[i].metric = specs[j].metric => i = j
    BY DEF Indicators
  <1> USE <1>0
  <1>1. EventsAdded(pilot, period, specs) = {event(j) : j \in 1 .. upTo}
    BY DEF EventsAdded
  <1>2. known \in SUBSET (1 .. 2)
    OBVIOUS
  <1>3. upTo \in 0 .. Len(specs) /\ \A j \in 1 .. upTo : j \notin known
    <2>1. CASE known = {}
      BY <2>1
    <2>2. CASE known # {}
      <3>1. upTo = Min(known) - 1 /\ known \subseteq 1 .. Len(specs)
        BY <2>2
      <3> HIDE DEF known, upTo
      <3> PICK m \in known : m = Min(known) /\ \A j \in known : m <= j
        BY <1>2, <2>2, FirstPlace
      <3> QED
        BY <3>1
    <2> QED
      BY <2>1, <2>2
  <1>4. known # {} => upTo < Len(specs)
    <2> SUFFICES ASSUME known # {} PROVE upTo < Len(specs)
      OBVIOUS
    <2>1. upTo = Min(known) - 1 /\ known \subseteq 1 .. Len(specs)
      OBVIOUS
    <2> HIDE DEF known, upTo
    <2> PICK m \in 1 .. Len(specs) : m = Min(known)
      BY <1>2, <2>1, FirstPlace
    <2>2. upTo = m - 1
      BY <2>1
    <2> QED
      BY <2>2
  <1> HIDE DEF upTo
  <1> PICK n \in 1 .. 2 : n = Len(specs)
    OBVIOUS
  <1> PICK u \in 0 .. n : u = upTo
    BY <1>3
  <1>5. /\ EventsAdded(pilot, period, specs) = {event(j) : j \in 1 .. u}
        /\ \A j \in 1 .. u : j \in DOMAIN specs /\ ~EventKnown(kpiEvents, pilot, specs[j].metric)
    <2>1. \A j \in 1 .. u : j \in DOMAIN specs /\ j \notin known
      BY <1>3
    <2> QED
      BY <1>1, <2>1
  <1> HIDE DEF known
  <1>6. AreFresh(EventsAdded(pilot, period, specs), pilot, period)
    BY <1>5 DEF AreFresh
  <1>7. Cardinality(EventsAdded(pilot, period, specs)) = Len(specs) => u = Len(specs)
    <2> SUFFICES ASSUME Cardinality(EventsAdded(pilot, period, specs)) = n PROVE u = n
      OBVIOUS
    <2> HIDE DEF event
    <2>1. CASE u = 0
      <3>1. EventsAdded(pilot, period, specs) = {}
        BY <1>5, <2>1
      <3>2. Cardinality(EventsAdded(pilot, period, specs)) = 0
        BY <3>1, FS_EmptySet
      <3> QED
        BY <3>2
    <2>2. CASE u = 1
      <3>1. 1 .. u = {1}
        BY <2>2
      <3>2. EventsAdded(pilot, period, specs) = {event(1)}
        BY <1>5, <3>1
      <3>3. Cardinality(EventsAdded(pilot, period, specs)) = 1
        BY <3>2, FS_Singleton
      <3> QED
        BY <2>2, <3>3
    <2>3. CASE u = 2
      BY <2>3
    <2>4. u = 0 \/ u = 1 \/ u = 2
      OBVIOUS
    <2> QED
      BY ONLY <2>1, <2>2, <2>3, <2>4
  <1>8. ASSUME u = Len(specs), NEW i \in DOMAIN specs
        PROVE  \E e \in EventsAdded(pilot, period, specs) :
                  e.batch = pilot /\ e.metric = specs[i].metric /\ e.period = period
    <2>1. event(i) \in EventsAdded(pilot, period, specs)
      BY <1>5, <1>8
    <2> QED
      BY <2>1
  <1> QED
    BY <1>6, <1>7, <1>8

\* The signals a batch records were not known and were audited; if none was known,
\* they are the ones it brought.
LEMMA SignalsFresh ==
    ASSUME NEW kind, NEW pilot, NEW ids \in SignalLists
    PROVE  /\ \A s \in SignalsAdded(kind, pilot, ids) :
                 /\ s.kind = kind /\ s.batch = pilot /\ ~SignalKnown(pilotSignals, kind, s.id)
                 /\ s \in SignalsAudited(kind, pilot, ids)
           /\ \A s, t \in SignalsAdded(kind, pilot, ids) : s = t
           /\ SignalsKnown(kind, ids) = {} =>
                 \A id \in ToSet(ids) :
                    [kind |-> kind, id |-> id, batch |-> pilot] \in SignalsAdded(kind, pilot, ids)
  <1>1. CASE SignalsKnown(kind, ids) = {}
    <2>1. /\ SignalsAdded(kind, pilot, ids) = Signals(kind, pilot, ids, Len(ids))
          /\ SignalsAudited(kind, pilot, ids) = Signals(kind, pilot, ids, Len(ids))
      BY <1>1 DEF SignalsAdded, SignalsAudited
    <2>2. CASE ids = <<>>
      <3>1. Signals(kind, pilot, ids, Len(ids)) = {} /\ ToSet(ids) = {}
        BY <2>2 DEF Signals, ToSet
      <3> QED
        BY <2>1, <3>1
    <2>3. ASSUME NEW s \in SignalIds, ids = <<s>>
          PROVE  Len(ids) = 1 /\ DOMAIN ids = {1} /\ ids[1] = s /\ ToSet(ids) = {s}
      BY <2>3 DEF ToSet
    <2>4. ASSUME NEW s \in SignalIds, ids = <<s>>
          PROVE  /\ SignalsAdded(kind, pilot, ids) = {[kind |-> kind, id |-> s, batch |-> pilot]}
                 /\ SignalsAudited(kind, pilot, ids) = {[kind |-> kind, id |-> s, batch |-> pilot]}
                 /\ ~SignalKnown(pilotSignals, kind, s) /\ ToSet(ids) = {s}
      <3>1. Len(ids) = 1 /\ DOMAIN ids = {1} /\ ids[1] = s /\ ToSet(ids) = {s}
        BY <2>3, <2>4
      <3>2. Signals(kind, pilot, ids, Len(ids)) = {[kind |-> kind, id |-> s, batch |-> pilot]}
        BY <3>1 DEF Signals
      <3>3. ~SignalKnown(pilotSignals, kind, s)
        BY <1>1, <3>1 DEF SignalsKnown
      <3> QED
        BY <2>1, <3>1, <3>2, <3>3
    <2>5. CASE \E s \in SignalIds : ids = <<s>>
      <3> PICK s \in SignalIds : ids = <<s>>
        BY <2>5
      <3> QED
        BY <2>4
    <2> QED
      BY <2>2, <2>5 DEF SignalLists
  <1>2. CASE SignalsKnown(kind, ids) # {}
    <2>1. SignalsKnown(kind, ids) \in SUBSET {1}
      <3>1. DOMAIN ids \subseteq {1}
        BY DEF SignalLists
      <3> QED
        BY <3>1 DEF SignalsKnown
    <2>2. SignalsKnown(kind, ids) = {1}
      BY <1>2, <2>1
    <2>3. Min(SignalsKnown(kind, ids)) = 1
      BY <2>2, FirstPlace
    <2>4. SignalsAdded(kind, pilot, ids) = {}
      BY <1>2, <2>3 DEF SignalsAdded, Signals
    <2> QED
      BY <1>2, <2>4
  <1> QED
    BY <1>1, <1>2

\* The log grows at its end.
LEMMA LogGrows ==
    ASSUME IterationsTyped, NEW entry \in AnalyticsEntries,
           analyticsAudit' = Append(analyticsAudit, entry)
    PROVE  /\ analyticsAudit' \in Seq(AnalyticsEntries)
           /\ Len(analyticsAudit) \in Nat
           /\ DOMAIN analyticsAudit = 1 .. Len(analyticsAudit)
           /\ DOMAIN analyticsAudit' = 1 .. (Len(analyticsAudit) + 1)
           /\ \A i \in DOMAIN analyticsAudit : analyticsAudit'[i] = analyticsAudit[i]
           /\ analyticsAudit'[Len(analyticsAudit) + 1] = entry
  BY DEF IterationsTyped

\* What was measured had been decided.
LEMMA MeasuredWasDecided ==
    ASSUME IterationsTyped, CouncilDecidesOnce, NEW i \in DOMAIN analyticsAudit, NEW id,
           MeasuredAt(i, id)
    PROVE  \E k \in DOMAIN analyticsAudit : DecidedAt(k, id)
  <1> PICK k \in 1 .. (i - 1) : /\ "decided" \in DOMAIN analyticsAudit[k]
                                /\ analyticsAudit[k].decided = id
    BY DEF CouncilDecidesOnce, MeasuredAt
  <1> PICK n \in Nat : DOMAIN analyticsAudit = 1 .. n
    BY DEF IterationsTyped
  <1> QED
    BY DEF DecidedAt

\* An entry that is no measurement leaves the effects shown as they were.
LEMMA EffectsStillShown ==
    ASSUME IterationsTyped, LatestEffectIsShown,
           NEW entry \in AnalyticsEntries, "measured" \notin DOMAIN entry,
           analyticsAudit' = Append(analyticsAudit, entry),
           \A x \in iterations' : \/ x \in iterations
                                  \/ \A i \in DOMAIN analyticsAudit : ~MeasuredAt(i, x.iteration_id)
    PROVE  LatestEffectIsShown'
  <1> PICK n \in Nat : n = Len(analyticsAudit)
    BY DEF IterationsTyped
  <1>1. /\ DOMAIN analyticsAudit = 1 .. n /\ DOMAIN analyticsAudit' = 1 .. (n + 1)
        /\ \A i \in 1 .. n : analyticsAudit'[i] = analyticsAudit[i]
        /\ analyticsAudit'[n + 1] = entry
    BY LogGrows
  <1> SUFFICES ASSUME NEW x \in iterations', NEW i \in DOMAIN analyticsAudit',
                      MeasuredAt(i, x.iteration_id)',
                      \A j \in DOMAIN analyticsAudit' : MeasuredAt(j, x.iteration_id)' => j <= i
               PROVE  /\ x.effect = analyticsAudit'[i].effect
                      /\ x.status = IF x.effect = "degraded" THEN "rollback_required"
                                    ELSE "effect_measured"
    BY DEF LatestEffectIsShown, MeasuredAt
  <1>2. i \in 1 .. n /\ analyticsAudit'[i] = analyticsAudit[i] /\ MeasuredAt(i, x.iteration_id)
    BY <1>1 DEF MeasuredAt
  <1>3. x \in iterations
    BY <1>1, <1>2
  <1>4. ASSUME NEW j \in 1 .. n, MeasuredAt(j, x.iteration_id) PROVE j <= i
    <2>1. j \in DOMAIN analyticsAudit' /\ MeasuredAt(j, x.iteration_id)'
      BY <1>1, <1>4 DEF MeasuredAt
    <2> QED
      BY <2>1
  <1> QED
    BY <1>1, <1>2, <1>3, <1>4 DEF LatestEffectIsShown, MeasuredAt

\* An entry about neither a decision nor a measurement changes nothing for them.
LEMMA PlainEntry ==
    ASSUME IterationsTyped, DecisionsLogged, CouncilDecidesOnce, LatestEffectIsShown,
           NEW entry \in [batch : BatchIds] \cup [created : IterationIds],
           analyticsAudit' = Append(analyticsAudit, entry),
           iterations' = iterations
             \/ \E x \in iterations' : /\ iterations' = iterations \cup {x} /\ x.decision # "approved"
                                       /\ ~IterationKnown(x.iteration_id)
    PROVE  /\ analyticsAudit' \in Seq(AnalyticsEntries)
           /\ DecisionsLogged' /\ CouncilDecidesOnce' /\ LatestEffectIsShown'
  <1> DEFINE n == Len(analyticsAudit)
  <1>1. /\ entry \in AnalyticsEntries
        /\ "decided" \notin DOMAIN entry /\ "measured" \notin DOMAIN entry
    BY DEF AnalyticsEntries
  <1>2. /\ analyticsAudit' \in Seq(AnalyticsEntries)
        /\ n \in Nat /\ DOMAIN analyticsAudit = 1 .. n /\ DOMAIN analyticsAudit' = 1 .. (n + 1)
        /\ \A i \in 1 .. n : analyticsAudit'[i] = analyticsAudit[i]
        /\ analyticsAudit'[n + 1] = entry
    BY <1>1, LogGrows
  <1> HIDE DEF n
  <1>3. \A i \in DOMAIN analyticsAudit' :
           "decided" \in DOMAIN analyticsAudit'[i] \/ "measured" \in DOMAIN analyticsAudit'[i] =>
              i \in DOMAIN analyticsAudit /\ analyticsAudit'[i] = analyticsAudit[i]
    BY <1>1, <1>2
  <1>4. CouncilDecidesOnce'
    <2>1. \A i \in DOMAIN analyticsAudit : \A k \in 1 .. (i - 1) :
             k \in DOMAIN analyticsAudit /\ analyticsAudit'[k] = analyticsAudit[k]
      BY <1>2
    <2> SUFFICES ASSUME NEW i \in DOMAIN analyticsAudit', NEW j \in DOMAIN analyticsAudit'
                 PROVE  /\ /\ "decided" \in DOMAIN analyticsAudit'[i]
                           /\ "decided" \in DOMAIN analyticsAudit'[j]
                           /\ analyticsAudit'[i].decided = analyticsAudit'[j].decided
                           => i = j
                        /\ "measured" \in DOMAIN analyticsAudit'[i] =>
                              \E k \in 1 .. (i - 1) :
                                 /\ "decided" \in DOMAIN analyticsAudit'[k]
                                 /\ analyticsAudit'[k].decided = analyticsAudit'[i].measured
                                 /\ analyticsAudit'[k].decision = "approved"
      BY DEF CouncilDecidesOnce
    <2>2. /\ "decided" \in DOMAIN analyticsAudit'[i]
          /\ "decided" \in DOMAIN analyticsAudit'[j]
          /\ analyticsAudit'[i].decided = analyticsAudit'[j].decided
          => i = j
      BY <1>3 DEF CouncilDecidesOnce
    <2>3. ASSUME "measured" \in DOMAIN analyticsAudit'[i]
          PROVE  \E k \in 1 .. (i - 1) :
                    /\ "decided" \in DOMAIN analyticsAudit'[k]
                    /\ analyticsAudit'[k].decided = analyticsAudit'[i].measured
                    /\ analyticsAudit'[k].decision = "approved"
      <3>1. i \in DOMAIN analyticsAudit /\ analyticsAudit'[i] = analyticsAudit[i]
        BY <1>3, <2>3
      <3>2. PICK k \in 1 .. (i - 1) : /\ "decided" \in DOMAIN analyticsAudit[k]
                                      /\ analyticsAudit[k].decided = analyticsAudit[i].measured
                                      /\ analyticsAudit[k].decision = "approved"
        BY <2>3, <3>1 DEF CouncilDecidesOnce
      <3> QED
        BY <2>1, <3>1, <3>2
    <2> QED
      BY <2>2, <2>3
  <1>5. DecisionsLogged'
    <2>1. \A x \in iterations : x \in iterations'
      OBVIOUS
    <2>2. \A x \in iterations' : x.decision = "approved" => x \in iterations
      OBVIOUS
    <2>3. \A i \in DOMAIN analyticsAudit' : "decided" \in DOMAIN analyticsAudit'[i] =>
             \E x \in iterations' : /\ x.iteration_id = analyticsAudit'[i].decided
                                    /\ x.status # "awaiting_council"
      BY <1>3, <2>1 DEF DecisionsLogged
    <2>4. \A i \in DOMAIN analyticsAudit : i \in DOMAIN analyticsAudit' /\ analyticsAudit'[i] = analyticsAudit[i]
      BY <1>2
    <2>5. \A x \in iterations' : x.decision = "approved" =>
             \E i \in DOMAIN analyticsAudit' :
                DecidedAt(i, x.iteration_id)' /\ analyticsAudit'[i].decision = "approved"
      BY <2>2, <2>4 DEF DecisionsLogged, DecidedAt
    <2> QED
      BY <2>3, <2>5 DEF DecisionsLogged, DecidedAt
  <1>6. LatestEffectIsShown'
    <2>1. ASSUME NEW x \in iterations', NEW i \in DOMAIN analyticsAudit, x \notin iterations,
                 MeasuredAt(i, x.iteration_id)
          PROVE  FALSE
      <3>1. PICK k \in DOMAIN analyticsAudit : DecidedAt(k, x.iteration_id)
        BY <2>1, MeasuredWasDecided
      <3>2. IterationKnown(x.iteration_id)
        BY <3>1 DEF DecisionsLogged, DecidedAt, IterationKnown
      <3> QED
        BY <2>1, <3>2
    <2> QED
      BY <1>1, <2>1, EffectsStillShown
  <1> QED
    BY <1>2, <1>4, <1>5, <1>6

\* Batches that are listed stay whole while indicators and signals are added.
LEMMA BatchesStayWhole ==
    ASSUME BatchesAreWhole, pilotBatches' = pilotBatches,
           kpiEvents \subseteq kpiEvents', pilotSignals \subseteq pilotSignals'
    PROVE  BatchesAreWhole'
  BY DEF BatchesAreWhole

\* Single indicators and batches, whole or cut short.
LEMMA EventStep ==
    ASSUME AnalyticsInv, NEW pilot \in BatchIds, NEW metric \in Metrics,
           NEW period \in Periods, NEW value, RecordEvent(pilot, metric, period, value)
    PROVE  AnalyticsInv'
  <1>1. /\ UNCHANGED <<pilotBatches, pilotSignals, signalAudit, analyticsAudit, iterations>>
        /\ kpiEvents' = kpiEvents \cup {[batch |-> pilot, metric |-> metric,
                                         period |-> period, value |-> value]}
        /\ ~EventKnown(kpiEvents, pilot, metric)
    BY DEF RecordEvent
  <1>2. IterationsTyped'
    BY <1>1 DEF AnalyticsInv, IterationsTyped
  <1>3. IdsCountOnce'
    BY <1>1 DEF AnalyticsInv, IdsCountOnce, EventKnown
  <1>4. BatchesAreWhole'
    BY <1>1, BatchesStayWhole DEF AnalyticsInv
  <1>5. DecisionsLogged' /\ CouncilDecidesOnce' /\ LatestEffectIsShown'
    BY <1>1 DEF AnalyticsInv, DecisionsLogged, DecidedAt, CouncilDecidesOnce, LatestEffectIsShown
  <1> QED
    BY <1>2, <1>3, <1>4, <1>5 DEF AnalyticsInv

LEMMA BatchStep ==
    ASSUME AnalyticsInv, NEW pilot \in BatchIds, NEW period \in Periods,
           NEW specs, Indicators(specs), NEW usage \in SignalLists, NEW incidents \in SignalLists,
           CollectBatch(pilot, period, specs, usage, incidents)
    PROVE  AnalyticsInv'
  <1>0. /\ AreFresh(EventsAdded(pilot, period, specs), pilot, period)
        /\ Cardinality(EventsAdded(pilot, period, specs)) = Len(specs) =>
              \A i \in DOMAIN specs : \E e \in EventsAdded(pilot, period, specs) :
                 e.batch = pilot /\ e.metric = specs[i].metric /\ e.period = period
    BY EventsFresh
  <1> DEFINE fresh == EventsAdded(pilot, period, specs)
             eventsDone == Cardinality(fresh) = Len(specs)
             usageDone == eventsDone /\ SignalsKnown("usage", usage) = {}
             whole == usageDone /\ SignalsKnown("incident", incidents) = {}
             used == SignalsAdded("usage", pilot, usage)
             met == SignalsAdded("incident", pilot, incidents)
             listed == [batch_id |-> pilot, period |-> period,
                        metrics |-> {specs[i].metric : i \in DOMAIN specs},
                        usage |-> ToSet(usage), incidents |-> ToSet(incidents)]
  <1>1. /\ kpiEvents' = kpiEvents \cup fresh
        /\ whole => /\ pilotBatches' = pilotBatches \cup {listed}
                    /\ analyticsAudit' = Append(analyticsAudit, [batch |-> pilot])
        /\ ~whole => UNCHANGED <<pilotBatches, analyticsAudit>>
        /\ iterations' = iterations /\ ~BatchKnown(pilot)
    BY DEF CollectBatch
  <1>2. /\ pilotSignals \subseteq pilotSignals'
        /\ \A s \in pilotSignals' : s \in pilotSignals \/ (s \in used /\ eventsDone)
                                                     \/ (s \in met /\ usageDone)
        /\ whole => used \subseteq pilotSignals' /\ met \subseteq pilotSignals'
    BY DEF CollectBatch
  <1>3. /\ signalAudit \subseteq signalAudit'
        /\ eventsDone => SignalsAudited("usage", pilot, usage) \subseteq signalAudit'
        /\ usageDone => SignalsAudited("incident", pilot, incidents) \subseteq signalAudit'
    BY DEF CollectBatch
  <1>4. /\ \A e \in fresh : /\ e.batch = pilot /\ e.period = period
                             /\ ~EventKnown(kpiEvents, pilot, e.metric)
                             /\ e.metric \in Metrics
        /\ \A e, f \in fresh : e.metric = f.metric => e = f
        /\ whole => \A i \in DOMAIN specs : \E e \in fresh :
              e.batch = pilot /\ e.metric = specs[i].metric /\ e.period = period
    <2>0. AreFresh(fresh, pilot, period)
      BY <1>0
    <2>1. whole => eventsDone
      OBVIOUS
    <2>2. eventsDone => Cardinality(fresh) = Len(specs)
      OBVIOUS
    <2> HIDE DEF eventsDone, whole
    <2>3. whole => \A i \in DOMAIN specs : \E e \in fresh :
             e.batch = pilot /\ e.metric = specs[i].metric /\ e.period = period
      BY <1>0, <2>1, <2>2
    <2> QED
      BY <2>0, <2>3 DEF AreFresh
  <1>5. /\ \A s \in used : /\ s.kind = "usage" /\ s.batch = pilot
                            /\ ~SignalKnown(pilotSignals, "usage", s.id)
                            /\ s \in SignalsAudited("usage", pilot, usage)
        /\ \A s, t \in used : s = t
        /\ whole => \A id \in ToSet(usage) :
              [kind |-> "usage", id |-> id, batch |-> pilot] \in used
    BY SignalsFresh
  <1>6. /\ \A s \in met : /\ s.kind = "incident" /\ s.batch = pilot
                           /\ ~SignalKnown(pilotSignals, "incident", s.id)
                           /\ s \in SignalsAudited("incident", pilot, incidents)
        /\ \A s, t \in met : s = t
        /\ whole => \A id \in ToSet(incidents) :
              [kind |-> "incident", id |-> id, batch |-> pilot] \in met
    BY SignalsFresh
  <1> HIDE DEF fresh, used, met, eventsDone, usageDone, whole
  <1>7. /\ analyticsAudit' \in Seq(AnalyticsEntries)
        /\ DecisionsLogged' /\ CouncilDecidesOnce' /\ LatestEffectIsShown'
    <2>1. CASE whole
      <3>1. [batch |-> pilot] \in [batch : BatchIds] \cup [created : IterationIds]
        OBVIOUS
      <3> HIDE DEF listed
      <3> QED
        BY <1>1, <2>1, <3>1, PlainEntry DEF AnalyticsInv
    <2>2. CASE ~whole
      BY <1>1, <2>2 DEF AnalyticsInv, IterationsTyped, DecisionsLogged, DecidedAt,
                        CouncilDecidesOnce, LatestEffectIsShown
    <2> QED
      BY <2>1, <2>2
  <1>8. IdsCountOnce'
    <2>1. ASSUME NEW e \in kpiEvents', NEW f \in kpiEvents',
                 e.batch = f.batch /\ e.metric = f.metric
          PROVE  e = f
      BY <1>1, <1>4, <2>1 DEF AnalyticsInv, IdsCountOnce, EventKnown
    <2>2. ASSUME NEW s \in pilotSignals', NEW t \in pilotSignals',
                 s.kind = t.kind /\ s.id = t.id
          PROVE  s = t
      BY <1>2, <1>5, <1>6, <2>2 DEF AnalyticsInv, IdsCountOnce, SignalKnown
    <2>3. ASSUME NEW b \in pilotBatches', NEW c \in pilotBatches', b.batch_id = c.batch_id
          PROVE  b = c
      <3>1. listed.batch_id = pilot
        OBVIOUS
      <3> HIDE DEF listed
      <3> QED
        BY <1>1, <2>3, <3>1 DEF AnalyticsInv, IdsCountOnce, BatchKnown
    <2> QED
      BY <2>1, <2>2, <2>3 DEF IdsCountOnce
  <1>9. BatchesAreWhole'
    <2>1. CASE ~whole
      BY <1>1, <1>2, <2>1, BatchesStayWhole DEF AnalyticsInv
    <2>2. CASE whole
      <3>1. ASSUME NEW metric \in listed.metrics
            PROVE  \E e \in kpiEvents' :
                      e.batch = listed.batch_id /\ e.metric = metric /\ e.period = listed.period
        BY <1>1, <1>4, <2>2, <3>1
      <3>2. ASSUME NEW id \in listed.usage
            PROVE  [kind |-> "usage", id |-> id, batch |-> listed.batch_id] \in pilotSignals'
        BY <1>2, <1>5, <2>2, <3>2
      <3>3. ASSUME NEW id \in listed.incidents
            PROVE  [kind |-> "incident", id |-> id, batch |-> listed.batch_id] \in pilotSignals'
        BY <1>2, <1>6, <2>2, <3>3
      <3> HIDE DEF listed
      <3>4. \A b \in pilotBatches' : b \in pilotBatches \/ b = listed
        BY <1>1, <2>2
      <3>5. kpiEvents \subseteq kpiEvents'
        BY <1>1
      <3> QED
        BY <1>2, <3>1, <3>2, <3>3, <3>4, <3>5 DEF AnalyticsInv, BatchesAreWhole
    <2> QED
      BY <2>1, <2>2
  <1>10. \A s \in pilotSignals' : s.batch \in BatchIds /\ s \in signalAudit'
    BY <1>2, <1>3, <1>5, <1>6 DEF AnalyticsInv, IterationsTyped
  <1>11. IterationsTyped'
    BY <1>1, <1>4, <1>7, <1>10 DEF AnalyticsInv, IterationsTyped
  <1> QED
    BY <1>7, <1>8, <1>9, <1>11 DEF AnalyticsInv

\* One iteration takes the place of the one with its id.
LEMMA IterationFound ==
    ASSUME NEW id, IterationKnown(id)
    PROVE  IterationOf(id) \in iterations /\ IterationOf(id).iteration_id = id
  BY DEF IterationKnown, IterationOf

LEMMA IterationSaved ==
    ASSUME IterationsTyped, NEW id, IterationKnown(id), NEW record,
           DOMAIN record = IterationFields, record.iteration_id = id,
           record.measurements \in 0 .. MaxMeasurements, SaveIteration(record)
    PROVE  /\ \A x \in iterations' : x = record \/ (x \in iterations /\ x.iteration_id # id)
           /\ \A x \in iterations : x.iteration_id # id => x \in iterations'
           /\ record \in iterations'
           /\ \A x \in iterations' : /\ DOMAIN x = IterationFields
                                     /\ x.measurements \in 0 .. MaxMeasurements
                                     /\ x.iteration_id \in IterationIds
                                     /\ \A y \in iterations' : x.iteration_id = y.iteration_id => x = y
  <1>1. /\ \A x \in iterations' : x = record \/ (x \in iterations /\ x.iteration_id # id)
        /\ \A x \in iterations : x.iteration_id # id => x \in iterations'
        /\ record \in iterations'
    <2>1. iterations' = {x \in iterations : x.iteration_id # id} \cup {record}
      BY DEF SaveIteration
    <2> QED
      BY <2>1
  <1>2. id \in IterationIds
    BY IterationFound DEF IterationsTyped
  <1> QED
    BY <1>1, <1>2 DEF IterationsTyped

LEMMA CreateStep ==
    ASSUME AnalyticsInv, NEW id \in IterationIds,
           NEW period \in Periods, CreateIteration(id, period)
    PROVE  AnalyticsInv'
  <1> DEFINE record == [iteration_id |-> id, proposals |-> Proposals(period), measurements |-> 0,
                      decision |-> IF Proposals(period) = {} THEN "not_required" ELSE "pending",
                      status |-> IF Proposals(period) = {} THEN "monitoring_only"
                                 ELSE "awaiting_council",
                      effect |-> "pending"]
  <1>1. /\ UNCHANGED <<kpiEvents, pilotBatches, pilotSignals, signalAudit>>
        /\ iterations' = iterations \cup {record} /\ ~IterationKnown(id)
        /\ analyticsAudit' = Append(analyticsAudit, [created |-> id])
    BY DEF CreateIteration
  <1>2. /\ DOMAIN record = IterationFields /\ record.iteration_id = id /\ record.measurements = 0
        /\ record.decision # "approved"
    BY DEF IterationFields
  <1>3. [created |-> id] \in [batch : BatchIds] \cup [created : IterationIds]
    OBVIOUS
  <1> HIDE DEF record
  <1>4. /\ analyticsAudit' \in Seq(AnalyticsEntries)
        /\ DecisionsLogged' /\ CouncilDecidesOnce' /\ LatestEffectIsShown'
    <2>1. \E x \in iterations' : /\ iterations' = iterations \cup {x} /\ x.decision # "approved"
                                 /\ ~IterationKnown(x.iteration_id)
      BY <1>1, <1>2
    <2> QED
      BY <1>1, <1>3, <2>1, PlainEntry DEF AnalyticsInv
  <1>5. IterationsTyped'
    BY <1>1, <1>2, <1>4, MeasurementsAssumption DEF AnalyticsInv, IterationsTyped, IterationKnown
  <1>6. BatchesAreWhole' /\ IdsCountOnce'
    BY <1>1 DEF AnalyticsInv, BatchesAreWhole, IdsCountOnce
  <1> QED
    BY <1>4, <1>5, <1>6 DEF AnalyticsInv

LEMMA ApproveStep ==
    ASSUME AnalyticsInv, NEW id \in IterationIds, NEW decision \in {"approved", "rejected"},
           ApproveIteration(id, decision)
    PROVE  AnalyticsInv'
  <1> PICK old \in iterations : old = IterationOf(id) /\ old.iteration_id = id
    BY IterationFound DEF ApproveIteration
  <1> DEFINE proposals == {[p EXCEPT !.status = decision] : p \in old.proposals}
             record == [old EXCEPT !.status = decision, !.decision = decision,
                                   !.proposals = proposals]
             entry == [decided |-> id, decision |-> decision]
             n == Len(analyticsAudit)
  <1>1. /\ UNCHANGED <<kpiEvents, pilotBatches, pilotSignals, signalAudit>>
        /\ IterationKnown(id) /\ old.status = "awaiting_council"
        /\ analyticsAudit' = Append(analyticsAudit, entry)
    BY DEF ApproveIteration, MayDecide
  <1>2. SaveIteration(record)
    BY DEF ApproveIteration
  <1> HIDE DEF proposals
  <1>3. /\ DOMAIN record = IterationFields /\ record.iteration_id = id
        /\ record.measurements \in 0 .. MaxMeasurements
        /\ record.status = decision /\ record.decision = decision
    BY DEF AnalyticsInv, IterationsTyped, IterationFields
  <1> HIDE DEF record
  <1>4. /\ \A x \in iterations' : x = record \/ (x \in iterations /\ x.iteration_id # id)
        /\ \A x \in iterations : x.iteration_id # id => x \in iterations'
        /\ record \in iterations'
        /\ \A x \in iterations' : /\ DOMAIN x = IterationFields
                                  /\ x.measurements \in 0 .. MaxMeasurements
                                  /\ x.iteration_id \in IterationIds
                                  /\ \A y \in iterations' : x.iteration_id = y.iteration_id => x = y
    BY <1>1, <1>2, <1>3, IterationSaved DEF AnalyticsInv
  <1>5. entry \in AnalyticsEntries /\ "decided" \in DOMAIN entry /\ "measured" \notin DOMAIN entry
        /\ entry.decided = id /\ entry.decision = decision
    BY DEF AnalyticsEntries
  <1> HIDE DEF entry
  <1>6. /\ analyticsAudit' \in Seq(AnalyticsEntries)
        /\ n \in Nat /\ DOMAIN analyticsAudit = 1 .. n /\ DOMAIN analyticsAudit' = 1 .. (n + 1)
        /\ \A i \in 1 .. n : analyticsAudit'[i] = analyticsAudit[i]
        /\ analyticsAudit'[n + 1] = entry
    BY <1>1, <1>5, LogGrows DEF AnalyticsInv
  <1> HIDE DEF n
  <1>7. \A i \in 1 .. n : "decided" \in DOMAIN analyticsAudit[i] => analyticsAudit[i].decided # id
    BY <1>1, <1>6 DEF AnalyticsInv, DecisionsLogged, IterationsTyped
  <1>8. CouncilDecidesOnce'
    <2>1. ASSUME NEW i \in 1 .. (n + 1), NEW j \in 1 .. (n + 1),
                 "decided" \in DOMAIN analyticsAudit'[i], "decided" \in DOMAIN analyticsAudit'[j],
                 analyticsAudit'[i].decided = analyticsAudit'[j].decided
          PROVE  i = j
      <3>1. CASE i \in 1 .. n /\ j \in 1 .. n
        BY <1>6, <2>1, <3>1 DEF AnalyticsInv, CouncilDecidesOnce
      <3>2. CASE i = n + 1 /\ j \in 1 .. n
        BY <1>5, <1>6, <1>7, <2>1, <3>2
      <3>3. CASE i \in 1 .. n /\ j = n + 1
        BY <1>5, <1>6, <1>7, <2>1, <3>3
      <3> QED
        BY <1>6, <3>1, <3>2, <3>3
    <2>2. ASSUME NEW i \in 1 .. (n + 1), "measured" \in DOMAIN analyticsAudit'[i]
          PROVE  \E k \in 1 .. (i - 1) :
                    /\ "decided" \in DOMAIN analyticsAudit'[k]
                    /\ analyticsAudit'[k].decided = analyticsAudit'[i].measured
                    /\ analyticsAudit'[k].decision = "approved"
      <3>1. i \in 1 .. n /\ analyticsAudit'[i] = analyticsAudit[i]
        BY <1>5, <1>6, <2>2
      <3>2. PICK k \in 1 .. (i - 1) : /\ "decided" \in DOMAIN analyticsAudit[k]
                                      /\ analyticsAudit[k].decided = analyticsAudit[i].measured
                                      /\ analyticsAudit[k].decision = "approved"
        BY <1>6, <2>2, <3>1 DEF AnalyticsInv, CouncilDecidesOnce
      <3>3. k \in 1 .. n
        BY <1>6, <3>1
      <3> QED
        BY <1>6, <3>1, <3>2, <3>3
    <2> QED
      BY <1>6, <2>1, <2>2 DEF CouncilDecidesOnce
  <1>9. DecisionsLogged'
    <2>1. ASSUME NEW i \in 1 .. (n + 1), "decided" \in DOMAIN analyticsAudit'[i]
          PROVE  \E x \in iterations' : /\ x.iteration_id = analyticsAudit'[i].decided
                                        /\ x.status # "awaiting_council"
      <3>1. CASE i \in 1 .. n
        BY <1>4, <1>6, <1>7, <2>1, <3>1 DEF AnalyticsInv, DecisionsLogged
      <3>2. CASE i = n + 1
        BY <1>3, <1>4, <1>5, <1>6, <3>2
      <3> QED
        BY <1>6, <3>1, <3>2
    <2>2. ASSUME NEW x \in iterations', x.decision = "approved"
          PROVE  \E i \in DOMAIN analyticsAudit' :
                    DecidedAt(i, x.iteration_id)' /\ analyticsAudit'[i].decision = "approved"
      <3>1. CASE x = record
        <4>1. n + 1 \in DOMAIN analyticsAudit'
          BY <1>6
        <4> QED
          BY <1>3, <1>5, <1>6, <2>2, <3>1, <4>1 DEF DecidedAt
      <3>2. CASE x \in iterations
        <4>1. PICK i \in 1 .. n : DecidedAt(i, x.iteration_id) /\ analyticsAudit[i].decision = "approved"
          BY <1>6, <2>2, <3>2 DEF AnalyticsInv, DecisionsLogged
        <4>2. i \in DOMAIN analyticsAudit'
          BY <1>6, <4>1
        <4> QED
          BY <1>6, <4>1, <4>2 DEF DecidedAt
      <3> QED
        BY <1>4, <3>1, <3>2
    <2> QED
      BY <1>6, <2>1, <2>2 DEF DecisionsLogged, DecidedAt
  <1>10. IterationsTyped'
    BY <1>1, <1>4, <1>6 DEF AnalyticsInv, IterationsTyped
  <1>11. BatchesAreWhole' /\ IdsCountOnce'
    BY <1>1 DEF AnalyticsInv, BatchesAreWhole, IdsCountOnce
  <1>12. LatestEffectIsShown'
    <2>1. \A i \in DOMAIN analyticsAudit : ~MeasuredAt(i, record.iteration_id)
      <3> SUFFICES ASSUME NEW i \in DOMAIN analyticsAudit, MeasuredAt(i, id) PROVE FALSE
        BY <1>3
      <3> PICK k \in DOMAIN analyticsAudit : DecidedAt(k, id)
        BY MeasuredWasDecided DEF AnalyticsInv
      <3> QED
        BY <1>6, <1>7 DEF DecidedAt
    <2>2. \A x \in iterations' : \/ x \in iterations
                                \/ \A i \in DOMAIN analyticsAudit : ~MeasuredAt(i, x.iteration_id)
      BY <1>4, <2>1
    <2> QED
      BY <1>1, <1>5, <2>2, EffectsStillShown DEF AnalyticsInv
  <1> QED
    BY <1>8, <1>9, <1>10, <1>11, <1>12 DEF AnalyticsInv

LEMMA MeasureStep ==
    ASSUME AnalyticsInv, NEW id \in IterationIds,
           NEW period \in Periods, MeasureEffect(id, period)
    PROVE  AnalyticsInv'
  <1> PICK old \in iterations : old = IterationOf(id) /\ old.iteration_id = id
    BY IterationFound DEF MeasureEffect
  <1> PICK measured : measured = Measured(old.proposals, period)
    OBVIOUS
  <1> PICK overall \in Effects : overall = OverallEffect(measured)
    BY DEF Effects, OverallEffect
  <1> DEFINE record == [old EXCEPT !.proposals = measured, !.effect = overall,
                 !.measurements = @ + 1,
                 !.status = IF overall = "degraded" THEN "rollback_required" ELSE "effect_measured"]
             entry == [measured |-> id, effect |-> overall]
             n == Len(analyticsAudit)
  <1>1. /\ UNCHANGED <<kpiEvents, pilotBatches, pilotSignals, signalAudit>>
        /\ IterationKnown(id) /\ old.decision = "approved"
        /\ old.measurements < MaxMeasurements
        /\ analyticsAudit' = Append(analyticsAudit, entry)
    BY DEF MeasureEffect, MayMeasure
  <1>2. SaveIteration(record)
    BY DEF MeasureEffect
  <1>3. /\ DOMAIN record = IterationFields /\ record.iteration_id = id
        /\ record.measurements \in 0 .. MaxMeasurements
        /\ record.status # "awaiting_council" /\ record.decision = "approved"
        /\ record.effect = overall
        /\ record.status = IF overall = "degraded" THEN "rollback_required" ELSE "effect_measured"
    BY <1>1, MeasurementsAssumption DEF AnalyticsInv, IterationsTyped, IterationFields
  <1> HIDE DEF record
  <1>4. /\ \A x \in iterations' : x = record \/ (x \in iterations /\ x.iteration_id # id)
        /\ \A x \in iterations : x.iteration_id # id => x \in iterations'
        /\ record \in iterations'
        /\ \A x \in iterations' : /\ DOMAIN x = IterationFields
                                  /\ x.measurements \in 0 .. MaxMeasurements
                                  /\ x.iteration_id \in IterationIds
                                  /\ \A y \in iterations' : x.iteration_id = y.iteration_id => x = y
    BY <1>1, <1>2, <1>3, IterationSaved DEF AnalyticsInv
  <1>5. entry \in AnalyticsEntries /\ "decided" \notin DOMAIN entry /\ "measured" \in DOMAIN entry
        /\ entry.measured = id /\ entry.effect = overall
    BY DEF AnalyticsEntries
  <1> HIDE DEF entry
  <1>6. /\ analyticsAudit' \in Seq(AnalyticsEntries)
        /\ n \in Nat /\ DOMAIN analyticsAudit = 1 .. n /\ DOMAIN analyticsAudit' = 1 .. (n + 1)
        /\ \A i \in 1 .. n : analyticsAudit'[i] = analyticsAudit[i]
        /\ analyticsAudit'[n + 1] = entry
    BY <1>1, <1>5, LogGrows DEF AnalyticsInv
  <1> HIDE DEF n
  <1>7. \A x \in iterations : x.decision = "approved" =>
           \E k \in 1 .. n : /\ "decided" \in DOMAIN analyticsAudit'[k]
                             /\ analyticsAudit'[k].decided = x.iteration_id
                             /\ analyticsAudit'[k].decision = "approved"
    BY <1>6 DEF AnalyticsInv, DecisionsLogged, DecidedAt
  <1>8. CouncilDecidesOnce'
    <2>1. ASSUME NEW i \in 1 .. (n + 1), NEW j \in 1 .. (n + 1),
                 "decided" \in DOMAIN analyticsAudit'[i], "decided" \in DOMAIN analyticsAudit'[j],
                 analyticsAudit'[i].decided = analyticsAudit'[j].decided
          PROVE  i = j
      <3>1. i \in 1 .. n /\ j \in 1 .. n
        BY <1>5, <1>6, <2>1
      <3> QED
        BY <1>6, <2>1, <3>1 DEF AnalyticsInv, CouncilDecidesOnce
    <2>2. ASSUME NEW i \in 1 .. (n + 1), "measured" \in DOMAIN analyticsAudit'[i]
          PROVE  \E k \in 1 .. (i - 1) :
                    /\ "decided" \in DOMAIN analyticsAudit'[k]
                    /\ analyticsAudit'[k].decided = analyticsAudit'[i].measured
                    /\ analyticsAudit'[k].decision = "approved"
      <3>1. CASE i \in 1 .. n
        <4>1. PICK k \in 1 .. (i - 1) : /\ "decided" \in DOMAIN analyticsAudit[k]
                                        /\ analyticsAudit[k].decided = analyticsAudit[i].measured
                                        /\ analyticsAudit[k].decision = "approved"
          BY <1>6, <2>2, <3>1 DEF AnalyticsInv, CouncilDecidesOnce
        <4>2. k \in 1 .. n
          BY <1>6, <3>1
        <4> QED
          BY <1>6, <3>1, <4>1, <4>2
      <3>2. CASE i = n + 1
        <4>1. analyticsAudit'[i].measured = id /\ 1 .. (i - 1) = 1 .. n
          BY <1>5, <1>6, <3>2
        <4> QED
          BY <1>1, <1>7, <4>1
      <3> QED
        BY <1>6, <3>1, <3>2
    <2> QED
      BY <1>6, <2>1, <2>2 DEF CouncilDecidesOnce
  <1>9. DecisionsLogged'
    <2>1. ASSUME NEW i \in 1 .. (n + 1), "decided" \in DOMAIN analyticsAudit'[i]
          PROVE  \E x \in iterations' : /\ x.iteration_id = analyticsAudit'[i].decided
                                        /\ x.status # "awaiting_council"
      <3>1. i \in 1 .. n
        BY <1>5, <1>6, <2>1
      <3>2. PICK x \in iterations : /\ x.iteration_id = analyticsAudit[i].decided
                                    /\ x.status # "awaiting_council"
        BY <1>6, <2>1, <3>1 DEF AnalyticsInv, DecisionsLogged
      <3> QED
        BY <1>3, <1>4, <1>6, <3>1, <3>2
    <2>2. ASSUME NEW x \in iterations', x.decision = "approved"
          PROVE  \E i \in DOMAIN analyticsAudit' :
                    DecidedAt(i, x.iteration_id)' /\ analyticsAudit'[i].decision = "approved"
      <3>1. \E y \in iterations : y.decision = "approved" /\ y.iteration_id = x.iteration_id
        BY <1>1, <1>3, <1>4, <2>2
      <3>2. PICK i \in 1 .. n : /\ "decided" \in DOMAIN analyticsAudit'[i]
                                /\ analyticsAudit'[i].decided = x.iteration_id
                                /\ analyticsAudit'[i].decision = "approved"
        BY <1>7, <3>1
      <3>3. i \in DOMAIN analyticsAudit'
        BY <1>6
      <3> QED
        BY <3>2, <3>3 DEF DecidedAt
    <2> QED
      BY <1>6, <2>1, <2>2 DEF DecisionsLogged, DecidedAt
  <1>10. IterationsTyped'
    BY <1>1, <1>4, <1>6 DEF AnalyticsInv, IterationsTyped
  <1>11. BatchesAreWhole' /\ IdsCountOnce'
    BY <1>1 DEF AnalyticsInv, BatchesAreWhole, IdsCountOnce
  <1>12. LatestEffectIsShown'
    <2> SUFFICES ASSUME NEW x \in iterations', NEW i \in 1 .. (n + 1),
                        MeasuredAt(i, x.iteration_id)',
                        \A j \in 1 .. (n + 1) : MeasuredAt(j, x.iteration_id)' => j <= i
                 PROVE  /\ x.effect = analyticsAudit'[i].effect
                        /\ x.status = IF x.effect = "degraded" THEN "rollback_required"
                                      ELSE "effect_measured"
      BY <1>6 DEF LatestEffectIsShown, MeasuredAt
    <2>1. CASE x = record
      <3> PICK last \in 1 .. (n + 1) : last = n + 1
        BY <1>6
      <3>1. MeasuredAt(last, x.iteration_id)'
        BY <1>3, <1>5, <1>6, <2>1 DEF MeasuredAt
      <3>2. last <= i
        BY <3>1
      <3>3. i = n + 1
        BY <1>6, <3>2
      <3> QED
        BY <1>3, <1>5, <1>6, <2>1, <3>3
    <2>2. CASE x \in iterations /\ x.iteration_id # id
      <3>1. i # n + 1
        BY <1>5, <1>6, <2>2 DEF MeasuredAt
      <3>2. i \in 1 .. n /\ analyticsAudit'[i] = analyticsAudit[i] /\ MeasuredAt(i, x.iteration_id)
        BY <1>6, <3>1 DEF MeasuredAt
      <3>3. ASSUME NEW j \in 1 .. n, MeasuredAt(j, x.iteration_id) PROVE j <= i
        <4>1. j \in 1 .. (n + 1) /\ MeasuredAt(j, x.iteration_id)'
          BY <1>6, <3>3 DEF MeasuredAt
        <4> QED
          BY <4>1
      <3> QED
        BY <1>6, <2>2, <3>2, <3>3 DEF AnalyticsInv, LatestEffectIsShown, MeasuredAt
    <2> QED
      BY <1>4, <2>1, <2>2
  <1> QED
    BY <1>8, <1>9, <1>10, <1>11, <1>12 DEF AnalyticsInv

LEMMA AnalyticsStep ==
    ASSUME AnalyticsInv, [AnalyticsNext]_analyticsVars
    PROVE  AnalyticsInv'
  <1>1. ASSUME NEW pilot \in BatchIds, NEW metric \in Metrics, NEW period \in Periods,
               NEW value \in KPIValues, RecordEvent(pilot, metric, period, value)
        PROVE  AnalyticsInv'
    BY <1>1, EventStep
  <1>2. ASSUME NEW pilot \in BatchIds, NEW metric \in Metrics, NEW period \in Periods,
               NEW value \in KPIValues, NEW usage \in SignalLists, NEW incidents \in SignalLists,
               CollectBatch(pilot, period, <<[metric |-> metric, value |-> value]>>,
                            usage, incidents)
        PROVE  AnalyticsInv'
    <2> DEFINE specs == <<[metric |-> metric, value |-> value]>>
    <2>1. Indicators(specs)
      BY DEF Indicators
    <2>2. CollectBatch(pilot, period, specs, usage, incidents)
      BY <1>2
    <2> HIDE DEF specs
    <2> QED
      BY <2>1, <2>2, BatchStep
  <1>3. ASSUME NEW pilot \in BatchIds, NEW metric \in Metrics, NEW period \in Periods,
               NEW value \in KPIValues, NEW other \in Metrics \ {metric},
               NEW usage \in SignalLists, NEW incidents \in SignalLists,
               CollectBatch(pilot, period, <<[metric |-> metric, value |-> value],
                                             [metric |-> other, value |-> value]>>,
                            usage, incidents)
        PROVE  AnalyticsInv'
    <2> DEFINE specs == <<[metric |-> metric, value |-> value],
                          [metric |-> other, value |-> value]>>
    <2>1. Indicators(specs)
      BY DEF Indicators
    <2>2. CollectBatch(pilot, period, specs, usage, incidents)
      BY <1>3
    <2> HIDE DEF specs
    <2> QED
      BY <2>1, <2>2, BatchStep
  <1>4. ASSUME NEW id \in IterationIds, NEW period \in Periods,
               \/ CreateIteration(id, period)
               \/ \E decision \in {"approved", "rejected"} : ApproveIteration(id, decision)
               \/ MeasureEffect(id, period)
        PROVE  AnalyticsInv'
    BY <1>4, CreateStep, ApproveStep, MeasureStep
  <1>5. CASE UNCHANGED analyticsVars
    <2>1. IterationsTyped' /\ BatchesAreWhole' /\ IdsCountOnce'
      BY <1>5 DEF analyticsVars, AnalyticsInv, IterationsTyped, BatchesAreWhole, IdsCountOnce
    <2>2. DecisionsLogged' /\ CouncilDecidesOnce' /\ LatestEffectIsShown'
      BY <1>5 DEF analyticsVars, AnalyticsInv, DecisionsLogged, DecidedAt, CouncilDecidesOnce,
                  LatestEffectIsShown
    <2> QED
      BY <2>1, <2>2 DEF AnalyticsInv
  <1>6. ASSUME NEW pilot \in BatchIds, NEW metric \in Metrics, NEW period \in Periods,
               NEW value \in KPIValues, NEW other \in Metrics \ {metric},
               NEW usage \in SignalLists, NEW incidents \in SignalLists,
               \/ CollectBatch(pilot, period, <<[metric |-> metric, value |-> value]>>,
                               usage, incidents)
               \/ CollectBatch(pilot, period, <<[metric |-> metric, value |-> value],
                                                [metric |-> other, value |-> value]>>,
                               usage, incidents)
        PROVE  AnalyticsInv'
    BY <1>2, <1>3, <1>6
  <1>7. CASE \E pilot \in BatchIds, metric \in Metrics, period \in Periods, value \in KPIValues :
               \/ RecordEvent(pilot, metric, period, value)
               \/ \E other \in Metrics \ {metric}, usage, incidents \in SignalLists :
                     \/ CollectBatch(pilot, period, <<[metric |-> metric, value |-> value]>>,
                                     usage, incidents)
                     \/ CollectBatch(pilot, period, <<[metric |-> metric, value |-> value],
                                                      [metric |-> other, value |-> value]>>,
                                     usage, incidents)
    BY <1>1, <1>6, <1>7, Zenon
  <1>8. CASE \E id \in IterationIds, period \in Periods :
               \/ CreateIteration(id, period)
               \/ \E decision \in {"approved", "rejected"} : ApproveIteration(id, decision)
               \/ MeasureEffect(id, period)
    BY <1>4, <1>8
  <1> QED
    BY <1>5, <1>7, <1>8, Zenon DEF AnalyticsNext

\* An id is recorded once, whatever is sent again, a listed batch is whole, and an
\* iteration is decided once, before it is measured, and shows its latest effect: for
\* any collectors, batches, iterations and measurements.
THEOREM RecordedOnceDecidedOnce == AnalyticsSpec => []RecordedAndDecidedOnce
  <1>1. AnalyticsInv => RecordedAndDecidedOnce
    BY DEF AnalyticsInv, IterationsTyped, RecordedAndDecidedOnce, AnalyticsTypeOK
  <1>2. AnalyticsInit => AnalyticsInv
    BY AnalyticsInitially
  <1>3. AnalyticsInv /\ [AnalyticsNext]_analyticsVars => AnalyticsInv'
    BY AnalyticsStep
  <1> QED
    BY <1>1, <1>2, <1>3, PTL DEF AnalyticsSpec

(***************************************************************************)
(* The notification gateway: preferences, dispatches and the outbox.       *)
(***************************************************************************)

Messages == [recipient : Recipients, attempts : Nat,
             status : {"pending", "deferred", "sent", "failed"}]

\* A request at work has its fields; its message is in an outbox of n messages.
CallTyped(call, n) ==
    /\ call.at \in {"idle", "next", "delivering", "sending", "done", "failed"}
    /\ call.at \in {"next", "delivering", "sending"} =>
          /\ {"at", "request", "base", "left", "known"} \subseteq DOMAIN call
          /\ call.left \in Seq(Recipients)
    /\ call.at \in {"delivering", "sending"} =>
          {"recipient", "channels"} \subseteq DOMAIN call /\ call.recipient \in Recipients
    /\ call.at = "sending" =>
          /\ {"message", "handed"} \subseteq DOMAIN call
          /\ call.message \in 1 .. n /\ "email" \in call.channels

\* What a dispatch has in hand for a member, the member allows, or the dispatch was
\* there at the member's last update.
Allowed(d, call) ==
    call.at \in {"delivering", "sending"} =>
        \/ d \in turnsAtUpdate[call.recipient]
        \/ /\ preferences[call.recipient].enabled /\ preferences[call.recipient].subscribed
           /\ call.channels \subseteq preferences[call.recipient].channels

NotifyBooks ==
    /\ DOMAIN preferences = Recipients /\ DOMAIN turnsAtUpdate = Recipients
    /\ \A x \in deliveries : x.recipient \in Recipients /\ x.status \in {"delivered", "failed"}
    /\ outbox \in Seq(Messages)
    /\ handedOver \in Seq(Nat)
    /\ \A i \in DOMAIN handedOver : handedOver[i] \in 1 .. Len(outbox)

NotifyInv ==
    /\ NotifyBooks /\ DOMAIN dispatching = Dispatches
    /\ \A d \in Dispatches :
          CallTyped(dispatching[d], Len(outbox)) /\ Allowed(d, dispatching[d])

LEMMA NotifyInitially == NotifyInit => NotifyInv
  <1> SUFFICES ASSUME NotifyInit PROVE NotifyInv
    OBVIOUS
  <1>1. NotifyBooks
    BY DEF NotifyInit, NotifyBooks
  <1>2. \A d \in Dispatches : dispatching[d] = [at |-> "idle"]
    BY DEF NotifyInit
  <1>3. \A d \in Dispatches : dispatching[d].at = "idle"
    BY <1>2
  <1>4. DOMAIN dispatching = Dispatches
    BY DEF NotifyInit
  <1> QED
    BY <1>1, <1>3, <1>4 DEF NotifyInv, CallTyped, Allowed

\* A step of one dispatch.
LEMMA OneDispatch ==
    ASSUME NotifyInv, NEW d \in Dispatches, NEW call,
           dispatching' = [dispatching EXCEPT ![d] = call],
           UNCHANGED <<preferences, turnsAtUpdate>>,
           NotifyBooks', Len(outbox) <= Len(outbox'),
           CallTyped(call, Len(outbox')), Allowed(d, call)
    PROVE  NotifyInv'
  <1>1. /\ DOMAIN dispatching' = Dispatches /\ dispatching'[d] = call
        /\ \A e \in Dispatches \ {d} : dispatching'[e] = dispatching[e]
    BY DEF NotifyInv
  <1>2. 1 .. Len(outbox) \subseteq 1 .. Len(outbox')
    BY DEF NotifyInv, NotifyBooks
  <1>3. ASSUME NEW e \in Dispatches \ {d} PROVE CallTyped(dispatching[e], Len(outbox'))
    BY <1>2 DEF NotifyInv, CallTyped
  <1>4. \A e \in Dispatches : Allowed(e, dispatching'[e])
    BY <1>1 DEF NotifyInv
  <1>5. \A e \in Dispatches : Allowed(e, dispatching'[e]) => Allowed(e, dispatching[e])'
    BY DEF Allowed
  <1> QED
    BY <1>1, <1>3, <1>4, <1>5 DEF NotifyInv

\* After a channel comes the next one, or the next recipient.
LEMMA ChannelDoneFields ==
    ASSUME NotifyInv, NEW d \in Dispatches, NEW channel, NEW n \in Nat, Len(outbox) <= n,
           dispatching[d].at \in {"delivering", "sending"}
    PROVE  CallTyped(ChannelDone(d, channel), n) /\ Allowed(d, ChannelDone(d, channel))
  <1> DEFINE call == dispatching[d]
             next == [at |-> "next", request |-> call.request, base |-> call.base,
                      left |-> call.left, known |-> call.known]
             more == [call EXCEPT !.at = "delivering", !.channels = @ \ {channel}]
  <1>1. CallTyped(call, Len(outbox)) /\ Allowed(d, call)
    BY DEF NotifyInv
  <1>2. CASE call.channels = {channel}
    <2>1. ChannelDone(d, channel) = next
      BY <1>2 DEF ChannelDone
    <2>2. /\ next.at = "next" /\ {"at", "request", "base", "left", "known"} \subseteq DOMAIN next
          /\ next.left \in Seq(Recipients)
      BY <1>1 DEF CallTyped
    <2> HIDE DEF next
    <2> QED
      BY <2>1, <2>2 DEF CallTyped, Allowed
  <1>3. CASE call.channels # {channel}
    <2>1. ChannelDone(d, channel) = more
      BY <1>3 DEF ChannelDone
    <2>2. /\ more.at = "delivering" /\ DOMAIN more = DOMAIN call
          /\ more.recipient = call.recipient /\ more.left = call.left
          /\ more.channels \subseteq call.channels
      BY <1>1 DEF CallTyped
    <2>3. CallTyped(more, n)
      <3> HIDE DEF more
      <3> QED
        BY <1>1, <2>2 DEF CallTyped
    <2>4. Allowed(d, more)
      <3> HIDE DEF more
      <3> QED
        BY <1>1, <2>2 DEF Allowed
    <2> QED
      BY <2>1, <2>3, <2>4
  <1> QED
    BY <1>2, <1>3

LEMMA NamedRecipients ==
    ASSUME NEW request \in NotifyRequests, NEW named \in Named(request.recipients)
    PROVE  named \in Seq(Recipients)
  <1>1. request.recipients \in Seq(Recipients)
    BY RecipientsAssumption
  <1>2. ToSet(request.recipients) \subseteq Recipients
    BY <1>1 DEF ToSet
  <1>3. Cardinality(ToSet(request.recipients)) \in Nat
    BY <1>2, RecipientsAssumption, FS_Subset, FS_CardinalityType
  <1>4. named \in [1 .. Cardinality(ToSet(request.recipients)) -> ToSet(request.recipients)]
    BY DEF Named
  <1> HIDE DEF Named
  <1> QED
    BY <1>2, <1>3, <1>4

\* The member's update, with every dispatch that was there on record.
LEMMA PreferenceStep ==
    ASSUME NotifyInv, NEW r \in Recipients, NEW update, UpdatePreferences(r, update)
    PROVE  NotifyInv'
  <1>1. /\ UNCHANGED <<dispatching, deliveries, outbox, handedOver>>
        /\ DOMAIN preferences' = Recipients /\ DOMAIN turnsAtUpdate' = Recipients
        /\ turnsAtUpdate'[r] = {d \in Dispatches : AtRecipient(d, r)}
        /\ \A q \in Recipients \ {r} : /\ preferences'[q] = preferences[q]
                                       /\ turnsAtUpdate'[q] = turnsAtUpdate[q]
    BY DEF UpdatePreferences, NotifyInv, NotifyBooks
  <1>2. NotifyBooks'
    BY <1>1 DEF NotifyInv, NotifyBooks
  <1>3. ASSUME NEW d \in Dispatches, dispatching[d].at \in {"delivering", "sending"}
        PROVE  \/ d \in turnsAtUpdate'[dispatching[d].recipient]
               \/ /\ preferences'[dispatching[d].recipient].enabled
                  /\ preferences'[dispatching[d].recipient].subscribed
                  /\ dispatching[d].channels \subseteq preferences'[dispatching[d].recipient].channels
    <2>1. CASE dispatching[d].recipient = r
      BY <1>1, <1>3, <2>1 DEF AtRecipient
    <2>2. CASE dispatching[d].recipient # r
      <3>1. dispatching[d].recipient \in Recipients \ {r}
        BY <1>3, <2>2 DEF NotifyInv, CallTyped
      <3> QED
        BY <1>1, <1>3, <3>1 DEF NotifyInv, Allowed
    <2> QED
      BY <2>1, <2>2
  <1>4. \A d \in Dispatches : Allowed(d, dispatching[d])'
    BY <1>1, <1>3 DEF Allowed
  <1> QED
    BY <1>1, <1>2, <1>4 DEF NotifyInv, CallTyped

LEMMA RecipientStep ==
    ASSUME NotifyInv, NEW d \in Dispatches,
           \/ \E request \in NotifyRequests : BeginDispatch(d, request)
           \/ SkipRecipient(d) \/ TakeRecipient(d)
    PROVE  NotifyInv'
  <1>0. CallTyped(dispatching[d], Len(outbox)) /\ d \in DOMAIN dispatching
    BY DEF NotifyInv
  <1>a. /\ UNCHANGED <<preferences, deliveries, outbox, handedOver, turnsAtUpdate>>
        /\ NotifyBooks' /\ Len(outbox') = Len(outbox) /\ Len(outbox) <= Len(outbox')
    BY DEF BeginDispatch, SkipRecipient, TakeRecipient, NotifyInv, NotifyBooks
  <1>1. ASSUME NEW request \in NotifyRequests, BeginDispatch(d, request) PROVE NotifyInv'
    <2>1. PICK base \in BaseTemplates(request), named \in Named(request.recipients) :
             dispatching' = [dispatching EXCEPT ![d] =
                [at |-> "next", request |-> request, base |-> base, left |-> named,
                 known |-> preferences]]
      BY <1>1 DEF BeginDispatch
    <2> PICK known : known = preferences
      OBVIOUS
    <2> DEFINE call == [at |-> "next", request |-> request, base |-> base, left |-> named,
                        known |-> known]
    <2>2. named \in Seq(Recipients)
      BY NamedRecipients
    <2>3. /\ call.at = "next" /\ call.left \in Seq(Recipients)
          /\ {"at", "request", "base", "left", "known"} \subseteq DOMAIN call
      BY <2>2
    <2>4. dispatching' = [dispatching EXCEPT ![d] = call]
      BY <2>1
    <2> HIDE DEF call
    <2>5. CallTyped(call, Len(outbox')) /\ Allowed(d, call)
      BY <2>3 DEF CallTyped, Allowed
    <2> QED
      BY <1>a, <2>4, <2>5, OneDispatch
  <1>2. CASE SkipRecipient(d)
    <2> PICK old : old = dispatching[d]
      OBVIOUS
    <2> DEFINE call == [old EXCEPT !.left = Tail(old.left)]
    <2>1. /\ old.at = "next" /\ old.left # <<>>
          /\ dispatching' = [dispatching EXCEPT ![d] = call]
      BY <1>0, <1>2 DEF SkipRecipient
    <2>2. /\ call.at = "next" /\ call.left \in Seq(Recipients)
          /\ {"at", "request", "base", "left", "known"} \subseteq DOMAIN call
      BY <1>0, <2>1 DEF CallTyped
    <2> HIDE DEF call
    <2>3. CallTyped(call, Len(outbox')) /\ Allowed(d, call)
      BY <2>2 DEF CallTyped, Allowed
    <2> QED
      BY <1>a, <2>1, <2>3, OneDispatch
  <1>3. CASE TakeRecipient(d)
    <2> PICK old : old = dispatching[d]
      OBVIOUS
    <2>1. /\ old.at = "next" /\ old.left # <<>> /\ old.left \in Seq(Recipients)
          /\ {"at", "request", "base", "left", "known"} \subseteq DOMAIN old
      BY <1>0, <1>3 DEF TakeRecipient, CallTyped
    <2>2. PICK r \in Recipients : r = Head(old.left)
      BY <2>1
    <2>3. Tail(old.left) \in Seq(Recipients)
      BY <2>1
    <2>4. PICK channels, template :
             /\ preferences[r].enabled /\ preferences[r].subscribed
             /\ template = TemplateFor(d, preferences[r])
             /\ channels = DeliveryChannels(old.request, template, preferences[r])
             /\ dispatching' = [dispatching EXCEPT ![d] =
                   IF ~template.renders THEN [at |-> "failed"]
                   ELSE [at |-> "delivering", request |-> old.request, base |-> old.base,
                         left |-> Tail(old.left), known |-> old.known,
                         recipient |-> r, channels |-> channels]]
      BY <1>3, <2>2 DEF TakeRecipient, PreferencesOf
    <2>5. channels \subseteq preferences[r].channels
      BY <2>4 DEF DeliveryChannels
    <2>6. CASE ~template.renders
      <3> DEFINE call == [at |-> "failed"]
      <3>1. dispatching' = [dispatching EXCEPT ![d] = call] /\ call.at = "failed"
        BY <2>4, <2>6
      <3> HIDE DEF call
      <3>2. CallTyped(call, Len(outbox')) /\ Allowed(d, call)
        BY <3>1 DEF CallTyped, Allowed
      <3> QED
        BY <1>a, <3>1, <3>2, OneDispatch
    <2>7. CASE template.renders
      <3> DEFINE call == [at |-> "delivering", request |-> old.request, base |-> old.base,
                          left |-> Tail(old.left), known |-> old.known,
                          recipient |-> r, channels |-> channels]
      <3>1. dispatching' = [dispatching EXCEPT ![d] = call]
        BY <2>4, <2>7
      <3>2. /\ call.at = "delivering" /\ call.left \in Seq(Recipients)
            /\ {"at", "request", "base", "left", "known", "recipient", "channels"} \subseteq DOMAIN call
            /\ call.recipient = r /\ call.channels = channels
        BY <2>3
      <3> HIDE DEF call
      <3>3. CallTyped(call, Len(outbox')) /\ Allowed(d, call)
        BY <2>4, <2>5, <3>2 DEF CallTyped, Allowed
      <3> QED
        BY <1>a, <3>1, <3>3, OneDispatch
    <2> QED
      BY <2>6, <2>7
  <1> QED
    BY <1>1, <1>2, <1>3

\* A delivery that was recorded is one of the member in hand, over a channel in hand.
LEMMA DeliveryStep ==
    ASSUME NotifyInv, NEW d \in Dispatches, NEW channel, NEW verdict \in {"delivered", "failed"},
           dispatching[d].at \in {"delivering", "sending"},
           deliveries' = deliveries \cup {Delivered(d, channel, verdict)},
           dispatching' = [dispatching EXCEPT ![d] = ChannelDone(d, channel)],
           UNCHANGED <<preferences, turnsAtUpdate, handedOver>>,
           outbox' \in Seq(Messages), Len(outbox) <= Len(outbox')
    PROVE  NotifyInv'
  <1>1. /\ Delivered(d, channel, verdict).recipient = dispatching[d].recipient
        /\ Delivered(d, channel, verdict).status = verdict
    BY DEF Delivered
  <1>2. dispatching[d].recipient \in Recipients
    BY DEF NotifyInv, CallTyped
  <1>3. Len(outbox) \in Nat /\ Len(outbox') \in Nat
    BY DEF NotifyInv, NotifyBooks
  <1>4. \A x \in deliveries' : x.recipient \in Recipients /\ x.status \in {"delivered", "failed"}
    BY <1>1, <1>2 DEF NotifyInv, NotifyBooks
  <1>5. NotifyBooks'
    BY <1>3, <1>4 DEF NotifyInv, NotifyBooks
  <1>6. CallTyped(ChannelDone(d, channel), Len(outbox')) /\ Allowed(d, ChannelDone(d, channel))
    BY <1>3, ChannelDoneFields
  <1> QED
    BY <1>5, <1>6, OneDispatch

LEMMA EmailStep ==
    ASSUME NotifyInv, NEW d \in Dispatches,
           \/ QueueEmail(d)
           \/ \E verdict \in {"sent", "failed"} : ProviderAnswers(d, verdict)
    PROVE  NotifyInv'
  <1>0. CallTyped(dispatching[d], Len(outbox)) /\ outbox \in Seq(Messages) /\ Len(outbox) \in Nat
    BY DEF NotifyInv, NotifyBooks
  <1>1. CASE QueueEmail(d)
    <2> PICK old : old = dispatching[d]
      OBVIOUS
    <2>1. /\ old.at = "delivering" /\ "email" \in old.channels /\ old.recipient \in Recipients
          /\ {"at", "request", "base", "left", "known", "recipient", "channels"} \subseteq DOMAIN old
          /\ old.left \in Seq(Recipients)
      BY <1>0, <1>1 DEF QueueEmail, CallTyped
    <2>2. CASE CanSend(old.recipient)
      <3> DEFINE message == [recipient |-> old.recipient, status |-> "pending", attempts |-> 0]
                 n == Len(outbox) + 1
      <3>1. message \in Messages
        BY <2>1 DEF Messages
      <3>2. /\ outbox' = Append(outbox, message)
            /\ UNCHANGED <<preferences, turnsAtUpdate, handedOver, deliveries>>
        BY <1>1, <2>2 DEF QueueEmail
      <3> HIDE DEF message
      <3>3. outbox' \in Seq(Messages) /\ Len(outbox') = n /\ n \in Nat /\ Len(outbox) <= n
        BY <1>0, <3>1, <3>2
      <3>4. NotifyBooks'
        BY <3>2, <3>3 DEF NotifyInv, NotifyBooks
      <3> PICK place : place = n
        OBVIOUS
      <3> DEFINE call == Sending(old, place)
      <3>5. dispatching' = [dispatching EXCEPT ![d] = call]
        BY <1>1, <2>2 DEF QueueEmail, NotifyInv
      <3>6. /\ call.at = "sending" /\ call.message = place /\ call.left = old.left
            /\ call.recipient = old.recipient /\ call.channels = old.channels
            /\ {"at", "request", "base", "left", "known", "recipient", "channels",
                "message", "handed"} \subseteq DOMAIN call
        BY DEF Sending
      <3> HIDE DEF call
      <3>7. CallTyped(call, Len(outbox')) 
        BY <2>1, <3>3, <3>6 DEF CallTyped
      <3>8. Allowed(d, call)
        BY <2>1, <3>6 DEF NotifyInv, Allowed
      <3> QED
        BY <3>2, <3>3, <3>4, <3>5, <3>7, <3>8, OneDispatch
    <2>3. CASE ~CanSend(old.recipient)
      <3> DEFINE message == [recipient |-> old.recipient, status |-> "deferred", attempts |-> 0]
      <3>1. message \in Messages
        BY <2>1 DEF Messages
      <3>2. /\ outbox' = Append(outbox, message)
            /\ UNCHANGED <<preferences, turnsAtUpdate, handedOver>>
            /\ dispatching' = [dispatching EXCEPT ![d] = ChannelDone(d, "email")]
            /\ deliveries' = deliveries \cup {Delivered(d, "email", "delivered")}
        BY <1>1, <2>3 DEF QueueEmail
      <3> HIDE DEF message
      <3>3. outbox' \in Seq(Messages) /\ Len(outbox) <= Len(outbox')
        BY <1>0, <3>1, <3>2
      <3> QED
        BY <2>1, <3>2, <3>3, DeliveryStep
    <2> QED
      BY <2>2, <2>3
  <1>2. ASSUME NEW verdict \in {"sent", "failed"}, ProviderAnswers(d, verdict) PROVE NotifyInv'
    <2> PICK m \in 1 .. Len(outbox) : m = dispatching[d].message
      BY <1>0, <1>2 DEF ProviderAnswers, CallTyped
    <2> PICK old \in Messages : old = outbox[m]
      BY <1>0
    <2> DEFINE message == [[old EXCEPT !.status = verdict] EXCEPT !.attempts = old.attempts + 1]
    <2>1. message \in Messages
      <3> PICK more \in Nat : more = old.attempts + 1
        BY DEF Messages
      <3>1. message = [[old EXCEPT !.status = verdict] EXCEPT !.attempts = more]
        OBVIOUS
      <3> HIDE DEF message
      <3> QED
        BY <3>1 DEF Messages
    <2>2. outbox' = [outbox EXCEPT ![m] = message]
      BY <1>0, <1>2 DEF ProviderAnswers, Messages
    <2> HIDE DEF message
    <2>3. outbox' \in Seq(Messages) /\ Len(outbox) <= Len(outbox')
      BY <1>0, <2>1, <2>2
    <2>4. /\ dispatching[d].at \in {"delivering", "sending"}
          /\ deliveries' = deliveries \cup {Delivered(d, "email", "delivered")}
          /\ dispatching' = [dispatching EXCEPT ![d] = ChannelDone(d, "email")]
          /\ UNCHANGED <<preferences, turnsAtUpdate, handedOver>>
      BY <1>2 DEF ProviderAnswers
    <2> QED
      BY <2>3, <2>4, DeliveryStep
  <1> QED
    BY <1>1, <1>2

LEMMA HandOverStep ==
    ASSUME NotifyInv, NEW d \in Dispatches,
           ProviderTakes(d) \/ CancelDispatch(d) \/ EndDispatch(d)
    PROVE  NotifyInv'
  <1>0. CallTyped(dispatching[d], Len(outbox)) /\ d \in DOMAIN dispatching
    BY DEF NotifyInv
  <1>a. /\ UNCHANGED <<preferences, deliveries, outbox, turnsAtUpdate>>
        /\ Len(outbox') = Len(outbox) /\ Len(outbox) \in Nat /\ Len(outbox) <= Len(outbox')
    BY DEF ProviderTakes, CancelDispatch, EndDispatch, NotifyInv, NotifyBooks
  <1>1. CASE ProviderTakes(d)
    <2> PICK old : old = dispatching[d]
      OBVIOUS
    <2> DEFINE call == [old EXCEPT !.handed = TRUE]
    <2>1. /\ old.at = "sending" /\ old.message \in 1 .. Len(outbox)
          /\ dispatching' = [dispatching EXCEPT ![d] = call]
          /\ handedOver' = Append(handedOver, old.message)
      BY <1>0, <1>1 DEF ProviderTakes, CallTyped
    <2>2. NotifyBooks'
      <3> PICK m \in 1 .. Len(outbox) : m = old.message
        BY <2>1
      <3>1. handedOver \in Seq(Nat) /\ m \in Nat
        BY <1>a DEF NotifyInv, NotifyBooks
      <3>2. /\ handedOver' \in Seq(Nat)
            /\ \A i \in DOMAIN handedOver' : handedOver'[i] = m \/ (i \in DOMAIN handedOver /\ handedOver'[i] = handedOver[i])
        BY <2>1, <3>1
      <3> QED
        BY <1>a, <3>2 DEF NotifyInv, NotifyBooks
    <2>3. /\ DOMAIN call = DOMAIN old /\ call.at = old.at /\ call.left = old.left
          /\ call.recipient = old.recipient /\ call.channels = old.channels
          /\ call.message = old.message
      BY <1>0, <2>1 DEF CallTyped
    <2> HIDE DEF call
    <2>4. CallTyped(call, Len(outbox'))
      BY <1>0, <1>a, <2>3 DEF CallTyped
    <2>5. Allowed(d, call)
      BY <2>3 DEF NotifyInv, Allowed
    <2> QED
      BY <1>a, <2>1, <2>2, <2>4, <2>5, OneDispatch
  <1>2. ASSUME NEW at \in {"failed", "done"},
               dispatching' = [dispatching EXCEPT ![d] = [at |-> at]], handedOver' = handedOver
        PROVE  NotifyInv'
    <2> DEFINE call == [at |-> at]
    <2>1. dispatching' = [dispatching EXCEPT ![d] = call] /\ call.at = at
      BY <1>2
    <2> HIDE DEF call
    <2>2. CallTyped(call, Len(outbox')) /\ Allowed(d, call)
      BY <2>1 DEF CallTyped, Allowed
    <2>3. NotifyBooks'
      BY <1>a, <1>2 DEF NotifyInv, NotifyBooks
    <2> QED
      BY <1>a, <2>1, <2>2, <2>3, OneDispatch
  <1> QED
    BY <1>1, <1>2 DEF CancelDispatch, EndDispatch

LEMMA NotifyStep ==
    ASSUME NotifyInv, [NotifyNext]_notifyVars PROVE NotifyInv'
  <1>1. ASSUME NEW i \in DOMAIN EmailRoutes, NEW verdict \in RouteStatuses, SwitchRoute(i, verdict)
        PROVE  NotifyInv'
    BY <1>1 DEF SwitchRoute, NotifyInv, NotifyBooks, CallTyped, Allowed
  <1>2. ASSUME NEW d \in Dispatches, NEW verdict \in {"delivered", "failed"},
               DeliverMessage(d, "telegram", verdict)
        PROVE  NotifyInv'
    <2>1. outbox' \in Seq(Messages) /\ Len(outbox) <= Len(outbox')
      BY <1>2 DEF DeliverMessage, NotifyInv, NotifyBooks
    <2>2. /\ dispatching[d].at \in {"delivering", "sending"}
          /\ deliveries' = deliveries \cup {Delivered(d, "telegram", verdict)}
          /\ dispatching' = [dispatching EXCEPT ![d] = ChannelDone(d, "telegram")]
          /\ UNCHANGED <<preferences, turnsAtUpdate, handedOver>>
      BY <1>2 DEF DeliverMessage
    <2> QED
      BY <2>1, <2>2, DeliveryStep
  <1>3. CASE UNCHANGED notifyVars
    BY <1>3 DEF notifyVars, NotifyInv, NotifyBooks, CallTyped, Allowed
  <1> QED
    BY <1>1, <1>2, <1>3, PreferenceStep, RecipientStep, EmailStep, HandOverStep DEF NotifyNext

\* What a step adds to the deliveries, its member allowed.
LEMMA WantedStep ==
    ASSUME NotifyInv, NotifyNext, NEW x \in deliveries' \ deliveries
    PROVE  \/ x.dispatch \in turnsAtUpdate[x.recipient]
           \/ /\ preferences[x.recipient].enabled /\ preferences[x.recipient].subscribed
              /\ x.channel \in preferences[x.recipient].channels
  <1>1. \E d \in Dispatches : \E channel, verdict :
           /\ x = Delivered(d, channel, verdict)
           /\ dispatching[d].at \in {"delivering", "sending"}
           /\ channel \in dispatching[d].channels
    <2>1. \A d \in Dispatches : dispatching[d].at = "sending" => "email" \in dispatching[d].channels
      BY DEF NotifyInv, CallTyped
    <2> QED
      BY <2>1 DEF NotifyNext, UpdatePreferences, SwitchRoute, BeginDispatch, SkipRecipient,
                  TakeRecipient, DeliverMessage, QueueEmail, ProviderTakes, ProviderAnswers,
                  CancelDispatch, EndDispatch
  <1> PICK d \in Dispatches : \E channel, verdict :
           /\ x = Delivered(d, channel, verdict)
           /\ dispatching[d].at \in {"delivering", "sending"}
           /\ channel \in dispatching[d].channels
    BY <1>1
  <1>2. /\ dispatching[d].at \in {"delivering", "sending"}
        /\ x.dispatch = d /\ x.recipient = dispatching[d].recipient
        /\ x.channel \in dispatching[d].channels
    BY DEF Delivered
  <1> QED
    BY <1>2 DEF NotifyInv, Allowed

\* Who opts out is not notified any more, save by a dispatch that had come to the
\* member before: for any members, requests, channels, routes and providers.
THEOREM OptOutStands == NotifySpec => OptOutHonoured
  <1>1. NotifyInv => NotifyTypeOK
    <2> SUFFICES ASSUME NotifyInv PROVE NotifyTypeOK
      OBVIOUS
    <2>1. \A d \in Dispatches :
             dispatching[d].at \in {"idle", "next", "delivering", "sending", "done", "failed"}
      BY DEF NotifyInv, CallTyped
    <2>2. outbox \in Seq(Messages) /\ handedOver \in Seq(Nat)
      BY DEF NotifyInv, NotifyBooks
    <2>3. \A i \in DOMAIN outbox : outbox[i] \in Messages
      BY <2>2
    <2>5. \A i \in DOMAIN outbox : outbox[i].status \in {"pending", "deferred", "sent", "failed"}
      BY <2>3 DEF Messages
    <2>4. ToSet(handedOver) \subseteq DOMAIN outbox
      BY <2>2 DEF ToSet, NotifyInv, NotifyBooks
    <2> QED
      BY <2>1, <2>4, <2>5 DEF NotifyTypeOK, NotifyInv, NotifyBooks
  <1>2. NotifyInv /\ [NotifyNext]_notifyVars =>
           [\A x \in deliveries' \ deliveries :
               \/ x.dispatch \in turnsAtUpdate[x.recipient]
               \/ /\ preferences[x.recipient].enabled /\ preferences[x.recipient].subscribed
                  /\ x.channel \in preferences[x.recipient].channels]_notifyVars
    BY WantedStep
  <1> QED
    BY <1>1, <1>2, NotifyInitially, NotifyStep, PTL DEF NotifySpec, OptOutHonoured

===============================================================================
