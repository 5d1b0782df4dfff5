---------------------- MODULE ContributionLedgerProofs ----------------------
(***************************************************************************)
(* Theorems about ContributionLedger, for any members, periods, keys,      *)
(* points, numbers of worker threads and lengths of the ledger.            *)
(***************************************************************************)
EXTENDS ContributionLedger, TLAPS, FiniteSetTheorems

-----------------------------------------------------------------------------
(* Type correctness.                                                       *)

\* A reading of the ledger, with parameters the requests may have.
LEMMA ReadingType ==
    ASSUME TypeOK, NEW average \in Averages \cup {None}, NEW cap \in Caps
    PROVE  /\ Reading(average, cap) \in Snapshot
           /\ Reading(average, cap).seen = Len(contributions)
           /\ Reading(average, cap).raced = FALSE
BY DEF TypeOK, Reading, Snapshot, Contribution

\* Marking a recalculation as raced changes nothing else of it.
LEMMA RacedRecalculation ==
    ASSUME NEW r \in Recalculation
    PROVE  LET raced == [r EXCEPT !.snapshot.raced = TRUE]
           IN  /\ raced \in Recalculation
               /\ raced.step = "recalculating"
               /\ raced.period = r.period
               /\ raced.snapshot \in Snapshot
               /\ raced.snapshot.seen = r.snapshot.seen
               /\ raced.snapshot.raced = TRUE
BY DEF Recalculation, Snapshot

\* The step of a request tells which record it is.
LEMMA RequestKinds ==
    ASSUME TypeOK, NEW w \in Workers
    PROVE  /\ requests[w].step = "idle" => requests[w] = Idle
           /\ requests[w].step = "recalculating" => requests[w] \in Recalculation
           /\ requests[w].step = "reading" => requests[w] \in Lookup
           /\ requests[w].step = "exported" => requests[w] \in Export
BY DEF TypeOK, Idle, Recalculation, Lookup, Export

\* What the requests are after one of them has moved.
LEMMA RequestMoves ==
    ASSUME TypeOK, NEW w \in Workers,
           NEW r \in {Idle} \cup Recalculation \cup Lookup \cup Export,
           requests' = [requests EXCEPT ![w] = r]
    PROVE  /\ requests' \in [Workers -> {Idle} \cup Recalculation \cup Lookup \cup Export]
           /\ requests'[w] = r
           /\ \A v \in Workers : v # w => requests'[v] = requests[v]
BY DEF TypeOK

\* How many registrations have been answered.
LEMMA AnsweredType ==
    ASSUME TypeOK, invalidating # None => contributions # <<>>
    PROVE  /\ Answered \in Nat
           /\ Answered <= Len(contributions)
           /\ invalidating # None => Answered = Len(contributions) - 1
BY DEF TypeOK, Answered

\* A registration under way has appended its contribution.
Underway == invalidating # None => contributions # <<>>

\* Every variable keeps its type through every operation of the ledger.
LEMMA TypeInductive == TypeOK /\ Underway /\ [Next]_vars => TypeOK' /\ Underway'
<1> SUFFICES ASSUME TypeOK, Underway, [Next]_vars PROVE TypeOK' /\ Underway'
  OBVIOUS
<1> USE LedgerAssumption
<1>1. ASSUME NEW k \in Keys, NEW m \in Members, NEW p \in Periods, NEW points \in Points,
             RegisterContribution(k, m, p, points)
      PROVE  TypeOK' /\ Underway'
  <2>1. [key |-> k, member |-> m, period |-> p, points |-> points] \in Contribution
    BY DEF Contribution
  <2>2. contributions' \in Seq(Contribution) /\ contributions' # <<>>
    BY <1>1, <2>1, SMTT(30) DEF RegisterContribution, TypeOK
  <2>3. events' \in Seq([type : EventTypes, key : Keys])
    BY <1>1 DEF RegisterContribution, TypeOK, EventTypes
  <2>4. QED
    BY <1>1, <2>2, <2>3 DEF RegisterContribution, TypeOK, Underway
<1>2. ASSUME DropSnapshot PROVE TypeOK' /\ Underway'
  <2>1. requests' \in [Workers -> {Idle} \cup Recalculation \cup Lookup \cup Export]
    <3>1. ASSUME NEW w \in Workers, Recalculating(w, invalidating)
          PROVE  [requests[w] EXCEPT !.snapshot.raced = TRUE] \in Recalculation
      BY <3>1, RequestKinds, RacedRecalculation DEF Recalculating
    <3>2. QED
      BY <1>2, <3>1 DEF DropSnapshot, NoteRace, TypeOK
  <2>2. QED
    BY <1>2, <2>1 DEF DropSnapshot, TypeOK, Underway
<1>3. ASSUME NEW w \in Workers, NEW p \in Periods, NEW average \in Averages, NEW cap \in Caps,
             BeginRecalculation(w, p, average, cap)
      PROVE  TypeOK' /\ Underway'
  <2>1. [step |-> "recalculating", period |-> p, snapshot |-> Reading(average, cap)]
            \in Recalculation
    BY ReadingType DEF Recalculation
  <2>2. QED
    BY <1>3, <2>1, RequestMoves DEF BeginRecalculation, TypeOK, Underway
<1>4. ASSUME NEW w \in Workers, SaveSnapshot(w) PROVE TypeOK' /\ Underway'
  <2>1. requests[w] \in Recalculation
    BY <1>4, RequestKinds DEF SaveSnapshot
  <2>2. QED
    BY <1>4, <2>1, RequestMoves DEF SaveSnapshot, TypeOK, Underway, Recalculation
<1>5. ASSUME NEW w \in Workers, NEW p \in Periods, AskDistribution(w, p)
      PROVE  TypeOK' /\ Underway'
  <2>1. Answered \in Nat
    BY AnsweredType DEF Underway
  <2>2. snapshots[p] # None => Exported(p, Answered, snapshots[p]) \in Export
    BY <2>1 DEF Exported, Export, TypeOK
  <2>3. [step |-> "reading", period |-> p, asked |-> Answered] \in Lookup
    BY <2>1 DEF Lookup
  <2>4. QED
    BY <1>5, <2>2, <2>3, RequestMoves DEF AskDistribution, TypeOK, Underway
<1>6. ASSUME NEW w \in Workers, CalculateDistribution(w) PROVE TypeOK' /\ Underway'
  <2>1. requests[w] \in Lookup
    BY <1>6, RequestKinds DEF CalculateDistribution
  <2>2. Exported(requests[w].period, requests[w].asked, Reading(None, CouncilCap)) \in Export
    BY <2>1, ReadingType DEF Exported, Export, Lookup
  <2>3. QED
    BY <1>6, <2>2, RequestMoves DEF CalculateDistribution, TypeOK, Underway
<1>7. ASSUME NEW w \in Workers, Return(w) PROVE TypeOK' /\ Underway'
  BY <1>7, RequestMoves DEF Return, TypeOK, Underway
<1>8. ASSUME UNCHANGED vars PROVE TypeOK' /\ Underway'
  BY <1>8 DEF vars, TypeOK, Underway
<1>9. QED
  BY <1>1, <1>2, <1>3, <1>4, <1>5, <1>6, <1>7, <1>8 DEF Next

LEMMA TypeInitially == Init => TypeOK /\ Underway
BY LedgerAssumption DEF Init, TypeOK, Underway, Idle

\* Contributions, events, snapshots and requests always have their types,
\* through all interleavings of the event loop with the worker threads.
THEOREM TypeCorrect == Spec => []TypeOK
<1>1. Spec => [](TypeOK /\ Underway)
  BY TypeInitially, TypeInductive, PTL DEF Spec
<1>2. QED
  BY <1>1, PTL

-----------------------------------------------------------------------------
(* Freshness of snapshots and distributions.                               *)

\* No snapshot or request has read more of the ledger than there is.
ReadingsInLedger ==
    /\ \A p \in Periods : snapshots[p] # None => snapshots[p].seen <= Len(contributions)
    /\ \A w \in Workers :
           /\ requests[w].step \in {"recalculating", "exported"} =>
                  requests[w].snapshot.seen <= Len(contributions)
           /\ requests[w].step \in {"reading", "exported"} =>
                  requests[w].asked <= Len(contributions)

\* A recalculation that was not overtaken knows the contributions of its
\* period, up to the one that is being registered.
RecalculationsAreFresh ==
    \A w \in Workers :
        requests[w].step = "recalculating" /\ ~requests[w].snapshot.raced =>
            \A i \in OfPeriod(requests[w].period, Len(contributions)) :
                Covered(i, requests[w].period, requests[w].snapshot)

\* SnapshotsAreFresh alone is not inductive: what is stored next is what a
\* worker holds, and what is exported next is what is stored.
FreshInv ==
    /\ TypeOK
    /\ Underway
    /\ ReadingsInLedger
    /\ RecalculationsAreFresh
    /\ SnapshotsAreFresh
    /\ DistributionIsCurrent

\* A contribution that is appended is the last, and no other changes.
LEMMA AppendedContribution ==
    ASSUME TypeOK, NEW k \in Keys, NEW m \in Members, NEW p \in Periods,
           NEW points \in Points, RegisterContribution(k, m, p, points)
    PROVE  /\ Len(contributions') = Len(contributions) + 1
           /\ \A i \in 1 .. Len(contributions) : contributions'[i] = contributions[i]
           /\ contributions'[Len(contributions) + 1].period = p
           /\ contributions'[Len(contributions) + 1].key = k
BY DEF RegisterContribution, TypeOK

\* An append leaves a fresh reading fresh, whatever period it is for: the
\* contribution is the last, and its registration is under way.
LEMMA CoveredThroughAppend ==
    ASSUME TypeOK, NEW k \in Keys, NEW m \in Members, NEW p \in Periods,
           NEW points \in Points, RegisterContribution(k, m, p, points),
           NEW q \in Periods, NEW r \in Snapshot,
           \A i \in OfPeriod(q, Len(contributions)) : Covered(i, q, r)
    PROVE  \A i \in OfPeriod(q, Len(contributions))' : Covered(i, q, r)'
<1> SUFFICES ASSUME NEW i \in OfPeriod(q, Len(contributions))'
             PROVE  Covered(i, q, r)'
  OBVIOUS
<1>1. i \in 1 .. Len(contributions) + 1 /\ contributions'[i].period = q
  BY AppendedContribution DEF OfPeriod
<1>2. CASE i = Len(contributions) + 1
  <2>1. q = p
    BY <1>1, <1>2, AppendedContribution
  <2>2. invalidating' = p
    BY DEF RegisterContribution
  <2>3. QED
    BY <1>2, <2>1, <2>2, AppendedContribution DEF Covered
<1>3. CASE i \in 1 .. Len(contributions)
  <2>1. i \in OfPeriod(q, Len(contributions))
    BY <1>1, <1>3, AppendedContribution DEF OfPeriod
  <2>2. invalidating # q
    BY LedgerAssumption DEF RegisterContribution
  <2>3. i <= r.seen
    BY <2>1, <2>2 DEF Covered
  <2>4. QED
    BY <2>3 DEF Covered
<1>4. QED
  BY <1>1, <1>2, <1>3 DEF TypeOK

\* What the ledger holds is fresh for whoever reads all of it.
LEMMA FullReadingIsFresh ==
    ASSUME TypeOK, NEW average \in Averages \cup {None}, NEW cap \in Caps, NEW p \in Periods
    PROVE  \A i \in OfPeriod(p, Len(contributions)) : Covered(i, p, Reading(average, cap))
<1>1. Reading(average, cap).seen = Len(contributions)
  BY ReadingType
<1>2. \A i \in OfPeriod(p, Len(contributions)) : i <= Len(contributions)
  BY DEF OfPeriod, TypeOK
<1>3. QED
  BY <1>1, <1>2 DEF Covered

\* Every operation preserves the freshness invariant.
LEMMA FreshInductive == FreshInv /\ [Next]_vars => FreshInv'
<1> SUFFICES ASSUME FreshInv, [Next]_vars PROVE FreshInv'
  OBVIOUS
<1> USE LedgerAssumption
<1>0. TypeOK /\ Underway /\ TypeOK' /\ Underway'
  BY TypeInductive DEF FreshInv
<1>1. ASSUME NEW k \in Keys, NEW m \in Members, NEW p \in Periods, NEW points \in Points,
             RegisterContribution(k, m, p, points)
      PROVE  ReadingsInLedger' /\ RecalculationsAreFresh' /\ SnapshotsAreFresh'
                 /\ DistributionIsCurrent'
  <2>1. /\ Len(contributions') = Len(contributions) + 1
        /\ \A i \in 1 .. Len(contributions) : contributions'[i] = contributions[i]
    BY <1>0, <1>1, AppendedContribution
  <2>2. snapshots' = snapshots /\ requests' = requests
    BY <1>1 DEF RegisterContribution
  <2>3. ReadingsInLedger'
    <3>1. \A q \in Periods : snapshots[q] # None => snapshots[q].seen \in Nat
      BY <1>0 DEF TypeOK, Snapshot
    <3>2. \A w \in Workers :
             /\ requests[w].step \in {"recalculating", "exported"} =>
                    requests[w].snapshot.seen \in Nat
             /\ requests[w].step \in {"reading", "exported"} => requests[w].asked \in Nat
      BY <1>0, RequestKinds DEF Recalculation, Lookup, Export, Snapshot
    <3>3. Len(contributions) \in Nat
      BY <1>0 DEF TypeOK
    <3>4. QED
      BY <2>1, <2>2, <3>1, <3>2, <3>3 DEF ReadingsInLedger, FreshInv
  <2>4. RecalculationsAreFresh'
    <3> SUFFICES ASSUME NEW w \in Workers, requests[w].step = "recalculating",
                        ~requests[w].snapshot.raced
                 PROVE  \A i \in OfPeriod(requests[w].period, Len(contributions))' :
                            Covered(i, requests[w].period, requests[w].snapshot)'
      BY <2>2 DEF RecalculationsAreFresh
    <3>1. requests[w].period \in Periods /\ requests[w].snapshot \in Snapshot
      BY <1>0, RequestKinds DEF Recalculation
    <3>2. \A i \in OfPeriod(requests[w].period, Len(contributions)) :
              Covered(i, requests[w].period, requests[w].snapshot)
      BY DEF FreshInv, RecalculationsAreFresh
    <3>3. ASSUME NEW q \in Periods, NEW r \in Snapshot,
                 \A i \in OfPeriod(q, Len(contributions)) : Covered(i, q, r)
          PROVE  \A i \in OfPeriod(q, Len(contributions))' : Covered(i, q, r)'
      BY <1>0, <1>1, <3>3, CoveredThroughAppend
    <3>4. PICK q \in Periods, r \in Snapshot : q = requests[w].period /\ r = requests[w].snapshot
      BY <3>1
    <3>5. \A i \in OfPeriod(q, Len(contributions))' : Covered(i, q, r)'
      BY <3>2, <3>3, <3>4
    <3>6. QED
      BY <2>2, <3>4, <3>5 DEF OfPeriod, Covered
  <2>5. SnapshotsAreFresh'
    <3> SUFFICES ASSUME NEW q \in Periods, snapshots[q] # None, ~snapshots[q].raced
                 PROVE  \A i \in OfPeriod(q, Len(contributions))' :
                            Covered(i, q, snapshots[q])'
      BY <2>2 DEF SnapshotsAreFresh
    <3>1. PICK r \in Snapshot : r = snapshots[q]
      BY <1>0 DEF TypeOK
    <3>2. \A i \in OfPeriod(q, Len(contributions)) : Covered(i, q, r)
      BY <3>1 DEF FreshInv, SnapshotsAreFresh
    <3>3. \A i \in OfPeriod(q, Len(contributions))' : Covered(i, q, r)'
      BY <1>0, <1>1, <3>2, CoveredThroughAppend
    <3>4. QED
      BY <2>2, <3>1, <3>3 DEF Covered
  <2>6. DistributionIsCurrent'
    <3> SUFFICES ASSUME NEW w \in Workers, requests[w].step = "exported",
                        ~requests[w].snapshot.raced
                 PROVE  OfPeriod(requests[w].period, requests[w].asked)'
                            \subseteq 1 .. requests[w].snapshot.seen
      BY <2>2 DEF DistributionIsCurrent
    <3>1. requests[w].asked \in Nat /\ requests[w].asked <= Len(contributions)
      BY <1>0, RequestKinds DEF Export, FreshInv, ReadingsInLedger
    <3>2. Len(contributions) \in Nat
      BY <1>0 DEF TypeOK
    <3>3. \A i \in 1 .. requests[w].asked : contributions'[i] = contributions[i]
      BY <2>1, <3>1, <3>2
    <3>4. OfPeriod(requests[w].period, requests[w].asked)'
              = OfPeriod(requests[w].period, requests[w].asked)
      BY <2>2, <3>3 DEF OfPeriod
    <3>5. QED
      BY <3>4 DEF FreshInv, DistributionIsCurrent
  <2>7. QED
    BY <2>3, <2>4, <2>5, <2>6
<1>2. ASSUME DropSnapshot
      PROVE  ReadingsInLedger' /\ RecalculationsAreFresh' /\ SnapshotsAreFresh'
                 /\ DistributionIsCurrent'
  <2>1. /\ invalidating \in Periods
        /\ contributions' = contributions
        /\ snapshots' = [snapshots EXCEPT ![invalidating] = None]
        /\ invalidating' = None
    BY <1>0, <1>2 DEF DropSnapshot, TypeOK
  <2>2. \A w \in Workers : ~Recalculating(w, invalidating) => requests'[w] = requests[w]
    BY <1>2 DEF DropSnapshot, NoteRace
  <2>3. \A w \in Workers : Recalculating(w, invalidating) =>
            /\ requests[w] \in Recalculation
            /\ requests'[w].step = "recalculating"
            /\ requests'[w].snapshot.seen = requests[w].snapshot.seen
            /\ requests'[w].snapshot.raced
    BY <1>0, <1>2, RequestKinds, RacedRecalculation DEF DropSnapshot, NoteRace, Recalculating
  <2>4. ReadingsInLedger'
    <3>1. \A p \in Periods : snapshots'[p] # None => snapshots'[p] = snapshots[p]
      BY <1>0, <2>1 DEF TypeOK
    <3>2. \A p \in Periods : snapshots'[p] # None => snapshots'[p].seen <= Len(contributions')
      BY <2>1, <3>1 DEF FreshInv, ReadingsInLedger
    <3>3. ASSUME NEW w \in Workers
          PROVE  /\ requests'[w].step \in {"recalculating", "exported"} =>
                        requests'[w].snapshot.seen <= Len(contributions')
                 /\ requests'[w].step \in {"reading", "exported"} =>
                        requests'[w].asked <= Len(contributions')
      <4>1. CASE Recalculating(w, invalidating)
        BY <2>1, <2>3, <4>1 DEF FreshInv, ReadingsInLedger, Recalculating
      <4>2. CASE ~Recalculating(w, invalidating)
        BY <2>1, <2>2, <4>2 DEF FreshInv, ReadingsInLedger
      <4>3. QED
        BY <4>1, <4>2
    <3>4. QED
      BY <3>2, <3>3 DEF ReadingsInLedger
  <2>5. RecalculationsAreFresh'
    <3> SUFFICES ASSUME NEW w \in Workers, requests'[w].step = "recalculating",
                        ~requests'[w].snapshot.raced,
                        NEW i \in OfPeriod(requests[w].period, Len(contributions))'
                 PROVE  Covered(i, requests[w].period, requests[w].snapshot)'
      BY DEF RecalculationsAreFresh
    <3>1. ~Recalculating(w, invalidating)
      BY <2>3
    <3>2. requests'[w] = requests[w] /\ requests[w].period # invalidating
      BY <2>2, <3>1 DEF Recalculating
    <3>3. i \in OfPeriod(requests[w].period, Len(contributions))
      BY <2>1, <3>2 DEF OfPeriod
    <3>4. Covered(i, requests[w].period, requests[w].snapshot)
      BY <3>2, <3>3 DEF FreshInv, RecalculationsAreFresh
    <3>5. QED
      BY <3>2, <3>4 DEF Covered
  <2>6. SnapshotsAreFresh'
    <3> SUFFICES ASSUME NEW p \in Periods, snapshots'[p] # None, ~snapshots'[p].raced,
                        NEW i \in OfPeriod(p, Len(contributions))'
                 PROVE  Covered(i, p, snapshots[p])'
      BY DEF SnapshotsAreFresh
    <3>1. p # invalidating /\ snapshots'[p] = snapshots[p]
      BY <1>0, <2>1 DEF TypeOK
    <3>2. Covered(i, p, snapshots[p])
      BY <2>1, <3>1 DEF FreshInv, SnapshotsAreFresh, OfPeriod
    <3>3. QED
      BY <3>1, <3>2 DEF Covered
  <2>7. DistributionIsCurrent'
    <3> SUFFICES ASSUME NEW w \in Workers, requests'[w].step = "exported",
                        ~requests'[w].snapshot.raced
                 PROVE  OfPeriod(requests[w].period, requests[w].asked)'
                            \subseteq 1 .. requests'[w].snapshot.seen
      BY DEF DistributionIsCurrent
    <3>1. requests'[w] = requests[w]
      BY <2>2, <2>3
    <3>2. QED
      BY <2>1, <3>1 DEF FreshInv, DistributionIsCurrent, OfPeriod
  <2>8. QED
    BY <2>4, <2>5, <2>6, <2>7
<1>3. ASSUME NEW w \in Workers, NEW p \in Periods, NEW average \in Averages, NEW cap \in Caps,
             BeginRecalculation(w, p, average, cap)
      PROVE  ReadingsInLedger' /\ RecalculationsAreFresh' /\ SnapshotsAreFresh'
                 /\ DistributionIsCurrent'
  <2> DEFINE r == [step |-> "recalculating", period |-> p, snapshot |-> Reading(average, cap)]
  <2>1. /\ r \in Recalculation
        /\ r.snapshot.seen = Len(contributions)
    BY <1>0, ReadingType DEF Recalculation
  <2>2. /\ requests'[w] = r
        /\ \A v \in Workers : v # w => requests'[v] = requests[v]
    BY <1>0, <1>3, <2>1, RequestMoves DEF BeginRecalculation
  <2>3. UNCHANGED <<contributions, snapshots, invalidating>>
    BY <1>3 DEF BeginRecalculation
  <2>4. ReadingsInLedger'
    BY <1>0, <2>1, <2>2, <2>3 DEF FreshInv, ReadingsInLedger, TypeOK
  <2>5. \A i \in OfPeriod(p, Len(contributions)) : Covered(i, p, r.snapshot)
    BY <1>0, FullReadingIsFresh
  <2>6. RecalculationsAreFresh'
    BY <2>2, <2>3, <2>5 DEF FreshInv, RecalculationsAreFresh, OfPeriod, Covered
  <2>7. SnapshotsAreFresh'
    BY <2>3 DEF FreshInv, SnapshotsAreFresh, OfPeriod, Covered
  <2>8. DistributionIsCurrent'
    BY <2>2, <2>3 DEF FreshInv, DistributionIsCurrent, OfPeriod
  <2>9. QED
    BY <2>4, <2>6, <2>7, <2>8
<1>4. ASSUME NEW w \in Workers, SaveSnapshot(w)
      PROVE  ReadingsInLedger' /\ RecalculationsAreFresh' /\ SnapshotsAreFresh'
                 /\ DistributionIsCurrent'
  <2>1. requests[w] \in Recalculation
    BY <1>0, <1>4, RequestKinds DEF SaveSnapshot
  <2>2. /\ requests'[w] = Idle
        /\ \A v \in Workers : v # w => requests'[v] = requests[v]
    BY <1>0, <1>4, RequestMoves DEF SaveSnapshot
  <2>3. /\ snapshots'[requests[w].period] = requests[w].snapshot
        /\ \A p \in Periods : p # requests[w].period => snapshots'[p] = snapshots[p]
    BY <1>0, <1>4, <2>1 DEF SaveSnapshot, TypeOK, Recalculation
  <2>4. UNCHANGED <<contributions, invalidating>>
    BY <1>4 DEF SaveSnapshot
  <2>5. ReadingsInLedger'
    BY <1>4, <2>2, <2>3, <2>4 DEF FreshInv, ReadingsInLedger, SaveSnapshot, Idle
  <2>6. RecalculationsAreFresh'
    BY <2>2, <2>4 DEF FreshInv, RecalculationsAreFresh, OfPeriod, Covered, Idle
  <2>7. SnapshotsAreFresh'
    BY <1>4, <2>3, <2>4
       DEF FreshInv, SnapshotsAreFresh, RecalculationsAreFresh, SaveSnapshot, OfPeriod, Covered
  <2>8. DistributionIsCurrent'
    BY <2>2, <2>4 DEF FreshInv, DistributionIsCurrent, OfPeriod, Idle
  <2>9. QED
    BY <2>5, <2>6, <2>7, <2>8
<1>5. ASSUME NEW w \in Workers, NEW p \in Periods, AskDistribution(w, p)
      PROVE  ReadingsInLedger' /\ RecalculationsAreFresh' /\ SnapshotsAreFresh'
                 /\ DistributionIsCurrent'
  <2>1. /\ Answered \in Nat
        /\ Answered <= Len(contributions)
        /\ invalidating # None => Answered = Len(contributions) - 1
    BY <1>0, AnsweredType DEF Underway
  <2>2. UNCHANGED <<contributions, snapshots, invalidating>>
    BY <1>5 DEF AskDistribution
  <2>3. SnapshotsAreFresh'
    BY <2>2 DEF FreshInv, SnapshotsAreFresh, OfPeriod, Covered
  <2>4. CASE snapshots[p] # None
    <3>1. Exported(p, Answered, snapshots[p]) \in Export
      BY <1>0, <2>1, <2>4 DEF Exported, Export, TypeOK
    <3>2. /\ requests'[w] = Exported(p, Answered, snapshots[p])
          /\ \A v \in Workers : v # w => requests'[v] = requests[v]
      BY <1>0, <1>5, <2>4, <3>1, RequestMoves DEF AskDistribution
    <3>3. ReadingsInLedger' /\ RecalculationsAreFresh'
      BY <2>1, <2>2, <2>4, <3>2
         DEF FreshInv, ReadingsInLedger, RecalculationsAreFresh, Exported, OfPeriod, Covered
    <3>4. ~snapshots[p].raced => OfPeriod(p, Answered) \subseteq 1 .. snapshots[p].seen
      <4> SUFFICES ASSUME ~snapshots[p].raced, NEW i \in OfPeriod(p, Answered)
                   PROVE  i \in 1 .. snapshots[p].seen
        OBVIOUS
      <4>1. i \in 1 .. Answered /\ i \in OfPeriod(p, Len(contributions))
        BY <1>0, <2>1 DEF OfPeriod, TypeOK
      <4>2. Covered(i, p, snapshots[p])
        BY <2>4, <4>1 DEF FreshInv, SnapshotsAreFresh
      <4>3. ~(i = Len(contributions) /\ invalidating = p)
        BY <1>0, <2>1, <4>1 DEF TypeOK
      <4>4. snapshots[p].seen \in Nat
        BY <1>0, <2>4 DEF TypeOK, Snapshot
      <4>5. QED
        BY <2>1, <4>1, <4>2, <4>3, <4>4 DEF Covered
    <3>5. DistributionIsCurrent'
      BY <2>2, <3>2, <3>4 DEF FreshInv, DistributionIsCurrent, Exported, OfPeriod
    <3>6. QED
      BY <2>3, <3>3, <3>5
  <2>5. CASE snapshots[p] = None
    <3> DEFINE r == [step |-> "reading", period |-> p, asked |-> Answered]
    <3>1. r \in Lookup
      BY <2>1 DEF Lookup
    <3>2. /\ requests'[w] = r
          /\ \A v \in Workers : v # w => requests'[v] = requests[v]
      BY <1>0, <1>5, <2>5, <3>1, RequestMoves DEF AskDistribution
    <3>3. QED
      BY <2>1, <2>2, <2>3, <3>2
         DEF FreshInv, ReadingsInLedger, RecalculationsAreFresh, DistributionIsCurrent,
             OfPeriod, Covered
  <2>6. QED
    BY <2>4, <2>5
<1>6. ASSUME NEW w \in Workers, CalculateDistribution(w)
      PROVE  ReadingsInLedger' /\ RecalculationsAreFresh' /\ SnapshotsAreFresh'
                 /\ DistributionIsCurrent'
  <2> DEFINE r == Exported(requests[w].period, requests[w].asked, Reading(None, CouncilCap))
  <2>1. requests[w] \in Lookup /\ requests[w].asked <= Len(contributions)
    BY <1>0, <1>6, RequestKinds DEF CalculateDistribution, FreshInv, ReadingsInLedger
  <2>2. r \in Export /\ r.snapshot.seen = Len(contributions)
    BY <1>0, <2>1, ReadingType DEF Exported, Export, Lookup
  <2>3. /\ requests'[w] = r
        /\ \A v \in Workers : v # w => requests'[v] = requests[v]
    BY <1>0, <1>6, <2>2, RequestMoves DEF CalculateDistribution
  <2>4. UNCHANGED <<contributions, snapshots, invalidating>>
    BY <1>6 DEF CalculateDistribution
  <2>5. ReadingsInLedger' /\ RecalculationsAreFresh' /\ SnapshotsAreFresh'
    <3>1. ReadingsInLedger'
      BY <1>0, <2>1, <2>2, <2>3, <2>4 DEF FreshInv, ReadingsInLedger, Exported, TypeOK
    <3>2. RecalculationsAreFresh'
      BY <2>3, <2>4 DEF FreshInv, RecalculationsAreFresh, Exported, OfPeriod, Covered
    <3>3. SnapshotsAreFresh'
      BY <2>4 DEF FreshInv, SnapshotsAreFresh, OfPeriod, Covered
    <3>4. QED
      BY <3>1, <3>2, <3>3
  <2>6. OfPeriod(requests[w].period, requests[w].asked) \subseteq 1 .. Len(contributions)
    BY <1>0, <2>1 DEF OfPeriod, Lookup, TypeOK
  <2>7. DistributionIsCurrent'
    BY <2>2, <2>3, <2>4, <2>6 DEF FreshInv, DistributionIsCurrent, Exported, OfPeriod
  <2>8. QED
    BY <2>5, <2>7
<1>7. ASSUME NEW w \in Workers, Return(w)
      PROVE  ReadingsInLedger' /\ RecalculationsAreFresh' /\ SnapshotsAreFresh'
                 /\ DistributionIsCurrent'
  <2>1. /\ requests'[w] = Idle
        /\ \A v \in Workers : v # w => requests'[v] = requests[v]
    BY <1>0, <1>7, RequestMoves DEF Return
  <2>2. QED
    BY <1>7, <2>1
       DEF Return, FreshInv, ReadingsInLedger, RecalculationsAreFresh, SnapshotsAreFresh,
           DistributionIsCurrent, Idle, OfPeriod, Covered
<1>8. ASSUME UNCHANGED vars
      PROVE  ReadingsInLedger' /\ RecalculationsAreFresh' /\ SnapshotsAreFresh'
                 /\ DistributionIsCurrent'
  BY <1>8
     DEF vars, FreshInv, ReadingsInLedger, RecalculationsAreFresh, SnapshotsAreFresh,
         DistributionIsCurrent, OfPeriod, Covered
<1>9. QED
  BY <1>0, <1>1, <1>2, <1>3, <1>4, <1>5, <1>6, <1>7, <1>8 DEF Next, FreshInv

LEMMA FreshInitially == Init => FreshInv
BY TypeInitially
   DEF Init, FreshInv, ReadingsInLedger, RecalculationsAreFresh, SnapshotsAreFresh,
       DistributionIsCurrent, Idle

\* A stored snapshot is behind only where a recalculation overlapped a
\* registration: save_weight_snapshot has no other way to lose one.
THEOREM SnapshotFreshness == Spec => []SnapshotsAreFresh
<1>1. Spec => []FreshInv
  BY FreshInitially, FreshInductive, PTL DEF Spec
<1>2. FreshInv => SnapshotsAreFresh
  BY DEF FreshInv
<1>3. QED
  BY <1>1, <1>2, PTL

\* A distribution counts every contribution of its period that was answered
\* before the distribution was asked for, with the same exception
\* (get_payout_distribution).
THEOREM DistributionCurrency == Spec => []DistributionIsCurrent
<1>1. Spec => []FreshInv
  BY FreshInitially, FreshInductive, PTL DEF Spec
<1>2. FreshInv => DistributionIsCurrent
  BY DEF FreshInv
<1>3. QED
  BY <1>1, <1>2, PTL

\* Snapshots and the distributions exported from them are current together, for
\* any workers and registrations (add_contribution, get_payout_distribution).
THEOREM ReadingsStayCurrent == Spec => []ReadingsAreCurrent
BY TypeCorrect, SnapshotFreshness, DistributionCurrency, PTL DEF ReadingsAreCurrent

-----------------------------------------------------------------------------
(* Idempotency.                                                            *)

\* Contribution i was published by events 2i - 1 and 2i, and by no others.
EventsPaired ==
    /\ Len(events) = 2 * Len(contributions)
    /\ \A i \in 1 .. Len(contributions) :
           /\ events[2*i - 1] = [type |-> "contribution.recorded", key |-> contributions[i].key]
           /\ events[2*i] = [type |-> "audit.record.requested", key |-> contributions[i].key]

KeysDiffer ==
    \A i, j \in DOMAIN contributions : contributions[i].key = contributions[j].key => i = j

IdempotencyInv == TypeOK /\ Underway /\ EventsPaired /\ KeysDiffer

\* Of the events with key k and a type, one is that of the contribution with
\* the key; without one there is none.
LEMMA OneEventPerContribution == IdempotencyInv => KeyRegistersOnce
<1> SUFFICES ASSUME IdempotencyInv PROVE KeyRegistersOnce
  OBVIOUS
<1>1. DOMAIN contributions = 1 .. Len(contributions) /\ Len(contributions) \in Nat
      /\ DOMAIN events = 1 .. Len(events)
  BY DEF IdempotencyInv, TypeOK
<1>2. ASSUME NEW e \in DOMAIN events
      PROVE  \E i \in DOMAIN contributions :
                 (e = 2*i - 1 \/ e = 2*i) /\ events[e].key = contributions[i].key
  <2>1. e \in Nat /\ 1 <= e /\ e <= 2 * Len(contributions)
    BY <1>1, <1>2 DEF IdempotencyInv, EventsPaired
  <2> DEFINE i == (e + 1) \div 2
  <2>2. i \in Nat /\ (e = 2*i - 1 \/ e = 2*i)
    BY <2>1
  <2>3. i \in 1 .. Len(contributions)
    BY <1>1, <2>1, <2>2
  <2>4. /\ events[2*i - 1].key = contributions[i].key
        /\ events[2*i].key = contributions[i].key
    <3> HIDE DEF i
    <3>1. /\ events[2*i - 1]
                = [type |-> "contribution.recorded", key |-> contributions[i].key]
          /\ events[2*i] = [type |-> "audit.record.requested", key |-> contributions[i].key]
      BY <2>3 DEF IdempotencyInv, EventsPaired
    <3>2. QED
      BY <3>1
  <2>5. events[e].key = contributions[i].key
    <3> HIDE DEF i
    <3>1. CASE e = 2*i - 1
      BY <2>4, <3>1
    <3>2. CASE e = 2*i
      BY <2>4, <3>2
    <3>3. QED
      BY <2>2, <3>1, <3>2
  <2>6. QED
    BY <1>1, <2>2, <2>3, <2>5
<1>3. ASSUME NEW k \in Keys, NEW type \in EventTypes, ~Registered(k)
      PROVE  EventsOf(k, type) = {}
  <2> SUFFICES ASSUME NEW e \in DOMAIN events, events[e] = [type |-> type, key |-> k]
               PROVE  FALSE
    BY DEF EventsOf
  <2>1. PICK i \in DOMAIN contributions : events[e].key = contributions[i].key
    BY <1>2
  <2>2. QED
    BY <1>3, <2>1 DEF Registered
<1>4. ASSUME NEW k \in Keys, NEW type \in EventTypes, Registered(k)
      PROVE  \E e : EventsOf(k, type) = {e}
  <2>1. PICK i \in DOMAIN contributions : contributions[i].key = k
    BY <1>4 DEF Registered
  <2>2. \A e \in DOMAIN events : events[e].key = k => e = 2*i - 1 \/ e = 2*i
    <3> SUFFICES ASSUME NEW e \in DOMAIN events, events[e].key = k
                 PROVE  e = 2*i - 1 \/ e = 2*i
      OBVIOUS
    <3>1. PICK j \in DOMAIN contributions :
              (e = 2*j - 1 \/ e = 2*j) /\ events[e].key = contributions[j].key
      BY <1>2
    <3>2. i = j
      BY <2>1, <3>1 DEF IdempotencyInv, KeysDiffer
    <3>3. QED
      BY <3>1, <3>2
  <2>3. /\ 2*i - 1 \in DOMAIN events /\ 2*i \in DOMAIN events
        /\ events[2*i - 1] = [type |-> "contribution.recorded", key |-> k]
        /\ events[2*i] = [type |-> "audit.record.requested", key |-> k]
    BY <1>1, <2>1 DEF IdempotencyInv, EventsPaired
  <2>4. CASE type = "contribution.recorded"
    <3>1. EventsOf(k, type) = {2*i - 1}
      BY <2>2, <2>3, <2>4 DEF EventsOf
    <3>2. QED
      BY <3>1
  <2>5. CASE type = "audit.record.requested"
    <3>1. EventsOf(k, type) = {2*i}
      BY <2>2, <2>3, <2>5 DEF EventsOf
    <3>2. QED
      BY <3>1
  <2>6. QED
    BY <2>4, <2>5 DEF EventTypes
<1>5. ASSUME NEW k \in Keys, NEW type \in EventTypes
      PROVE  Cardinality(EventsOf(k, type)) = IF Registered(k) THEN 1 ELSE 0
  <2>1. CASE Registered(k)
    <3>1. PICK e : EventsOf(k, type) = {e}
      BY <1>4, <2>1
    <3>2. Cardinality({e}) = 1
      BY FS_Singleton
    <3>3. QED
      BY <2>1, <3>1, <3>2
  <2>2. CASE ~Registered(k)
    BY <1>3, <2>2, FS_EmptySet
  <2>3. QED
    BY <2>1, <2>2
<1>6. QED
  BY <1>5 DEF KeyRegistersOnce, IdempotencyInv, KeysDiffer

\* Only a registration with a new key writes events or contributions.
LEMMA IdempotencyInductive == IdempotencyInv /\ [Next]_vars => IdempotencyInv'
<1> SUFFICES ASSUME IdempotencyInv, [Next]_vars PROVE IdempotencyInv'
  OBVIOUS
<1>0. TypeOK /\ TypeOK' /\ Underway'
  BY TypeInductive DEF IdempotencyInv
<1>1. ASSUME NEW k \in Keys, NEW m \in Members, NEW p \in Periods, NEW points \in Points,
             RegisterContribution(k, m, p, points)
      PROVE  EventsPaired' /\ KeysDiffer'
  <2>1. /\ Len(contributions') = Len(contributions) + 1
        /\ \A i \in 1 .. Len(contributions) : contributions'[i] = contributions[i]
        /\ contributions'[Len(contributions) + 1].key = k
        /\ Len(contributions) \in Nat
    BY <1>0, <1>1, AppendedContribution DEF TypeOK
  <2>2. /\ Len(events') = Len(events) + 2
        /\ \A e \in 1 .. Len(events) : events'[e] = events[e]
        /\ events'[Len(events) + 1] = [type |-> "contribution.recorded", key |-> k]
        /\ events'[Len(events) + 2] = [type |-> "audit.record.requested", key |-> k]
    BY <1>0, <1>1 DEF RegisterContribution, TypeOK
  <2>3. EventsPaired'
    <3>1. Len(events') = 2 * Len(contributions')
      BY <2>1, <2>2 DEF IdempotencyInv, EventsPaired
    <3>2. ASSUME NEW i \in 1 .. Len(contributions')
          PROVE  /\ events'[2*i - 1] = [type |-> "contribution.recorded",
                                        key |-> contributions'[i].key]
                 /\ events'[2*i] = [type |-> "audit.record.requested",
                                    key |-> contributions'[i].key]
      <4>1. CASE i = Len(contributions) + 1
        <5>1. 2*i - 1 = Len(events) + 1 /\ 2*i = Len(events) + 2
          BY <2>1, <4>1 DEF IdempotencyInv, EventsPaired
        <5>2. QED
          BY <2>1, <2>2, <4>1, <5>1
      <4>2. CASE i \in 1 .. Len(contributions)
        <5>1. 2*i - 1 \in 1 .. Len(events) /\ 2*i \in 1 .. Len(events)
          BY <2>1, <4>2 DEF IdempotencyInv, EventsPaired
        <5>2. QED
          BY <2>1, <2>2, <4>2, <5>1 DEF IdempotencyInv, EventsPaired
      <4>3. QED
        BY <2>1, <4>1, <4>2
    <3>3. QED
      BY <3>1, <3>2 DEF EventsPaired
  <2>4. \A i \in DOMAIN contributions : contributions[i].key # k
    BY <1>1 DEF RegisterContribution, Registered
  <2>5. DOMAIN contributions' = 1 .. Len(contributions) + 1
            /\ DOMAIN contributions = 1 .. Len(contributions)
    BY <1>0, <2>1 DEF TypeOK
  <2>6. KeysDiffer'
    BY <2>1, <2>4, <2>5 DEF IdempotencyInv, KeysDiffer
  <2>7. QED
    BY <2>3, <2>6
<1>2. ASSUME UNCHANGED <<contributions, events>> PROVE EventsPaired' /\ KeysDiffer'
  BY <1>2 DEF IdempotencyInv, EventsPaired, KeysDiffer
<1>3. CASE Next
  BY <1>0, <1>1, <1>2, <1>3
     DEF IdempotencyInv, Next, DropSnapshot, BeginRecalculation, SaveSnapshot, AskDistribution,
         CalculateDistribution, Return
<1>4. CASE UNCHANGED vars
  BY <1>0, <1>2, <1>4 DEF vars, IdempotencyInv
<1>5. QED
  BY <1>3, <1>4

\* However often a client repeats a request, its key registers one
\* contribution, announced by one event to consumers and one to the auditor
\* (register_contribution).
THEOREM KeysRegisterOnce == Spec => []KeyRegistersOnce
<1>1. Init => IdempotencyInv
  BY TypeInitially DEF Init, IdempotencyInv, EventsPaired, KeysDiffer
<1>2. Spec => []IdempotencyInv
  BY <1>1, IdempotencyInductive, PTL DEF Spec
<1>3. QED
  BY <1>2, OneEventPerContribution, PTL


-----------------------------------------------------------------------------
(* Sums over finite sets: what Total unfolds, for any finite domain.       *)

\* Every set of numbers that is not empty has a least one: what stands for
\* induction here.
LEMMA LeastNat ==
    ASSUME NEW S, S \subseteq Nat, S # {}
    PROVE  \E n \in S : \A m \in S : n <= m
<1>1. PICK n \in S : \A m \in S : ~(<<m, n>> \in OpToRel(<, Nat))
  BY NatLessThanWellFounded, WFMin
<1>2. \A m \in S : m < n => <<m, n>> \in OpToRel(<, Nat)
  BY DEF OpToRel
<1>3. \A m \in S : ~(m < n)
  BY <1>1, <1>2, Zenon
<1> QED
  BY <1>3

\* The member of a set that the fold takes next, and the rest.
First(s) == CHOOSE x \in s : TRUE
Rest(s) == s \ {First(s)}

LEMMA RestIsSmaller ==
    ASSUME NEW D, IsFiniteSet(D), NEW s \in SUBSET D, s # {}
    PROVE  /\ First(s) \in s /\ First(s) \in D
           /\ Rest(s) \in SUBSET D
           /\ Cardinality(s) \in Nat /\ Cardinality(Rest(s)) \in Nat
           /\ Cardinality(s) = Cardinality(Rest(s)) + 1
<1>1. First(s) \in s
  BY DEF First
<1>2. IsFiniteSet(s)
  BY FS_Subset
<1>3. Cardinality(Rest(s)) = Cardinality(s) - 1 /\ IsFiniteSet(Rest(s))
  BY <1>1, <1>2, FS_RemoveElement DEF Rest
<1>4. Cardinality(s) \in Nat /\ Cardinality(Rest(s)) \in Nat
  BY <1>2, <1>3, FS_CardinalityType
<1> QED
  BY <1>1, <1>3, <1>4 DEF Rest

\* Induction over the subsets of a finite set.
LEMMA EverySubset ==
    ASSUME NEW D, IsFiniteSet(D), NEW S, {} \in S,
           \A s \in SUBSET D : s # {} /\ Rest(s) \in S => s \in S
    PROVE  SUBSET D \subseteq S
<1> SUFFICES ASSUME NEW bad \in SUBSET D, bad \notin S
             PROVE  FALSE
  OBVIOUS
<1> DEFINE Sizes == {Cardinality(s) : s \in {t \in SUBSET D : t \notin S}}
<1>1. \A s \in SUBSET D : Cardinality(s) \in Nat
  BY FS_Subset, FS_CardinalityType
<1>2. Sizes \subseteq Nat /\ Sizes # {}
  BY <1>1
<1>3. PICK n \in Sizes : \A k \in Sizes : n <= k
  BY <1>2, LeastNat
<1>4. PICK s \in SUBSET D : s \notin S /\ n = Cardinality(s)
  BY <1>3
<1>5. s # {}
  BY <1>4
<1>6. Rest(s) \in SUBSET D /\ Cardinality(Rest(s)) \in Nat /\ n = Cardinality(Rest(s)) + 1
  BY <1>4, <1>5, RestIsSmaller
<1>7. Rest(s) \notin S
  BY <1>4, <1>5
<1>8. Cardinality(Rest(s)) \in Sizes
  BY <1>6, <1>7
<1> HIDE DEF Sizes
<1>9. n <= Cardinality(Rest(s)) /\ n \in Nat
  BY <1>2, <1>3, <1>8
<1> QED
  BY <1>6, <1>9

\* f sums v over the subsets of D.
Folds(f, v, D) ==
    /\ f \in [SUBSET D -> Int]
    /\ f[{}] = 0
    /\ \A s \in SUBSET D : s # {} => f[s] = v[First(s)] + f[Rest(s)]

Small(D, n) == {s \in SUBSET D : Cardinality(s) <= n}

FoldsSmall(f, v, D, n) ==
    /\ f \in [Small(D, n) -> Int]
    /\ \A s \in Small(D, n) :
           f[s] = IF s = {} THEN 0 ELSE v[First(s)] + f[Rest(s)]

FoldsTo(v, D, n) == \E f : FoldsSmall(f, v, D, n)

LEMMA SumsExist ==
    ASSUME NEW D, IsFiniteSet(D), NEW v \in [D -> Int]
    PROVE  \E f : Folds(f, v, D)
<1> DEFINE Bad == {n \in Nat : ~FoldsTo(v, D, n)}
<1>1. Cardinality(D) \in Nat /\ \A s \in SUBSET D : Cardinality(s) <= Cardinality(D)
                              /\ Cardinality(s) \in Nat
  BY FS_Subset, FS_CardinalityType
<1>2. Bad = {}
  <2> SUFFICES ASSUME Bad # {}
               PROVE  FALSE
    OBVIOUS
  <2>1. PICK n \in Bad : \A k \in Bad : n <= k
    <3>1. Bad \subseteq Nat
      OBVIOUS
    <3> HIDE DEF Bad
    <3> QED
      BY <3>1, LeastNat
  <2>2. n # 0
    <3> SUFFICES FoldsTo(v, D, 0)
      BY <2>1
    <3>1. Small(D, 0) = {{}}
      <4>1. Cardinality({}) = 0 /\ {} \in SUBSET D
        BY FS_EmptySet
      <4>2. ASSUME NEW s \in SUBSET D, Cardinality(s) <= 0 PROVE s = {}
        BY <4>2, <1>1, FS_Subset, FS_EmptySet
      <4> QED
        BY <4>1, <4>2 DEF Small
    <3>2. FoldsSmall([s \in Small(D, 0) |-> 0], v, D, 0)
      BY <3>1 DEF FoldsSmall
    <3> QED
      BY <3>2 DEF FoldsTo
  <2> DEFINE k == n - 1
  <2>3. k \in Nat /\ k + 1 = n /\ FoldsTo(v, D, k)
    BY <2>1, <2>2
  <2> HIDE DEF k
  <2>4. PICK g : FoldsSmall(g, v, D, k)
    BY <2>3 DEF FoldsTo
  <2> DEFINE f == [s \in Small(D, n) |-> IF s = {} THEN 0 ELSE v[First(s)] + g[Rest(s)]]
  <2>5. \A s \in Small(D, n) : s # {} => Rest(s) \in Small(D, k) /\ v[First(s)] \in Int
                                         /\ Rest(s) \in Small(D, n)
    BY <1>1, <2>1, <2>3, RestIsSmaller DEF Small
  <2>6. \A s \in Small(D, k) : s \in Small(D, n)
    BY <1>1, <2>1, <2>3 DEF Small
  <2>7. f \in [Small(D, n) -> Int]
    BY <2>4, <2>5 DEF FoldsSmall
  <2>8. \A s \in Small(D, k) : f[s] = g[s]
    BY <2>4, <2>6 DEF FoldsSmall
  <2>9. FoldsSmall(f, v, D, n)
    BY <2>5, <2>7, <2>8 DEF FoldsSmall
  <2> QED
    BY <2>1, <2>9 DEF FoldsTo
<1>3. PICK f : FoldsSmall(f, v, D, Cardinality(D))
  BY <1>1, <1>2 DEF FoldsTo
<1>4. Small(D, Cardinality(D)) = SUBSET D
  BY <1>1 DEF Small
<1>5. Folds(f, v, D)
  BY <1>3, <1>4 DEF Folds, FoldsSmall
<1> QED
  BY <1>5

\* What Total returns is the sum over the whole domain.
LEMMA TotalFolds ==
    ASSUME NEW D, IsFiniteSet(D), NEW v \in [D -> Int]
    PROVE  \E f : Folds(f, v, D) /\ Total(v) = f[D]
<1> DEFINE Unfolds(f) == f = [s \in SUBSET D |->
                                 IF s = {} THEN 0 ELSE v[First(s)] + f[Rest(s)]]
           iter == CHOOSE f : Unfolds(f)
<1>1. Total(v) = iter[D]
  BY DEF Total, FoldFunction, FoldFunctionOnSet, MapThenFoldSet, First, Rest
<1>2. PICK g : Folds(g, v, D)
  BY SumsExist
<1>3. Unfolds(g)
  <2>1. g = [s \in SUBSET D |-> g[s]]
    BY <1>2 DEF Folds
  <2>2. \A s \in SUBSET D : g[s] = IF s = {} THEN 0 ELSE v[First(s)] + g[Rest(s)]
    BY <1>2 DEF Folds
  <2> QED
    BY <2>1, <2>2
<1>4. Unfolds(iter)
  BY <1>3
<1> HIDE DEF iter
<1> DEFINE S == {s \in SUBSET D : iter[s] = g[s]}
<1>5. {} \in S
  BY <1>2, <1>4 DEF Folds
<1>6. \A s \in SUBSET D : s # {} /\ Rest(s) \in S => s \in S
  <2> TAKE s \in SUBSET D
  <2> HAVE s # {} /\ Rest(s) \in S
  <2>1. iter[s] = v[First(s)] + iter[Rest(s)]
    BY <1>4
  <2>2. g[s] = v[First(s)] + g[Rest(s)]
    BY <1>2 DEF Folds
  <2> QED
    BY <2>1, <2>2
<1> HIDE DEF S
<1>7. SUBSET D \subseteq S
  BY <1>5, <1>6, EverySubset
<1>8. iter[D] = g[D]
  BY <1>7 DEF S
<1> QED
  BY <1>1, <1>2, <1>8

\* What of a sum changes with one of its values.
LEMMA TotalChange ==
    ASSUME NEW D, IsFiniteSet(D), NEW v \in [D -> Int], NEW w \in [D -> Int], NEW m \in D,
           \A i \in D : i # m => w[i] = v[i]
    PROVE  Total(v) \in Int /\ Total(w) = Total(v) + (w[m] - v[m])
<1>1. PICK f : Folds(f, v, D) /\ Total(v) = f[D]
  BY TotalFolds
<1>2. PICK g : Folds(g, w, D) /\ Total(w) = g[D]
  BY TotalFolds
<1> DEFINE S == {s \in SUBSET D : g[s] = f[s] + IF m \in s THEN w[m] - v[m] ELSE 0}
<1>3. {} \in S
  BY <1>1, <1>2 DEF Folds
<1>4. \A s \in SUBSET D : s # {} /\ Rest(s) \in S => s \in S
  <2> TAKE s \in SUBSET D
  <2> HAVE s # {} /\ Rest(s) \in S
  <2>1. /\ First(s) \in s /\ First(s) \in D /\ Rest(s) \in SUBSET D
        /\ f[s] = v[First(s)] + f[Rest(s)] /\ g[s] = w[First(s)] + g[Rest(s)]
        /\ f[Rest(s)] \in Int /\ v[First(s)] \in Int /\ v[m] \in Int /\ w[m] \in Int
    BY <1>1, <1>2, RestIsSmaller DEF Folds
  <2>2. CASE First(s) = m
    <3>1. m \in s /\ m \notin Rest(s)
      BY <2>1, <2>2 DEF Rest
    <3>2. g[Rest(s)] = f[Rest(s)]
      BY <2>1, <3>1
    <3> QED
      BY <2>1, <2>2, <3>1, <3>2
  <2>3. CASE First(s) # m
    <3>1. (m \in s) <=> (m \in Rest(s))
      BY <2>1, <2>3 DEF Rest
    <3>2. g[Rest(s)] = f[Rest(s)] + IF m \in s THEN w[m] - v[m] ELSE 0
      BY <3>1
    <3>3. w[First(s)] = v[First(s)]
      BY <2>1, <2>3
    <3>4. g[s] = f[s] + IF m \in s THEN w[m] - v[m] ELSE 0
      BY <2>1, <3>2, <3>3
    <3> QED
      BY <3>4
  <2> QED
    BY <2>2, <2>3
<1> HIDE DEF S
<1>5. D \in S
  BY <1>3, <1>4, EverySubset
<1>6. g[D] = f[D] + (w[m] - v[m]) /\ f[D] \in Int
  BY <1>1, <1>5 DEF S, Folds
<1> QED
  BY <1>1, <1>2, <1>6

\* Sums of numbers are numbers, and bounded when their values are.
LEMMA TotalBounds ==
    ASSUME NEW D, IsFiniteSet(D), NEW v \in [D -> Nat], NEW b \in Nat,
           \A i \in D : v[i] <= b
    PROVE  Total(v) \in Nat /\ Total(v) <= Cardinality(D) * b
<1>0. v \in [D -> Int]
  OBVIOUS
<1>1. PICK f : Folds(f, v, D) /\ Total(v) = f[D]
  BY <1>0, TotalFolds
<1> DEFINE S == {s \in SUBSET D : f[s] \in Nat /\ f[s] <= Cardinality(s) * b}
<1>2. {} \in S
  BY <1>1, FS_EmptySet DEF Folds
<1>3. \A s \in SUBSET D : s # {} /\ Rest(s) \in S => s \in S
  <2> TAKE s \in SUBSET D
  <2> HAVE s # {} /\ Rest(s) \in S
  <2> DEFINE c == Cardinality(Rest(s))
  <2>1. /\ First(s) \in D /\ Cardinality(s) = c + 1 /\ c \in Nat
        /\ f[s] = v[First(s)] + f[Rest(s)]
    BY <1>1, RestIsSmaller DEF Folds
  <2>2. v[First(s)] \in Nat /\ v[First(s)] <= b /\ f[Rest(s)] \in Nat /\ f[Rest(s)] <= c * b
    BY <2>1
  <2> HIDE DEF c
  <2>3. (c + 1) * b = c * b + b /\ c * b \in Nat
    BY <2>1
  <2>4. f[s] \in Nat /\ f[s] <= Cardinality(s) * b
    BY <2>1, <2>2, <2>3
  <2> QED
    BY <2>4
<1> HIDE DEF S
<1>4. D \in S
  BY <1>2, <1>3, EverySubset
<1> QED
  BY <1>1, <1>4 DEF S

\* The greatest value of a function of numbers, on a finite domain.
LEMMA ValuesBounded ==
    ASSUME NEW D, IsFiniteSet(D), NEW v \in [D -> Nat]
    PROVE  \E b \in Nat : \A i \in D : v[i] <= b
<1> DEFINE S == {s \in SUBSET D : \E b \in Nat : \A i \in s : v[i] <= b}
<1>1. {} \in S
  OBVIOUS
<1>2. \A s \in SUBSET D : s # {} /\ Rest(s) \in S => s \in S
  <2> TAKE s \in SUBSET D
  <2> HAVE s # {} /\ Rest(s) \in S
  <2>1. PICK b \in Nat : \A i \in Rest(s) : v[i] <= b
    OBVIOUS
  <2>2. First(s) \in D /\ v[First(s)] \in Nat /\ \A i \in s : i = First(s) \/ i \in Rest(s)
    BY RestIsSmaller DEF Rest
  <2> DEFINE c == b + v[First(s)]
  <2>3. c \in Nat /\ \A i \in s : v[i] <= c
    BY <2>1, <2>2
  <2> HIDE DEF c
  <2> QED
    BY <2>3
<1> HIDE DEF S
<1>3. D \in S
  BY <1>1, <1>2, EverySubset
<1> QED
  BY <1>3 DEF S

LEMMA TotalType ==
    ASSUME NEW D, IsFiniteSet(D), NEW v \in [D -> Nat]
    PROVE  Total(v) \in Nat
BY ValuesBounded, TotalBounds

\* A sum of numbers is no less than any of them.
LEMMA TotalCovers ==
    ASSUME NEW D, IsFiniteSet(D), NEW v \in [D -> Nat], NEW w \in [D -> Nat], NEW m \in D,
           w[m] = 0, \A i \in D : i # m => w[i] = v[i]
    PROVE  /\ Total(v) \in Nat /\ Total(w) \in Nat
           /\ Total(v) = v[m] + Total(w)
<1>1. v \in [D -> Int] /\ w \in [D -> Int] /\ v[m] \in Int
  OBVIOUS
<1>2. Total(w) = Total(v) + (w[m] - v[m])
  BY <1>1, TotalChange
<1>3. Total(v) \in Nat /\ Total(w) \in Nat
  BY TotalType
<1> QED
  BY <1>1, <1>2, <1>3

LEMMA Distributes ==
    ASSUME NEW a \in Int, NEW b \in Int, NEW c \in Int
    PROVE  (a + b) * c = a * c + b * c /\ a * c \in Int /\ b * c \in Int
OBVIOUS

\* Two sums are in the proportion of t to u as far as their values are.
LEMMA TotalsClose ==
    ASSUME NEW D, IsFiniteSet(D), NEW v \in [D -> Nat], NEW w \in [D -> Nat],
           NEW t \in Nat, NEW u \in Nat,
           \A i \in D : 2 * Apart(v[i] * t, w[i] * u) <= t
    PROVE  2 * Apart(Total(v) * t, Total(w) * u) <= Cardinality(D) * t
<1>0. v \in [D -> Int] /\ w \in [D -> Int]
  OBVIOUS
<1>1. PICK f : Folds(f, v, D) /\ Total(v) = f[D]
  BY <1>0, TotalFolds
<1>2. PICK g : Folds(g, w, D) /\ Total(w) = g[D]
  BY <1>0, TotalFolds
<1> DEFINE S == {s \in SUBSET D : 2 * Apart(f[s] * t, g[s] * u) <= Cardinality(s) * t}
<1>3. {} \in S
  <2>1. f[{}] = 0 /\ g[{}] = 0 /\ Cardinality({}) = 0 /\ {} \in SUBSET D
    BY <1>1, <1>2, FS_EmptySet DEF Folds
  <2>2. 0 * t = 0 /\ 0 * u = 0 /\ Apart(0, 0) = 0 /\ 2 * 0 <= 0
    BY DEF Apart
  <2> QED
    BY <2>1, <2>2
<1>4. \A s \in SUBSET D : s # {} /\ Rest(s) \in S => s \in S
  <2> TAKE s \in SUBSET D
  <2> HAVE s # {} /\ Rest(s) \in S
  <2> SUFFICES ASSUME NEW c, c = Cardinality(Rest(s)), NEW x, x = First(s),
                      NEW r, r = Rest(s)
               PROVE  2 * Apart(f[s] * t, g[s] * u) <= Cardinality(s) * t
    OBVIOUS
  <2>1. /\ x \in D /\ Cardinality(s) = c + 1 /\ c \in Nat
        /\ f[s] = v[x] + f[r] /\ g[s] = w[x] + g[r]
        /\ f[r] \in Int /\ g[r] \in Int /\ v[x] \in Int /\ w[x] \in Int
    BY <1>0, <1>1, <1>2, RestIsSmaller DEF Folds
  <2>2. 2 * Apart(f[r] * t, g[r] * u) <= c * t /\ 2 * Apart(v[x] * t, w[x] * u) <= t
    BY <2>1
  <2>3. /\ (v[x] + f[r]) * t = v[x] * t + f[r] * t
        /\ (w[x] + g[r]) * u = w[x] * u + g[r] * u
        /\ (c + 1) * t = c * t + t
        /\ v[x] * t \in Int /\ f[r] * t \in Int /\ w[x] * u \in Int /\ g[r] * u \in Int
        /\ c * t \in Int
    <3>1. (v[x] + f[r]) * t = v[x] * t + f[r] * t /\ v[x] * t \in Int /\ f[r] * t \in Int
      BY <2>1, Distributes
    <3>2. (w[x] + g[r]) * u = w[x] * u + g[r] * u /\ w[x] * u \in Int /\ g[r] * u \in Int
      BY <2>1, Distributes
    <3>3. (c + 1) * t = c * t + 1 * t /\ c * t \in Int /\ 1 * t = t
      <4>1. c \in Int /\ 1 \in Int /\ t \in Int
        BY <2>1
      <4> QED
        BY <4>1, Distributes
    <3> QED
      BY <3>1, <3>2, <3>3
  <2>4. \A a, b, d, e, k \in Int :
            2 * Apart(a, b) <= k /\ 2 * Apart(d, e) <= t => 2 * Apart(d + a, e + b) <= k + t
    BY DEF Apart
  <2>5. 2 * Apart(v[x] * t + f[r] * t, w[x] * u + g[r] * u) <= c * t + t
    BY <2>2, <2>3, <2>4
  <2> QED
    BY <2>1, <2>3, <2>5
<1> HIDE DEF S
<1>5. D \in S
  BY <1>3, <1>4, EverySubset
<1> QED
  BY <1>1, <1>2, <1>5 DEF S

-----------------------------------------------------------------------------
(* The arithmetic of the weights.                                          *)

\* A quotient of numbers.
LEMMA Quotient ==
    ASSUME NEW a \in Nat, NEW b \in Nat \ {0}
    PROVE  a \div b \in Nat /\ (a \div b) * b <= a /\ a < (a \div b) * b + b
OBVIOUS

LEMMA RoundedBounds ==
    ASSUME NEW n \in Nat, NEW d \in Nat \ {0}
    PROVE  /\ Rounded(n, d) \in Nat
           /\ Rounded(n, d) * (2 * d) <= 2 * n + d
           /\ 2 * n + d < Rounded(n, d) * (2 * d) + 2 * d
           /\ 2 * Apart(Rounded(n, d) * d, n) <= d
<1> DEFINE q == Rounded(n, d)
           a == 2 * n + d
           b == 2 * d
<1>1. a \in Nat /\ b \in Nat \ {0} /\ q = a \div b
  BY DEF Rounded
<1> HIDE DEF a, b, q
<1>2. q \in Nat /\ q * b <= a /\ a < q * b + b
  BY <1>1, Quotient
<1>3. q * b = 2 * (q * d) /\ q * d \in Int
  BY <1>2 DEF b
<1> QED
  BY <1>2, <1>3 DEF Apart, q, a, b

LEMMA RoundedMonotone ==
    ASSUME NEW n \in Nat, NEW k \in Nat, n <= k, NEW d \in Nat \ {0}
    PROVE  Rounded(n, d) <= Rounded(k, d)
<1> DEFINE q == Rounded(n, d)
           r == Rounded(k, d)
           b == 2 * d
<1>1. /\ q \in Nat /\ r \in Nat /\ b \in Nat /\ b > 0
      /\ q * b <= 2 * n + d /\ 2 * k + d < r * b + b
  <2>1. q \in Nat /\ q * (2 * d) <= 2 * n + d
    BY RoundedBounds
  <2>2. r \in Nat /\ 2 * k + d < r * (2 * d) + 2 * d
    BY RoundedBounds
  <2> HIDE DEF q, r
  <2> QED
    BY <2>1, <2>2
<1> HIDE DEF q, r, b
<1>2. q * b < r * b + b
  BY <1>1
<1>3. r * b + b = (r + 1) * b
  BY <1>1
<1>4. ~(r + 1 <= q)
  <2> SUFFICES ASSUME r + 1 <= q PROVE FALSE
    OBVIOUS
  <2> DEFINE c == q - (r + 1)
  <2>1. c \in Nat /\ q = (r + 1) + c
    BY <1>1
  <2> HIDE DEF c
  <2>2. q * b = (r + 1) * b + c * b /\ c * b >= 0 /\ c * b \in Int
    BY <1>1, <2>1
  <2> QED
    BY <1>1, <1>2, <1>3, <2>2
<1> QED
  BY <1>1, <1>4 DEF q, r

LEMMA Greatest ==
    ASSUME NEW S, IsFiniteSet(S), S \subseteq Nat, S # {}
    PROVE  Max(S) \in S
<1>1. PICK b \in Nat : \A i \in S : i <= b
  <2> DEFINE same == [i \in S |-> i]
  <2>1. same \in [S -> Nat]
    OBVIOUS
  <2> HIDE DEF same
  <2>2. PICK b \in Nat : \A i \in S : same[i] <= b
    BY <2>1, ValuesBounded
  <2> QED
    BY <2>2 DEF same
<1> DEFINE T == {b - i : i \in S}
<1>2. T \subseteq Nat /\ T # {}
  <2>1. \A i \in S : b - i \in Nat
    BY <1>1
  <2> QED
    BY <2>1
<1>3. PICK d \in T : \A e \in T : d <= e
  BY <1>2, LeastNat
<1>4. PICK x \in S : d = b - x
  BY <1>3
<1>5. \A y \in S : x >= y
  BY <1>1, <1>3, <1>4
<1> QED
  BY <1>5 DEF Max

-----------------------------------------------------------------------------
(* Shares of any coefficients.                                             *)

Rounding(kvs) == [m \in DOMAIN kvs |-> ShareOf(kvs, m)]

\* Each rounded share is its part of the whole, up to half a unit.
LEMMA RoundedShares ==
    ASSUME NEW D, IsFiniteSet(D), NEW kvs \in [D -> Nat]
    PROVE  /\ Rounding(kvs) \in [D -> Nat]
           /\ \A m \in D : /\ kvs[m] = 0 => Rounding(kvs)[m] = 0
                           /\ 2 * Apart(Rounding(kvs)[m] * Total(kvs), kvs[m] * ShareScale)
                                  <= Total(kvs)
<1> DEFINE T == Total(kvs)
<1>0. ShareScale \in Nat /\ T \in Nat
  BY ScaleAssumption, TotalType
<1>1. ASSUME NEW m \in D
      PROVE  /\ ShareOf(kvs, m) \in Nat
             /\ kvs[m] = 0 => ShareOf(kvs, m) = 0
             /\ 2 * Apart(ShareOf(kvs, m) * T, kvs[m] * ShareScale) <= T
  <2>1. CASE kvs[m] = 0
    <3>1. ShareOf(kvs, m) = 0
      BY <2>1 DEF ShareOf
    <3>2. 0 * T = 0 /\ 0 * ShareScale = 0 /\ 2 * Apart(0, 0) <= T
      BY <1>0 DEF Apart
    <3> HIDE DEF T
    <3> QED
      BY <2>1, <3>1, <3>2
  <2>2. CASE kvs[m] # 0
    <3> DEFINE others == [kvs EXCEPT ![m] = 0]
    <3>1. T = kvs[m] + Total(others) /\ Total(others) \in Nat
      <4>1. others \in [D -> Nat] /\ others[m] = 0 /\ \A i \in D : i # m => others[i] = kvs[i]
        OBVIOUS
      <4> HIDE DEF others
      <4> QED
        BY <4>1, TotalCovers DEF T
    <3> DEFINE n == kvs[m] * ShareScale
    <3>2. T \in Nat \ {0} /\ n \in Nat
      <4> HIDE DEF others, T
      <4> QED
        BY <1>0, <2>2, <3>1
    <3>3. ShareOf(kvs, m) = Rounded(n, T)
      BY <2>2 DEF ShareOf
    <3> HIDE DEF n, T
    <3>4. Rounded(n, T) \in Nat /\ 2 * Apart(Rounded(n, T) * T, n) <= T
      BY <3>2, RoundedBounds
    <3> QED
      BY <2>2, <3>3, <3>4 DEF n
  <2> QED
    BY <2>1, <2>2
<1> QED
  BY <1>1 DEF Rounding

\* Who carries the rounding of all, and the shares of the others.
LEMMA LastPositive ==
    ASSUME NEW D, IsFiniteSet(D), D \subseteq Nat, NEW kvs \in [D -> Nat], Positive(kvs) # {}
    PROVE  LET last == Max(Positive(kvs))
               rest == Total([Rounding(kvs) EXCEPT ![last] = 0])
           IN  /\ last \in D /\ kvs[last] > 0
               /\ rest \in Nat
               /\ PayoutShares(kvs) = [Rounding(kvs) EXCEPT ![last] = ShareScale - rest]
               /\ Total(PayoutShares(kvs)) = ShareScale
<1> DEFINE last == Max(Positive(kvs))
           r == Rounding(kvs)
           r0 == [r EXCEPT ![last] = 0]
           shares == PayoutShares(kvs)
<1>0. ShareScale \in Nat /\ r \in [D -> Nat]
  BY ScaleAssumption, RoundedShares
<1>1. last \in D /\ kvs[last] > 0
  <2>1. Positive(kvs) \subseteq D /\ IsFiniteSet(Positive(kvs))
    BY FS_Subset DEF Positive
  <2>2. last \in Positive(kvs)
    BY <2>1, Greatest
  <2> QED
    BY <2>2 DEF Positive
<1>2. shares = [r EXCEPT ![last] = r[last] + (ShareScale - Total(r))]
  BY DEF PayoutShares, Rounding
<1> HIDE DEF r, last, shares
<1>3. Total(r) \in Nat /\ Total(r0) \in Nat /\ Total(r) = r[last] + Total(r0) /\ r[last] \in Nat
  <2>1. r0 \in [D -> Nat] /\ r0[last] = 0 /\ \A i \in D : i # last => r0[i] = r[i]
    BY <1>0, <1>1
  <2> HIDE DEF r0
  <2>2. Total(r) \in Nat /\ Total(r0) \in Nat /\ Total(r) = r[last] + Total(r0)
    BY <1>0, <1>1, <2>1, TotalCovers
  <2> QED
    BY <1>0, <1>1, <2>2
<1> HIDE DEF r0
<1> DEFINE e == ShareScale - Total(r0)
<1>4. r[last] + (ShareScale - Total(r)) = e /\ e \in Int
  BY <1>0, <1>3
<1>5. Total(shares) = Total(r) + (e - r[last])
  <2>1. /\ r \in [D -> Int] /\ shares \in [D -> Int] /\ shares[last] = e
        /\ \A i \in D : i # last => shares[i] = r[i]
    <3>1. r \in [D -> Int]
      BY <1>0
    <3>2. shares = [r EXCEPT ![last] = e]
      BY <1>2, <1>4, Zenon
    <3> HIDE DEF e
    <3> QED
      BY <1>1, <1>4, <3>1, <3>2
  <2> HIDE DEF e
  <2> QED
    <3>1. IsFiniteSet(D) /\ r \in [D -> Int] /\ shares \in [D -> Int] /\ last \in D
      BY <1>1, <2>1
    <3>2. \A i \in D : i # last => shares[i] = r[i]
      BY <2>1
    <3>3. Total(shares) = Total(r) + (shares[last] - r[last])
      BY ONLY <3>1, <3>2, TotalChange
    <3> QED
      BY <2>1, <3>3
<1>6. Total(shares) = ShareScale
  BY <1>0, <1>3, <1>5
<1> QED
  BY <1>1, <1>2, <1>3, <1>4, <1>6 DEF last, r, r0, shares

LEMMA SharesAreProportional ==
    ASSUME NEW D, IsFiniteSet(D), D \subseteq Nat, NEW kvs \in [D -> Nat]
    PROVE  Proportional(kvs)
<1> DEFINE r == Rounding(kvs)
           T == Total(kvs)
           shares == PayoutShares(kvs)
<1>0. /\ ShareScale \in Nat /\ T \in Nat /\ r \in [D -> Nat] /\ DOMAIN kvs = D
      /\ \A m \in D : kvs[m] = 0 => r[m] = 0
      /\ \A m \in D : 2 * Apart(r[m] * T, kvs[m] * ShareScale) <= T
  BY ScaleAssumption, TotalType, RoundedShares
<1>1. CASE Positive(kvs) = {}
  <2>1. \A m \in D : kvs[m] = 0 /\ r[m] = 0
    <3>1. \A m \in D : ~(kvs[m] > 0) /\ kvs[m] \in Nat
      BY <1>1 DEF Positive
    <3> QED
      BY <1>0, <3>1
  <2>2. shares = r
    BY <1>1 DEF PayoutShares, Rounding
  <2> HIDE DEF r, T, shares
  <2>3. Total(r) = 0
    <3>1. 0 \in Nat /\ \A m \in D : r[m] <= 0
      BY <2>1
    <3>2. Total(r) \in Nat /\ Total(r) <= Cardinality(D) * 0
      BY <1>0, <3>1, TotalBounds
    <3>3. Cardinality(D) * 0 = 0
      BY FS_CardinalityType
    <3> QED
      BY <3>2, <3>3
  <2>4. \A m \in D : Tolerance(kvs, m) = 1
    BY <1>1 DEF Tolerance
  <2>5. \A m \in D : 2 * Apart(shares[m] * T, kvs[m] * ShareScale) <= T * 1
    BY <1>0, <2>2
  <2> QED
    BY <1>0, <1>1, <2>1, <2>2, <2>3, <2>4, <2>5 DEF Proportional, T, shares
<1>2. CASE Positive(kvs) # {}
  <2> DEFINE last == Max(Positive(kvs))
             r0 == [r EXCEPT ![last] = 0]
             k0 == [kvs EXCEPT ![last] = 0]
             n == Cardinality(D)
  <2>1. /\ last \in D /\ kvs[last] > 0 /\ Total(r0) \in Nat
        /\ shares = [r EXCEPT ![last] = ShareScale - Total(r0)]
        /\ Total(shares) = ShareScale
    BY <1>2, LastPositive
  <2>2. T = kvs[last] + Total(k0) /\ Total(k0) \in Nat /\ kvs[last] \in Nat
    <3>1. k0 \in [D -> Nat] /\ k0[last] = 0 /\ \A i \in D : i # last => k0[i] = kvs[i]
      BY <2>1
    <3> HIDE DEF k0, last, r, shares, T
    <3>2. IsFiniteSet(D) /\ kvs \in [D -> Nat] /\ k0 \in [D -> Nat] /\ last \in D /\ k0[last] = 0
      BY <2>1, <3>1
    <3>3. \A i \in D : i # last => k0[i] = kvs[i]
      BY <3>1
    <3>4. Total(kvs) = kvs[last] + Total(k0) /\ Total(k0) \in Nat
      BY ONLY <3>2, <3>3, TotalCovers
    <3> QED
      BY <2>1, <3>4 DEF T
  <2>3. \A m \in D : Tolerance(kvs, m) = IF m = last THEN n ELSE 1
    BY <1>0, <1>2 DEF Tolerance
  <2> HIDE DEF r, T, shares, last
  <2>4. 2 * Apart(Total(r0) * T, Total(k0) * ShareScale) <= n * T
    <3>1. r0 \in [D -> Nat] /\ k0 \in [D -> Nat]
      BY <1>0
    <3>2. ASSUME NEW m \in D PROVE 2 * Apart(r0[m] * T, k0[m] * ShareScale) <= T
      <4>1. CASE m = last
        <5>1. r0[m] = 0 /\ k0[m] = 0
          BY <1>0, <4>1
        <5>2. 0 * T = 0 /\ 0 * ShareScale = 0 /\ 2 * Apart(0, 0) <= T
          BY <1>0 DEF Apart
        <5> QED
          BY <5>1, <5>2
      <4>2. CASE m # last
        BY <1>0, <4>2
      <4> QED
        BY <4>1, <4>2
    <3> HIDE DEF r0, k0, n
    <3> QED
      BY <1>0, <3>1, <3>2, TotalsClose DEF n
  <2> HIDE DEF r0, k0
  <2>5. n \in Nat
    BY FS_CardinalityType
  <2> HIDE DEF n
  <2>6. 2 * Apart(shares[last] * T, kvs[last] * ShareScale) <= T * n
    <3> SUFFICES ASSUME NEW x \in Nat, x = Total(r0), NEW y \in Nat, y = Total(k0),
                        NEW k \in Nat, k = kvs[last], NEW s \in Nat, s = ShareScale,
                        NEW t \in Nat, t = T
                 PROVE  2 * Apart(shares[last] * t, k * s) <= t * n
      BY <1>0, <2>1, <2>2
    <3>1. shares[last] = s - x /\ t = k + y
      BY <1>0, <2>1, <2>2
    <3>2. (s - x) * t = (k * s + y * s) - x * t /\ t * n = n * t
      <4>1. (s - x) * t = s * t - x * t
        OBVIOUS
      <4>2. s * t = t * s /\ (k + y) * s = k * s + y * s
        OBVIOUS
      <4>3. t * n = n * t
        BY <2>5
      <4> QED
        BY <3>1, <4>1, <4>2, <4>3
    <3>3. x * t \in Int /\ y * s \in Int /\ k * s \in Int /\ n * t \in Int
      BY <2>5
    <3>4. \A a, b, c, d \in Int : 2 * Apart(a, b) <= d => 2 * Apart((c + b) - a, c) <= d
      BY DEF Apart
    <3>5. 2 * Apart(x * t, y * s) <= n * t
      BY <2>4
    <3>6. 2 * Apart((k * s + y * s) - x * t, k * s) <= n * t
      BY <3>3, <3>4, <3>5
    <3> QED
      BY <3>1, <3>2, <3>6
  <2>7. ASSUME NEW m \in D
        PROVE  /\ kvs[m] = 0 => shares[m] = 0
               /\ 2 * Apart(shares[m] * T, kvs[m] * ShareScale) <= T * Tolerance(kvs, m)
    <3>1. CASE m = last
      <4>1. kvs[m] # 0
        BY <2>1, <2>2, <3>1
      <4> QED
        BY <2>3, <2>6, <3>1, <4>1
    <3>2. CASE m # last
      <4>1. shares[m] = r[m] /\ Tolerance(kvs, m) = 1 /\ T * 1 = T
        BY <1>0, <2>1, <2>3, <3>2
      <4> QED
        BY <1>0, <4>1
    <3> QED
      BY <3>1, <3>2
  <2> QED
    BY <1>0, <1>2, <2>1, <2>7 DEF Proportional, T, shares
<1> QED
  BY <1>1, <1>2

\* With few members the least coefficient outweighs the rounding of all, so the
\* share that carries it stays positive.
LEMMA SharesAreNotNegative ==
    ASSUME NEW D, IsFiniteSet(D), D \subseteq Nat, NEW kvs \in [D -> Nat],
           NEW b \in Nat, \A m \in D : kvs[m] <= b,
           Cardinality(D) * Cardinality(D) * b <= 2 * ShareScale
    PROVE  NoneNegative(kvs)
<1> DEFINE n == Cardinality(D)
           T == Total(kvs)
           shares == PayoutShares(kvs)
           r == Rounding(kvs)
<1>0. /\ ShareScale \in Nat /\ n \in Nat /\ T \in Nat /\ T <= n * b
      /\ r \in [D -> Nat] /\ Proportional(kvs)
  BY ScaleAssumption, FS_CardinalityType, TotalBounds, RoundedShares, SharesAreProportional
<1> SUFFICES ASSUME NEW m \in D
             PROVE  shares[m] >= 0
  BY DEF NoneNegative
<1>1. CASE Positive(kvs) = {}
  <2>1. shares = r
    BY <1>1 DEF PayoutShares, Rounding
  <2> HIDE DEF r, shares
  <2> QED
    BY <1>0, <2>1
<1>2. CASE Positive(kvs) # {}
  <2> DEFINE last == Max(Positive(kvs))
             rest == Total([r EXCEPT ![last] = 0])
  <2>1. last \in D /\ kvs[last] > 0 /\ rest \in Nat /\ shares = [r EXCEPT ![last] = ShareScale - rest]
    BY <1>2, LastPositive
  <2>2. CASE m # last
    <3> HIDE DEF r, shares, last, rest
    <3> QED
      BY <1>0, <2>1, <2>2
  <2>3. CASE m = last
    <3>1. Tolerance(kvs, m) = n
      BY <1>2, <2>3 DEF Tolerance
    <3>2. 2 * Apart(shares[m] * T, kvs[m] * ShareScale) <= T * n
      BY <1>0, <3>1 DEF Proportional
    <3>3. T > 0
      <4> DEFINE others == [kvs EXCEPT ![m] = 0]
      <4>1. others \in [D -> Nat] /\ others[m] = 0 /\ \A i \in D : i # m => others[i] = kvs[i]
        OBVIOUS
      <4> HIDE DEF others
      <4>2. Total(kvs) = kvs[m] + Total(others) /\ Total(others) \in Nat
        BY ONLY IsFiniteSet(D), kvs \in [D -> Nat], m \in D, <4>1, TotalCovers
      <4> QED
        BY <2>1, <2>3, <4>2
    <3> SUFFICES ASSUME NEW s \in Int, s = shares[m], NEW k \in Nat, k = kvs[m],
                        NEW t \in Nat, t = T, NEW S \in Nat, S = ShareScale,
                        NEW c \in Nat, c = n
                 PROVE  s >= 0
      <4>1. shares[m] \in Int /\ kvs[m] \in Nat
        <5> HIDE DEF r, shares, last, rest
        <5> QED
          BY <1>0, <2>1, <2>3
      <4> QED
        BY <1>0, <4>1
    <3>4. /\ k >= 1 /\ t > 0 /\ t <= c * b /\ c * c * b <= 2 * S
          /\ 2 * Apart(s * t, k * S) <= t * c
      BY <1>0, <2>1, <2>3, <3>2, <3>3
    <3>5. k * S >= S /\ k * S \in Nat
      <4> DEFINE j == k - 1
      <4>1. j \in Nat /\ k = j + 1
        BY <3>4
      <4> HIDE DEF j
      <4>2. (j + 1) * S = j * S + S /\ j * S \in Nat
        BY <4>1
      <4> QED
        BY <4>1, <4>2
    <3>6. t * c <= c * c * b /\ t * c \in Nat
      <4> DEFINE d == c * b - t
      <4>1. d \in Nat /\ c * b = t + d
        BY <3>4
      <4> HIDE DEF d
      <4>2. c * (c * b) = c * t + c * d /\ c * d \in Nat /\ c * t \in Nat
        BY <4>1
      <4>3. c * c * b = c * (c * b) /\ c * t = t * c
        OBVIOUS
      <4> QED
        BY <4>2, <4>3
    <3>7. s * t >= 0
      <4>1. s * t \in Int
        OBVIOUS
      <4> QED
        BY <3>4, <3>5, <3>6, <4>1 DEF Apart
    <3>8. ~(s < 0)
      <4> SUFFICES ASSUME s < 0 PROVE FALSE
        OBVIOUS
      <4> DEFINE a == 0 - s
      <4>1. a \in Nat /\ a > 0 /\ s = 0 - a
        OBVIOUS
      <4> HIDE DEF a
      <4>2. s * t = 0 - a * t /\ a * t > 0 /\ a * t \in Int
        BY <3>4, <4>1
      <4> QED
        BY <3>7, <4>2
    <3> QED
      BY <3>8
  <2> QED
    BY <2>2, <2>3
<1> QED
  BY <1>1, <1>2

-----------------------------------------------------------------------------
(* The coefficients a snapshot stands for.                                 *)

\* The members with contributions of a period are finitely many, as are the
\* contributions, and their points add up.
LEMMA PointsType ==
    ASSUME TypeOK, NEW p \in Periods, NEW n \in Nat, n <= Len(contributions)
    PROVE  LET points == MemberPoints(p, n)
           IN  /\ IsFiniteSet(DOMAIN points)
               /\ DOMAIN points \subseteq Members
               /\ points \in [DOMAIN points -> Nat]
<1> DEFINE I == OfPeriod(p, n)
           D == {contributions[i].member : i \in I}
<1>1. \A i \in I : /\ contributions[i].member \in Members
                   /\ contributions[i].points \in Nat
  <2>1. \A i \in 1 .. n : i \in 1 .. Len(contributions)
    BY DEF TypeOK
  <2>2. \A i \in I : contributions[i] \in Contribution
    BY <2>1 DEF TypeOK, OfPeriod
  <2> QED
    BY <2>2, LedgerAssumption DEF Contribution
<1>2. IsFiniteSet(I)
  <2>1. IsFiniteSet(1 .. n)
    BY FS_Interval
  <2>2. I \in SUBSET (1 .. n)
    BY DEF OfPeriod
  <2> QED
    BY <2>1, <2>2, FS_Subset
<1> HIDE DEF I
<1>3. IsFiniteSet(D)
  <2> DEFINE f == [i \in I |-> contributions[i].member]
  <2>1. f \in Surjection(I, D)
    BY DEF Surjection
  <2> HIDE DEF f, D
  <2> QED
    BY <1>2, <2>1, FS_Surjection
<1>4. D \subseteq Members
  BY <1>1
<1>5. ASSUME NEW m \in D
      PROVE  PointsOf(m, p, n) \in Nat
  <2> DEFINE v == [i \in I |-> IF contributions[i].member = m THEN contributions[i].points ELSE 0]
  <2>1. v \in [I -> Nat]
    BY <1>1
  <2>2. PointsOf(m, p, n) = Total(v)
    BY DEF PointsOf, I
  <2> HIDE DEF v
  <2> QED
    BY <1>2, <2>1, <2>2, TotalType
<1>6. MemberPoints(p, n) = [m \in D |-> PointsOf(m, p, n)]
  BY DEF MemberPoints, I
<1> HIDE DEF D
<1> QED
  BY <1>3, <1>4, <1>5, <1>6

LEMMA AverageType ==
    ASSUME NEW D, IsFiniteSet(D), NEW points \in [D -> Nat], NEW average \in Averages \cup {None}
    PROVE  CouncilAverage(points, average) \in Nat
<1>1. average # None => average \in Nat
  BY LedgerAssumption
<1>2. D # {} => Rounded(Total(points), Cardinality(D)) \in Nat
  <2>1. D # {} => Cardinality(D) \in Nat \ {0}
    BY FS_CardinalityType, FS_EmptySet
  <2> QED
    BY <2>1, TotalType, RoundedBounds
<1>3. DOMAIN points = D
  OBVIOUS
<1> QED
  BY <1>1, <1>2, <1>3 DEF CouncilAverage

\* A capped coefficient is at most the cap.
CapKv(cap) == Rounded(cap * KvScale, RawScale)

LEMMA KvBounds ==
    ASSUME NEW points \in Nat, NEW average \in Nat, NEW cap \in Nat
    PROVE  /\ KvCapped(points, average, cap) \in Nat
           /\ KvCapped(points, average, cap) <= CapKv(cap)
<1> DEFINE raw == KvRaw(points, average, cap)
           less == Smaller(raw, cap)
<1>0. RawScale \in Nat \ {0} /\ KvScale \in Nat
  BY ScaleAssumption
<1>1. raw \in Nat
  <2>1. CASE 0 \in {points, average, cap}
    BY <2>1 DEF KvRaw
  <2>2. CASE 0 \notin {points, average, cap}
    <3>1. average \in Nat \ {0} /\ points * RawScale \in Nat
      BY <1>0, <2>2
    <3>2. raw = Rounded(points * RawScale, average)
      BY <2>2 DEF KvRaw
    <3> QED
      BY <3>1, <3>2, RoundedBounds
  <2> QED
    BY <2>1, <2>2
<1> HIDE DEF raw
<1>2. less \in Nat /\ less <= cap
  BY <1>1 DEF Smaller
<1>3. KvCapped(points, average, cap) = Rounded(less * KvScale, RawScale)
  BY DEF KvCapped, raw
<1> HIDE DEF less
<1>4. less * KvScale \in Nat /\ cap * KvScale \in Nat /\ less * KvScale <= cap * KvScale
  <2> DEFINE d == cap - less
  <2>1. d \in Nat /\ cap = less + d
    BY <1>2
  <2> HIDE DEF d
  <2>2. (less + d) * KvScale = less * KvScale + d * KvScale /\ d * KvScale \in Nat
        /\ less * KvScale \in Nat
    BY <1>0, <1>2, <2>1
  <2> QED
    BY <2>1, <2>2
<1> QED
  BY <1>0, <1>3, <1>4, RoundedBounds, RoundedMonotone DEF CapKv

LEMMA CoefficientsType ==
    ASSUME TypeOK, NEW p \in Periods, NEW snapshot \in Snapshot,
           snapshot.seen <= Len(contributions)
    PROVE  LET kvs == Coefficients(p, snapshot)
           IN  /\ IsFiniteSet(DOMAIN kvs)
               /\ DOMAIN kvs \subseteq Members
               /\ kvs \in [DOMAIN kvs -> Nat]
               /\ \A m \in DOMAIN kvs : kvs[m] <= CapKv(snapshot.cap)
<1> DEFINE points == MemberPoints(p, snapshot.seen)
           D == DOMAIN points
           average == CouncilAverage(points, snapshot.average)
<1>0. /\ snapshot.seen \in Nat /\ snapshot.average \in Averages \cup {None}
      /\ snapshot.cap \in Nat
  <2>1. /\ snapshot.seen \in Nat /\ snapshot.average \in Averages \cup {None}
        /\ snapshot.cap \in Caps
    BY DEF Snapshot
  <2>2. Caps \subseteq Nat
    BY LedgerAssumption, ScaleAssumption
  <2> QED
    BY <2>1, <2>2
<1>1. IsFiniteSet(D) /\ D \subseteq Members /\ points \in [D -> Nat]
  BY <1>0, PointsType
<1> HIDE DEF points
<1>2. average \in Nat
  BY <1>0, <1>1, AverageType
<1> HIDE DEF average
<1>3. Coefficients(p, snapshot) = [m \in D |-> KvCapped(points[m], average, snapshot.cap)]
  BY DEF Coefficients, points, average
<1>4. \A m \in D : /\ KvCapped(points[m], average, snapshot.cap) \in Nat
                   /\ KvCapped(points[m], average, snapshot.cap) <= CapKv(snapshot.cap)
  BY <1>0, <1>1, <1>2, KvBounds
<1> HIDE DEF D
<1> QED
  BY <1>1, <1>3, <1>4

\* What a worker exports is calculated from members of the ledger.
LEMMA ExportedCoefficients ==
    ASSUME FreshInv, NEW w \in Workers, requests[w].step = "exported"
    PROVE  LET kvs == Coefficients(requests[w].period, requests[w].snapshot)
           IN  /\ IsFiniteSet(DOMAIN kvs)
               /\ DOMAIN kvs \subseteq Members
               /\ kvs \in [DOMAIN kvs -> Nat]
               /\ \E cap \in Caps : \A m \in DOMAIN kvs : kvs[m] <= CapKv(cap)
<1>1. requests[w] \in Export
  BY RequestKinds DEF FreshInv
<1>2. /\ requests[w].period \in Periods /\ requests[w].snapshot \in Snapshot
      /\ requests[w].snapshot.cap \in Caps
  BY <1>1 DEF Export, Snapshot
<1>3. requests[w].snapshot.seen <= Len(contributions)
  BY DEF FreshInv, ReadingsInLedger
<1> QED
  BY <1>2, <1>3, CoefficientsType DEF FreshInv

\* Every exported distribution shares out the whole, in proportion to the capped
\* coefficients up to the rounding, for any members, points, averages, caps and
\* scales (calculate_payout_shares, get_payout_distribution).
THEOREM SharesStayProportional == Spec => []SharesFollowWeights
<1>1. Spec => []FreshInv
  BY FreshInitially, FreshInductive, PTL DEF Spec
<1>2. FreshInv => SharesFollowWeights
  <2> SUFFICES ASSUME FreshInv, NEW w \in Workers, requests[w].step = "exported"
               PROVE  Proportional(Coefficients(requests[w].period, requests[w].snapshot))
    BY DEF SharesFollowWeights
  <2> QED
    BY ExportedCoefficients, SharesAreProportional, LedgerAssumption
<1> QED
  BY <1>1, <1>2, PTL

\* The members are few enough for the scale of the shares: 1414 of them at the
\* Council's cap and at the scales of the code.
FewMembers ==
    /\ IsFiniteSet(Members)
    /\ \A cap \in Caps : Cardinality(Members) * Cardinality(Members) * CapKv(cap) <= 2 * ShareScale

\* No share is negative either, when the members are few: the last positive
\* share carries the rounding of all the others (calculate_payout_shares).
THEOREM SharesStayExact == ASSUME FewMembers PROVE Spec => []SharesAddUp
<1>1. Spec => [](FreshInv /\ SharesFollowWeights)
  BY FreshInitially, FreshInductive, SharesStayProportional, PTL DEF Spec
<1>2. FreshInv /\ SharesFollowWeights => SharesAddUp
  <2> SUFFICES ASSUME FreshInv, NEW w \in Workers, requests[w].step = "exported"
               PROVE  NoneNegative(Coefficients(requests[w].period, requests[w].snapshot))
    BY DEF SharesAddUp
  <2> DEFINE kvs == Coefficients(requests[w].period, requests[w].snapshot)
             D == DOMAIN kvs
  <2>1. /\ IsFiniteSet(D) /\ D \subseteq Members /\ kvs \in [D -> Nat]
        /\ \E cap \in Caps : \A m \in D : kvs[m] <= CapKv(cap)
    BY ExportedCoefficients
  <2>2. PICK cap \in Caps : \A m \in D : kvs[m] <= CapKv(cap)
    BY <2>1
  <2> HIDE DEF kvs
  <2>3. D \subseteq Nat
    BY <2>1, LedgerAssumption
  <2>4. CapKv(cap) \in Nat
    <3>1. cap \in Nat /\ RawScale \in Nat \ {0} /\ KvScale \in Nat
      BY LedgerAssumption, ScaleAssumption
    <3>2. cap * KvScale \in Nat
      BY <3>1
    <3> QED
      BY <3>1, <3>2, RoundedBounds DEF CapKv
  <2> DEFINE n == Cardinality(D)
             k == Cardinality(Members)
             b == CapKv(cap)
  <2>5. n \in Nat /\ k \in Nat /\ n <= k /\ k * k * b <= 2 * ShareScale
    BY <2>1, FS_Subset, FS_CardinalityType DEF FewMembers
  <2> HIDE DEF D, n, k, b
  <2>6. n * n * b <= k * k * b
    <3>1. b \in Nat
      BY <2>4 DEF b
    <3> DEFINE d == k - n
               e == n * d + d * n + d * d
    <3>2. d \in Nat /\ k = n + d
      BY <2>5
    <3> HIDE DEF d
    <3>3. k * k = n * n + e /\ e \in Nat
      BY <2>5, <3>2
    <3> HIDE DEF e
    <3>4. (n * n + e) * b = n * n * b + e * b /\ e * b \in Nat /\ n * n * b \in Nat
      BY <2>5, <3>1, <3>3
    <3> QED
      BY <3>3, <3>4
  <2>7. n * n * b <= 2 * ShareScale
    <3>1. n * n * b \in Int /\ k * k * b \in Int /\ 2 * ShareScale \in Int
      BY <2>4, <2>5, ScaleAssumption DEF b
    <3> QED
      BY <2>5, <2>6, <3>1
  <2> QED
    BY <2>1, <2>2, <2>3, <2>4, <2>7, SharesAreNotNegative DEF n, b, D, kvs
<1> QED
  BY <1>1, <1>2, PTL
=============================================================================
