--------------------------- MODULE CouncilThresholds ---------------------------
(***************************************************************************)
(* The thresholds of the Council, as the activity command centre and the   *)
(* neuro-agent orchestrator keep them for a tenant. A reader that finds    *)
(* none stores the defaults. The Council updates them on the event loop,   *)
(* where tasks and runs are decided too; the plain read handlers run on    *)
(* worker threads, and between such a reader's look and its store the      *)
(* event loop goes on. The record carries the fields of both services.     *)
(***************************************************************************)
EXTENDS Integers

CONSTANTS
    DefaultThresholds,   \* the defaults: field -> value in hundredths, count or set
    ThresholdUpdates,    \* updates: functions on some of the fields
    ThresholdReaders,    \* worker threads that serve reads
    MaxRevision          \* bound: the newest revision

ASSUME UpdatesAssumption ==
    /\ \A update \in ThresholdUpdates : DOMAIN update \subseteq DOMAIN DefaultThresholds
    /\ MaxRevision \in Nat \ {0}

VARIABLES
    thresholds,        \* _thresholds of the tenant; revision 0: there are none
    thresholdAudit,    \* thresholds.updated records of the audit log
    thresholdEvents,   \* revisions that were announced
    missed             \* readers that looked, found none and did not store yet

thresholdVars == <<thresholds, thresholdAudit, thresholdEvents, missed>>

NoThresholds == [revision |-> 0, settings |-> DefaultThresholds]
FirstThresholds == [revision |-> 1, settings |-> DefaultThresholds]

ThresholdsInit ==
    /\ thresholds = NoThresholds
    /\ thresholdAudit = {}
    /\ thresholdEvents = {}
    /\ missed = {}

\* get_thresholds on the event loop: what is stored, or the defaults, stored now.
GetThresholds == IF thresholds = NoThresholds THEN FirstThresholds ELSE thresholds

\* get_thresholds on a worker thread: the look and the store are apart.
ReaderLooks(r) ==
    /\ r \notin missed
    /\ thresholds = NoThresholds
    /\ missed' = missed \cup {r}
    /\ UNCHANGED <<thresholds, thresholdAudit, thresholdEvents>>

ReaderStores(r) ==
    /\ r \in missed
    /\ thresholds' = FirstThresholds
    /\ missed' = missed \ {r}
    /\ UNCHANGED <<thresholdAudit, thresholdEvents>>

\* update_thresholds: fields that are not given stay; audit, save, announce. An
\* event id that is no token is refused when the revision is in force already.
UpdateThresholds(update, accepted) ==
    LET existing == GetThresholds
        changed == [revision |-> existing.revision + 1,
                    settings |-> [field \in DOMAIN existing.settings |->
                        IF field \in DOMAIN update THEN update[field]
                                                   ELSE existing.settings[field]]]
    IN  /\ changed.revision <= MaxRevision
        /\ thresholds' = changed
        /\ thresholdAudit' = thresholdAudit \cup {changed}
        /\ thresholdEvents' = IF accepted THEN thresholdEvents \cup {changed.revision}
                                          ELSE thresholdEvents
        /\ UNCHANGED missed

ThresholdsNext ==
    \/ \E r \in ThresholdReaders : ReaderLooks(r) \/ ReaderStores(r)
    \/ \E update \in ThresholdUpdates, accepted \in BOOLEAN : UpdateThresholds(update, accepted)

\* What was ever in force: the defaults, and what the audit log recorded.
EverInForce == {FirstThresholds} \cup thresholdAudit

ThresholdsTypeOK ==
    /\ thresholds.revision \in 0..MaxRevision
    /\ DOMAIN thresholds.settings = DOMAIN DefaultThresholds
    /\ \A t \in thresholdAudit : t.revision \in 2..MaxRevision
    /\ thresholdEvents \subseteq 2..MaxRevision
    /\ missed \subseteq ThresholdReaders

\* The thresholds in force are never older than a revision the Council was told
\* is in force: a read never takes an update back.
CouncilThresholdsStay ==
    \A t \in thresholdAudit : thresholds.revision >= t.revision
=============================================================================
