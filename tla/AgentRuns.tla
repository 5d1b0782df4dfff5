------------------------------- MODULE AgentRuns -------------------------------
(***************************************************************************)
(* The neuro-agent orchestrator: a run reads the Council's thresholds,     *)
(* decides, writes the audit log, announces the decision and is stored     *)
(* last of all. Runs that retrieve context wait for the vector store with  *)
(* the thresholds they read before; the publisher is a protocol, so every  *)
(* run may wait once more at its announcement. The handlers of the task    *)
(* types take the same steps and differ in the run they build.             *)
(***************************************************************************)
EXTENDS CouncilThresholds, Sequences, FiniteSets, SequencesExt, FiniteSetsExt

CONSTANTS
    RunCallers,      \* requests that are served at the same time
    RunIds,          \* run ids that clients choose
    RunRequests,     \* payloads, see RunReasons and MayNotRun for their fields
    RagDocuments,    \* documents: [document_id, source_type]
    MaxRunAudits     \* bound: runs the audit log holds

VARIABLES
    running,      \* what each request is doing
    runs,         \* _runs and _decision_explanations of the repository
    runAudit,     \* runs that were recorded in the audit log, in order
    runEvents,    \* runs that were announced, in order
    ragStore      \* documents of the tenant in the vector store

runVars == <<thresholdVars, running, runs, runAudit, runEvents, ragStore>>

RunsInit ==
    /\ ThresholdsInit
    /\ running = [c \in RunCallers |-> [at |-> "idle"]]
    /\ runs = {}
    /\ runAudit = <<>>
    /\ runEvents = <<>>
    /\ ragStore = {}

BlockedMetaPlatforms == {"facebook", "instagram"}

\* audience_source_policy_reasons: any of them refuses the run.
SourceReasons(source) ==
    {reason \in {"scope", "tos", "legal_basis", "personal_data", "platform"} :
        \/ reason = "scope" /\ source.access_scope # "public"
        \/ reason = "tos" /\ source.tos_status # "allowed"
        \/ reason = "legal_basis" /\ source.legal_basis = "missing"
        \/ reason = "personal_data" /\ source.personal_data_fields # {}
        \/ reason = "platform" /\ source.platform \in BlockedMetaPlatforms}

\* build_audience_profile raises on sources out of scope, before the audit log.
MayNotRun(request) ==
    /\ request.task_type = "audience_analysis"
    /\ \E source \in request.sources : SourceReasons(source) # {}

\* optimization_policy_reasons: risk and confidence, as other runs have them.
RiskReasons(request, settings) ==
    {reason \in {"risk", "confidence"} :
        \/ reason = "risk" /\ request.risk_score > settings.max_autonomous_risk_score
        \/ reason = "confidence" /\ request.agent_confidence < settings.min_agent_confidence}

\* auto_reply_policy_reasons.
AutoReplyReasons(request, settings) ==
    RiskReasons(request, settings) \cup
    {reason \in {"recipients", "template", "platform"} :
        \/ reason = "recipients"
           /\ request.estimated_recipients > settings.max_autonomous_recipients
        \/ reason = "template" /\ request.template_key \notin settings.allowed_template_keys
        \/ reason = "platform" /\ request.platform \in BlockedMetaPlatforms}

\* A text is the set of the marks found in it; points are hundredths.
Points(text, marks) == MapThenSumSet(LAMBDA m : marks[m], text \cap DOMAIN marks)

\* content_safety_risk_score and content_quality_score.
SafetyRiskScore(text) ==
    5 + Points(text, [unsafe_keyword |-> 50, repetitive_text |-> 20,
                      excessive_caps |-> 10, excessive_punctuation |-> 10])
QualityScore(text) ==
    100 - Points(text, [under_20_words |-> 30, under_160_characters |-> 20,
                        excessive_punctuation |-> 10, excessive_caps |-> 10,
                        repetitive_text |-> 15])

\* content_hygiene_policy_reasons.
HygieneReasons(request, settings) ==
    {reason \in {"safety", "quality"} :
        \/ reason = "safety"
           /\ SafetyRiskScore(request.text) > settings.max_autonomous_risk_score
        \/ reason = "quality" /\ QualityScore(request.text) < settings.min_content_quality_score}

\* build_optimization_recommendations: one for each rate below its target, in
\* ten-thousandths; without a recommendation there is no reason to escalate.
Recommendations(request) ==
    {metric \in {"engagement_rate", "click_through_rate", "share_rate"} :
        \/ metric = "engagement_rate" /\ request.engagement_rate < 300
        \/ metric = "click_through_rate" /\ request.click_through_rate < 100
        \/ metric = "share_rate" /\ request.share_rate < 100}

OptimizationReasons(request, settings) ==
    IF Recommendations(request) = {} THEN {} ELSE RiskReasons(request, settings)

\* content_agent_policy_reasons: a person approves, whatever the thresholds say.
ContentAgentReasons(request, settings) ==
    {"human_approval"} \cup RiskReasons(request, settings)

RetrievesContext(request) == request.task_type \in {"agentic_rag", "deep_research"}

\* A run as every handler builds it: its reasons decide its status.
BuiltRun(id, request, inForce, reasons, context) ==
    [run_id |-> id, request |-> request, policy_revision |-> inForce.revision,
     policy_reasons |-> reasons, context |-> context,
     status |-> IF reasons = {} THEN "completed" ELSE "needs_council_review"]

\* The handlers of the task types. Analyses and retrievals need no review.
AudienceAnalysis(id, request, inForce) == BuiltRun(id, request, inForce, {}, {})
AgenticRag(id, request, inForce, context) == BuiltRun(id, request, inForce, {}, context)
DeepResearch(id, request, inForce, context) == BuiltRun(id, request, inForce, {}, context)
AutoReply(id, request, inForce) ==
    BuiltRun(id, request, inForce, AutoReplyReasons(request, inForce.settings), {})
ContentHygiene(id, request, inForce) ==
    BuiltRun(id, request, inForce, HygieneReasons(request, inForce.settings), {})
PublicationOptimization(id, request, inForce) ==
    BuiltRun(id, request, inForce, OptimizationReasons(request, inForce.settings), {})
ContentAgentAction(id, request, inForce) ==
    BuiltRun(id, request, inForce, ContentAgentReasons(request, inForce.settings), {})

\* The types that retrieve have their context by then.
DecidedRun(id, request, inForce, context) ==
    CASE request.task_type = "engagement_auto_reply" -> AutoReply(id, request, inForce)
      [] request.task_type = "content_hygiene" -> ContentHygiene(id, request, inForce)
      [] request.task_type = "publication_optimization" ->
             PublicationOptimization(id, request, inForce)
      [] request.task_type = "content_agent_action" -> ContentAgentAction(id, request, inForce)
      [] request.task_type = "agentic_rag" -> AgenticRag(id, request, inForce, context)
      [] request.task_type = "deep_research" -> DeepResearch(id, request, inForce, context)
      [] OTHER -> AudienceAnalysis(id, request, inForce)

\* The audit record comes before the announcement, which may wait.
Announcing(c, run) ==
    /\ Len(runAudit) < MaxRunAudits
    /\ runAudit' = Append(runAudit, run)
    /\ running' = [running EXCEPT ![c] = [at |-> "announcing", run |-> run]]

\* run_agent: the thresholds are read first, for every kind of run.
RefuseRun(c, request) ==
    /\ running[c].at = "idle"
    /\ MayNotRun(request)
    /\ thresholds' = GetThresholds
    /\ UNCHANGED <<thresholdAudit, thresholdEvents, missed, running, runs, runAudit, runEvents, ragStore>>

DecideRun(c, id, request) ==
    /\ running[c].at = "idle"
    /\ ~MayNotRun(request) /\ ~RetrievesContext(request)
    /\ thresholds' = GetThresholds
    /\ Announcing(c, DecidedRun(id, request, GetThresholds, {}))
    /\ UNCHANGED <<thresholdAudit, thresholdEvents, missed, runs, runEvents, ragStore>>

BeginRetrieval(c, id, request) ==
    /\ running[c].at = "idle"
    /\ RetrievesContext(request)
    /\ thresholds' = GetThresholds
    /\ running' = [running EXCEPT ![c] = [at |-> "retrieving", id |-> id, request |-> request,
                                          inForce |-> GetThresholds]]
    /\ UNCHANGED <<thresholdAudit, thresholdEvents, missed, runs, runAudit, runEvents, ragStore>>

\* _retrieve_rag_context: at most limit documents, of the source type if one is
\* asked for; which ones are nearest is left open.
MatchingDocuments(request) ==
    {d \in ragStore : request.source_type \in {"any", d.source_type}}

Retrieve(c) ==
    /\ running[c].at = "retrieving"
    /\ LET call == running[c]
           found == MatchingDocuments(call.request)
       IN  \E context \in SUBSET found :
              /\ \/ Cardinality(context) = call.request.limit
                 \/ context = found /\ Cardinality(found) < call.request.limit
              /\ Announcing(c, DecidedRun(call.id, call.request, call.inForce, context))
    /\ UNCHANGED <<thresholdVars, runs, runEvents, ragStore>>

\* publish delivers the event; the run is stored only when it returns.
AnnounceRun(c) ==
    /\ running[c].at = "announcing"
    /\ runEvents' = Append(runEvents, running[c].run)
    /\ running' = [running EXCEPT ![c].at = "storing"]
    /\ UNCHANGED <<thresholdVars, runs, runAudit, ragStore>>

\* The event id is no token, or the publisher fails: there will be no run.
AnnouncementFails(c) ==
    /\ running[c].at = "announcing"
    /\ running' = [running EXCEPT ![c] = [at |-> "idle"]]
    /\ UNCHANGED <<thresholdVars, runs, runAudit, runEvents, ragStore>>

\* add_run: a run id that is taken is refused, after the audit and the event.
StoreRun(c) ==
    /\ running[c].at = "storing"
    /\ LET run == running[c].run
       IN  runs' = IF \E r \in runs : r.run_id = run.run_id THEN runs ELSE runs \cup {run}
    /\ running' = [running EXCEPT ![c] = [at |-> "idle"]]
    /\ UNCHANGED <<thresholdVars, runAudit, runEvents, ragStore>>

\* upsert_rag_documents: the vector store replaces documents by their id.
UpsertRagDocuments(documents) ==
    /\ documents # {}
    /\ ragStore' = documents \cup
           {d \in ragStore : \A new \in documents : new.document_id # d.document_id}
    /\ UNCHANGED <<thresholdVars, running, runs, runAudit, runEvents>>

RunsNext ==
    \/ ThresholdsNext /\ UNCHANGED <<running, runs, runAudit, runEvents, ragStore>>
    \/ \E documents \in {{d} : d \in RagDocuments} : UpsertRagDocuments(documents)
    \/ \E c \in RunCallers :
          \/ \E request \in RunRequests :
                \/ RefuseRun(c, request)
                \/ \E id \in RunIds : DecideRun(c, id, request) \/ BeginRetrieval(c, id, request)
          \/ Retrieve(c) \/ AnnounceRun(c) \/ AnnouncementFails(c) \/ StoreRun(c)

RunsSpec == RunsInit /\ [][RunsNext]_runVars

RunsTypeOK ==
    /\ \A c \in RunCallers :
          running[c].at \in {"idle", "retrieving", "announcing", "storing"}
    /\ \A r \in runs : r.run_id \in RunIds /\ r.request \in RunRequests
    /\ ragStore \subseteq RagDocuments

\* What the Council asks a run to be reviewed for.
RunReasons(request, settings) ==
    CASE request.task_type = "engagement_auto_reply" -> AutoReplyReasons(request, settings)
      [] request.task_type = "content_hygiene" -> HygieneReasons(request, settings)
      [] request.task_type = "publication_optimization" -> OptimizationReasons(request, settings)
      [] request.task_type = "content_agent_action" -> ContentAgentReasons(request, settings)
      [] OTHER -> {}

\* A stored run was recorded in the audit log and announced as it is stored, is
\* the only one of its id, and was decided by the thresholds that were in force
\* under the revision it names, although the Council went on while it waited.
RunsAreAccounted ==
    /\ RunsTypeOK
    /\ \A r \in runs :
           /\ r \in ToSet(runAudit) /\ r \in ToSet(runEvents)
           /\ \A other \in runs : other.run_id = r.run_id => other = r
           /\ \E t \in EverInForce :
                 /\ t.revision = r.policy_revision
                 /\ r.policy_reasons = RunReasons(r.request, t.settings)
=============================================================================
