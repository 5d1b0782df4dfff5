------------------------------ MODULE MCServices ------------------------------
(***************************************************************************)
(* Services that keep their state to themselves, checked in one run. Only  *)
(* the command centre and the orchestrator share variables, the Council's  *)
(* thresholds, of which each has a copy of its own; so the run takes one   *)
(* part per behaviour: the part is chosen in the initial state, and the    *)
(* states of the run are the sum of those of the parts.                    *)
(***************************************************************************)
EXTENDS ContentGeneration, CabinetPrivacy, Wallet, PolicyVersions, CommandCenter, AgentRuns,
        ProxyPools, NotificationGateway, TelegramUpdates, AnalyticsIterations, KPIDashboards

VARIABLE part

\* Content generation: the second request routes to a single partner and names no
\* member to credit, the third does not render, the fourth lets in a candidate
\* without weight.
Partner(owner, weight) == [owner |-> owner, contribution_weight |-> weight]
Candidates == <<Partner("ada", 2), Partner("bob", 0), Partner("eve", 1)>>
Generate(candidates, min, seed, renders, member) ==
    [l3_candidates |-> candidates, l3_min |-> min, seed |-> seed, renders |-> renders,
     member |-> member]
MCContentRequests ==
    {Generate(Candidates, 1, 2, TRUE, TRUE), Generate(<<Partner("eve", 1)>>, 1, 1, TRUE, FALSE),
     Generate(Candidates, 1, 2, FALSE, TRUE), Generate(Candidates, 0, 2, TRUE, TRUE)}

Payment(id, member, amount) == [operation_id |-> id, member_id |-> member, amount |-> amount]
MCWalletRequests ==
    {Payment(1, "ann", 2), Payment(2, "ann", -1), Payment(3, "ann", 2), Payment(3, "ben", -1)}

\* Policies: a limit and a range; a flag and a limit that cannot always be applied.
Limit == [kind |-> "threshold", operator |-> "lte", threshold |-> 1, min |-> 0, max |-> 0,
          expected |-> 0, on_violation |-> "escalate"]
MCDefaultValues == [limit |-> Limit]
MCPolicyKeys == {"limit", "switch"}
MCPolicyValues ==
    {Limit, [Limit EXCEPT !.kind = "flag", !.expected = 2, !.on_violation = "ask"],
     [Limit EXCEPT !.operator = "between", !.min = 2, !.max = 3],
     [Limit EXCEPT !.operator = "about"]}

MCDefaultThresholds ==
    [max_autonomous_risk_score |-> 45, min_agent_confidence |-> 75,
     operational_queue_limit |-> 1, strategic_queue_limit |-> 1,
     max_autonomous_recipients |-> 5, min_content_quality_score |-> 70,
     allowed_template_keys |-> {"thanks"}]
MCThresholdUpdates ==
    {[max_autonomous_risk_score |-> 60, operational_queue_limit |-> 2]}
MCQueueLimitField ==
    [operational |-> "operational_queue_limit", strategic |-> "strategic_queue_limit"]
MCTaskRequests ==
    {[feedback_loop |-> "operational", risk_score |-> 45, agent_confidence |-> 80],
     [feedback_loop |-> "operational", risk_score |-> 50, agent_confidence |-> 80]}

Source(platform, tos) ==
    [access_scope |-> "public", tos_status |-> tos, legal_basis |-> "consent",
     personal_data_fields |-> {}, platform |-> platform]
MCRunRequests ==
    {[task_type |-> "audience_analysis", sources |-> {Source("facebook", "allowed")}],
     [task_type |-> "engagement_auto_reply", risk_score |-> 50, agent_confidence |-> 80,
      estimated_recipients |-> 5, template_key |-> "thanks", platform |-> "telegram"],
     [task_type |-> "publication_optimization", engagement_rate |-> 299,
      click_through_rate |-> 100, share_rate |-> 100, risk_score |-> 20, agent_confidence |-> 80],
     [task_type |-> "content_agent_action", risk_score |-> 20, agent_confidence |-> 80],
     [task_type |-> "content_hygiene", text |-> {"unsafe_keyword"}],
     [task_type |-> "agentic_rag", source_type |-> "guide", limit |-> 1]}
MCRagDocuments == {[document_id |-> "d1", source_type |-> "guide"]}

Proxy(id, enabled) == [proxy_id |-> id, enabled |-> enabled]
MCProxyConfigs ==
    {<<Proxy("p1", TRUE), Proxy("p2", TRUE), Proxy("p3", TRUE)>>,
     <<Proxy("p2", TRUE), Proxy("p1", FALSE)>>}

\* The second request brings a template that does not render.
MCNotifyRequests ==
    {[recipients |-> <<"ann", "ben", "ann">>, channels |-> {"telegram", "email"},
      template_key |-> "news", template |-> NoTemplate],
     [recipients |-> <<"ben">>, channels |-> {}, template_key |-> "news",
      template |-> [channels |-> {"email"}, renders |-> FALSE, exists |-> TRUE]]}
MCSavedEarlier == "ann" :> [channels |-> {"telegram", "email"}] @@ "ben" :> <<>>
MCPreferenceUpdates == {[channels |-> {"email"}], [subscribed |-> FALSE], [enabled |-> FALSE]}
MCEmailRoutes == <<"smtp", "api">>
MCRecipients == {"ann", "ben"}

MCKPITargets == [reach |-> [target_min |-> 1, target_max |-> 1],
                 errors |-> [target_min |-> 0, target_max |-> 2]]
MCMetrics == {"reach", "errors"}

\* KPI: the earlier events meet every target of the first period but one,
\* which an event to come meets; another is a second activity of the same member.
KPIEvent(id, type, period, value, samples, member) ==
    [event_id |-> id, type |-> type, period |-> period, value |-> value, samples |-> samples,
     member |-> member]
MCEarlier ==
    {KPIEvent(1, "member_active", 1, 14, 0, "none"), KPIEvent(2, "member_joined", 1, 3, 0, "none"),
     KPIEvent(3, "material_published", 1, 20, 0, "none"), KPIEvent(4, "content_viewed", 1, 10000, 0, "none"),
     KPIEvent(5, "reading_time_recorded", 1, 360, 2, "none"), KPIEvent(6, "task_completed", 1, 10, 0, "none"),
     KPIEvent(7, "initiative_created", 1, 2, 0, "none"), KPIEvent(8, "member_active", 1, 1, 0, "ann")}
MCKPIEvents ==
    {KPIEvent(9, "member_active", 1, 1, 0, "ann"), KPIEvent(10, "comment_created", 1, 50, 0, "none"),
     KPIEvent(11, "comment_created", 2, 50, 0, "none"), KPIEvent(12, "content_viewed", 3, 1, 0, "none")}
MCPilotIncidents ==
    {[incident_id |-> 1, period |-> 1, status |-> "open", severity |-> "high"],
     [incident_id |-> 2, period |-> 1, status |-> "resolved", severity |-> "high"]}
MCUsageSignals ==
    {[signal_id |-> 1, period |-> 1, name |-> "sessions", value |-> 2]}
MCBoards ==
    {[kind |-> "dashboard", period |-> 1, category |-> "all", limit |-> 2],
     [kind |-> "dashboard", period |-> 2, category |-> "engagement", limit |-> 3],
     [kind |-> "report", period |-> 1, category |-> "all", limit |-> 0]}

Init ==
    /\ part \in {"contents", "privacy", "pages", "wallet", "policies", "command", "runs", "proxies", "notify", "updates", "analytics", "boards"}
    /\ ContentsInit /\ PrivacyInit /\ PagesInit /\ WalletInit /\ PoliciesInit /\ CommandInit /\ RunsInit
    /\ ProxiesInit /\ NotifyInit /\ UpdatesInit /\ AnalyticsInit /\ BoardsInit

taskVars == <<tasks, taskAudit, taskEvents>>
agentVars == <<running, runs, runAudit, runEvents, ragStore>>

Only(name, step, others) == part = name /\ step /\ UNCHANGED part /\ UNCHANGED others

Next ==
    \/ Only("contents", ContentsNext, <<privacyVars, pageVars, walletVars, policyVars, thresholdVars, taskVars,
            agentVars, proxyVars, notifyVars, updateVars, analyticsVars, boardVars>>)
    \/ Only("privacy", PrivacyNext, <<pageVars, contentVars, walletVars, policyVars, thresholdVars, taskVars,
            agentVars, proxyVars, notifyVars, updateVars, analyticsVars, boardVars>>)
    \/ Only("pages", PagesNext, <<contentVars, walletVars, policyVars, thresholdVars, taskVars,
            agentVars, proxyVars, notifyVars, updateVars, analyticsVars, boardVars>>)
    \/ Only("wallet", WalletNext, <<contentVars, privacyVars, pageVars, policyVars, thresholdVars, taskVars,
            agentVars, proxyVars, notifyVars, updateVars, analyticsVars, boardVars>>)
    \/ Only("policies", PoliciesNext, <<contentVars, privacyVars, pageVars, walletVars, thresholdVars, taskVars,
            agentVars, proxyVars, notifyVars, updateVars, analyticsVars, boardVars>>)
    \/ Only("command", CommandNext, <<contentVars, privacyVars, pageVars, walletVars, policyVars, agentVars,
            proxyVars, notifyVars, updateVars, analyticsVars, boardVars>>)
    \/ Only("runs", RunsNext, <<contentVars, privacyVars, pageVars, walletVars, policyVars, taskVars,
            proxyVars, notifyVars, updateVars, analyticsVars, boardVars>>)
    \/ Only("proxies", ProxiesNext, <<contentVars, privacyVars, pageVars, walletVars, policyVars, thresholdVars,
            taskVars, agentVars, notifyVars, updateVars, analyticsVars, boardVars>>)
    \/ Only("notify", NotifyNext, <<contentVars, privacyVars, pageVars, walletVars, policyVars, thresholdVars,
            taskVars, agentVars, proxyVars, updateVars, analyticsVars, boardVars>>)
    \/ Only("updates", UpdatesNext, <<contentVars, privacyVars, pageVars, walletVars, policyVars, thresholdVars,
            taskVars, agentVars, proxyVars, notifyVars, analyticsVars, boardVars>>)
    \/ Only("analytics", AnalyticsNext, <<contentVars, privacyVars, pageVars, walletVars, policyVars, thresholdVars,
            taskVars, agentVars, proxyVars, notifyVars, updateVars, boardVars>>)
    \/ Only("boards", BoardsNext, <<contentVars, privacyVars, pageVars, walletVars, policyVars, thresholdVars,
            taskVars, agentVars, proxyVars, notifyVars, updateVars, analyticsVars>>)

vars == <<part, contentVars, privacyVars, pageVars, walletVars, policyVars, thresholdVars, taskVars, agentVars,
          proxyVars, notifyVars, updateVars, analyticsVars, boardVars>>

Spec == Init /\ [][Next]_vars

\* One part alone, for the runs that look for one disagreement.
CommandAlone == Init /\ part = "command" /\ [][Next]_vars
PrivacyAlone == Init /\ part = "privacy" /\ [][Next]_vars

\* The cabinet keeps the records of its members apart, and its pages show nobody
\* ready who is not, while requests of data subjects write filtered copies over
\* each other on several threads (web_cabinet/api.py).
CabinetIsConsistent == OthersAreUntouched /\ ReadinessIsEarned

\* The figures that are shown add up to what was recorded: the statement of a
\* member, although operations come again, and the dashboards and reports, although
\* they list the records several times (wallet/api.py, web_cabinet/api.py,
\* analytics_engine/api.py).
FiguresAddUp == StatementAddsUp /\ DashboardsAddUp

\* What agents do without the Council stays within thresholds the Council had set:
\* tasks that queue up and runs that retrieve while the thresholds change
\* (command_center.py, orchestrator.py).
AutonomyIsBounded == QueueIsBounded /\ RunsAreAccounted
=============================================================================
