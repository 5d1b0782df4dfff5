CONSTANTS
    Callers = {c1, c2}
    GenerationKeys = {k1}
    ContentRequests <- MCContentRequests
    MaxContents = 3
    MaxClicks = 1
    Members = {m1, m2}
    Governors = {g1}
    Threads = {h1, h2}
    Reusing = {h2}
    ConsentKeys = {terms, news}
    RequiredConsents = {terms}
    Meanwhile = {h1}
    Readers = {p1}
    Completed = {m2}
    Answers = {q}
    WalletRequests <- MCWalletRequests
    WalletKeys = {q1, q2, q3}
    PageLimit = 1
    MaxOperations = 3
    PolicyKeys <- MCPolicyKeys
    PolicyValues <- MCPolicyValues
    DefaultValues <- MCDefaultValues
    FactValues = {1, 2}
    Appliers = {a1}
    MaxVersion = 2
    DefaultThresholds <- MCDefaultThresholds
    ThresholdUpdates <- MCThresholdUpdates
    ThresholdReaders = {v1}
    MaxRevision = 2
    TaskIds = {t1, t2, t3}
    TaskRequests <- MCTaskRequests
    QueueLimitField <- MCQueueLimitField
    MaxTaskAudits = 3
    RunCallers = {u1, u2}
    RunIds = {n1}
    RunRequests <- MCRunRequests
    RagDocuments <- MCRagDocuments
    MaxRunAudits = 2
    ProxyConfigs <- MCProxyConfigs
    MaxPoolRevision = 4
    MaxLeases = 5
    Dispatches = {d1, d2}
    Recipients <- MCRecipients
    NotifyRequests <- MCNotifyRequests
    SavedEarlier <- MCSavedEarlier
    PreferenceUpdates <- MCPreferenceUpdates
    TemplateKeys = {"news"}
    EmailRoutes <- MCEmailRoutes
    RouteStatuses = {"active", "standby"}
    RoutesWithAdapter = {"smtp"}
    HasAddress = {"ann"}
    MaxUpdates = 1
    Accounts = {x1}
    MembersLinked = {y1, y2}
    MembersShown = {y1}
    Polls = {z1, z2}
    Silent = {z2}
    RotatorSize = 1
    MaxMessages = 2
    MaxLinks = 2
    Metrics <- MCMetrics
    KPITargets <- MCKPITargets
    Periods = {1, 2}
    BatchIds = {b1, b2}
    SignalIds = {s1}
    KPIValues = {2}
    IterationIds = {i1}
    MaxEvents = 2
    MaxMeasurements = 2
    KPIEvents <- MCKPIEvents
    PilotIncidents <- MCPilotIncidents
    UsageSignals <- MCUsageSignals
    Earlier <- MCEarlier
    Boards <- MCBoards
SPECIFICATION CommandAlone
INVARIANTS
    CouncilThresholdsStay
CHECK_DEADLOCK FALSE
