CONSTANTS
    Plans <- MCPlans
    DefaultPlan <- MCDefaultPlan
    RateLimit <- MCRateLimit
    Requests = {q1, q2, q3}
    Subjects = {s1}
    QueueAmounts = {1}
    MaxClock = 2
    MaxHeld = 2
    Tenants = {t1, t2}
    Slugs = {north, south}
    Applications = {a1, a2}
    ResourcePlans = {basic, large}
    ProfileStatuses = {"published"}
    MaxDecisions = 2
    Owners = {o1, o2, o3}
    LockTTL = 2
    MaxSeconds = 6
    Logins = {l1, l2}
    MaxTokens = 4
    RefreshTTL = 2
    AccessTTL = 1
    MaxTime = 4
    Calls = {c1, c2}
    HostEnvs <- MCHostEnvs
    Copies = {k1, k2}
    TokenTTL = 2
    ReplayWindow = 1
    MaxSkew = 1
    LastSecond = 2
    Workers = {w1, w2, w3}
    EntryTTL = 2
    MaxCacheTime = 4
    MaxCount = 3
    StorageTenants = {t1, t2}
    HttpRequests = {r1, r2}
    BearerTokens <- MCBearerTokens
    Bodies = {b1}
    VectorIds = {v1, v2}
    RowIds = {i1}
    UrlLife = 1
    MaxCalls = 2
    MaxInstant = 1
    TopicTenants <- MCTopicTenants
    EventTypes <- MCEventTypes
    Bindings <- MCBindings
    BatchLimits = {0, 1}
    MaxEnvelopes = 3
SPECIFICATION Spec
INVARIANTS
    BudgetsAreKept
    SlugLeadsToItsTenant
    CacheKeepsTime
    SessionHasOneToken
    ReplaysAreRefused
    StorageKeptApart
    EventsFindTheirConsumers
CHECK_DEADLOCK FALSE
