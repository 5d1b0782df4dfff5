CONSTANTS
    b1 = b1
    b2 = b2
    telegram = telegram
    vk = vk
    youtube = youtube
    ipfs = ipfs
    ton = ton
    x1 = x1
    x2 = x2
    x3 = x3
    NoProxy = NoProxy
    Batches = {b1, b2}
    Requested <- OneForAll
    MayStop = {b1}
    Catalog <- ThreePlatforms
    ActiveCount = 1
    PausedCount = 1
    Overrides <- StatusOverrides
    Native = {telegram, vk}
    OverHTTP = {}
    Operated = {telegram}
    RoutesOf <- SomeRoutes
    Pool <- SomeProxies
    PoolHealth <- SomeHealth
    ProxyRequired = {telegram}
    MaxAttempts = 2
    MaxFallback = 2
    p1 = p1
    s1 = s1
    s2 = s2
    t1 = t1
    t2 = t2
    Publications = {p1}
    Accounts = {t1, t2}
    AccountOf <- FirstAccount
    NoAnswer = NoAnswer
    NoKey = NoKey
    TokenIds = {"primary"}
    MaxVersions = 2
    Attempts = 3
    Senders = {s1, s2}
    SessionTenants = {t1, t2}
    TenantOfSender <- OneForBoth
    Interval = 2
    MaxMoment = 4
    MaxSessions = 3
    NoSession = NoSession
    NoSlot = NoSlot
    Posts = {v1, v2}
    MaxReactions = 1
SPECIFICATION AdapterSpec
CHECK_DEADLOCK FALSE
INVARIANTS
    VerdictsAreTrue
    ClientsAreExact
    MetricsAddUp
PROPERTIES
    TurnsAreTaken
