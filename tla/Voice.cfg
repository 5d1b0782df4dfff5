CONSTANTS
    None = None
    EventIds = {e1, e2}
    CouncilHashes = {h1, h2}
    MaxBatch = 2
    Audios = {a1}
    Contents = {x1, x2}
    Callers = {c1, c2}
    Cleaners = {k1}
    TTL = 1
    MaxTime = 2
    MaxStored = 2
SPECIFICATION FairSpec
CHECK_DEADLOCK FALSE
INVARIANTS ReceiptsAreKept TranscriptsAreAudited RawAudioIsTracked
PROPERTIES RawAudioEnds
