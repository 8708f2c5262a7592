SPECIFICATION MCSpec
CONSTANTS
    c1 = c1 c2 = c2 c3 = c3 p1 = p1 p2 = p2
    h1 = h1 h2 = h2 h3 = h3
    MaxTime = 3
    Keys = {k1, k2}
    Readers = {r1, r2}
    Loads = {l1, l2}
    None = None
    Ttl = 1
    Swr = 2
    StaleIfError = 1
    MaxEntries = 1
    MaxVersion = 2
    Callers = {c1, c2, c3}
    Processes = {p1, p2}
    Home <- TwoProcesses
    TtlS = 2
    StaleIfErrorS = 1
    Nobody = Nobody
    Nothing = Nothing
    MaxDisturbances = 1
    Clients = {g1, g2, g3}
    Requests = {q1, q2}
    Nil = Nil
    MaxDataset = 2
    MaxDisruptions = 1
    MaxProvider = 2
    MaxTroubles = 1
    Records = {h1, h2, h3}
    Payloads <- OverlappingPayloads
    Persists = {w1, w2}
    Broken = Broken
    MaxCuts = 2
    TtlF = 1
    StaleIfErrorF = 1
    StaleAfter = 0
    PartnerTtl = 2
    RequestTimeout = 1
    MaxDelay = 1
    Unseen = Unseen
    Unreported = Unreported
    Scenarios <- SmallScenarios
    Lives = {45}
    IntervalInputs = {0, 2, 6}
    SpeedInputs = {10, 300}
    MaxObjectsPerBlock = 12
    RouteCount = 10
    MaxTick = 66
INVARIANTS ServicesTypeOK NeverTooOld OneLoadPerProcess NoForeignAnswer  OneLinePerKey LiveTracksAreRecent  LostBeforeGone GeneratedWithinRate PairsEndTogether
PROPERTIES AnswersNeverGoBack ReadersAnswered  FeedCatchesUp EveryRecordReadable
CHECK_DEADLOCK FALSE
