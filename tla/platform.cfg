SPECIFICATION Spec
CONSTANTS
    None = None
    PromotionMetrics <- MCPromotionMetrics
    Metrics <- MCMetrics
    Stages = {"no walk-forward", "full"}
    Worker = {w1, w2}
    Http = http
    MaxVid = 2
    MaxJobs = 2
    MaxQueued = 2
    MaxByHand = 1
    Hideable = {1}
    Run = {w1, w2}
    Request <- MCRequest
    Symbol = {"A", "B", "X"}
    Exchanges = {"X"}
    Refreshable = {"A"}
    First <- MCFirst
    RowId = {1, 2}
    MaxDay = 3
    Since = 2
    NoRow = NoRow
    Subscribed = {"p", "q"}
    SubscrId = {1, 2, 3}
    Asker = {w1, w2}
    Mapped = {"p"}
    NoSubscr = NoSubscr
    MaxVersions = 4
    HttpRequest = {w1, w2}
    CacheTtl = 2
    MaxGen = 2
    NoUser = NoUser
    Cred = {"c", "d"}
    Editor = {w1, w2}
    MaxKey = 4
    NoCred = NoCred
    Table = {"setting", "app"}
    Thread = {w1, w2}
    MaxEdits = 2
    MaxPublished = 2
    Egress <- MCEgress
    MarketType = {"linear"}
    BrokerSession = {w1, w2}
    NoProfile = NoProfile
    BrokerApp = {"bybit"}
    Market <- MCMarket
    Lot = {1, 2}
    Edition = {w1, w2}
    MaxLimits = 2
    NoLimit = NoLimit
    Cusip = {"p", "q"}
    InstCaller = {w1, w2}
    NoCusip = NoCusip
    MaxReloads = 2
    Qty = 1
    FlatEps = 0
    Applier = {w1, w2}
    ApplyAttempts = 2
    Fitted = Fitted
    NoInterval = NoInterval
    MaxAllowed = 4
    MaxLost = 1
SYMMETRY Symmetry
CHECK_DEADLOCK FALSE
INVARIANTS
    FlagsAccounted
    BestPassedTheGates
    FramesSound
    OneProviderRow
    RevokedIsRefused
    RevokedNotServed
    NeverOlderThanStamp
    LearnedIsKept
    SessionsEndClean
    LotOfTheMarket
    CreatedIsServed
    OverlapBounded
    TransactionsExplain
    PreviewPricesTheSame
