SPECIFICATION RunnerSpec
CONSTANTS
    s1 = s1
    Symbols = {s1}
    None = None
    Prices <- Ladder
    Margins = {3}
    FundingFees <- FundingRates
    StartingBalance = 20
    MaxPositions = 2
    MaxSameSide = 2
    UsageNum = 4
    UsageDen = 5
    MaxDrawdown = 4
    TakerFee = 1
    MakerFee = 0
    TpAsLimit = TRUE
    ChaseOnExpiry = FALSE
    StopDist = 1
    TargetDist = 4
    LiqDist = 3
    BreakevenDist = 2
    TrailStartDist = 3
    TrailDist = 1
    FeeCushion = 1
    CarryBudget = 2
    Latency = 1
    RestTime = 1
    MaxHold = 1
    Cooldown = 1
    MaxOrders = 2
    MaxFundings = 0
    k1 = k1
    k2 = k2
    Chunks = {k1, k2}
    MaxDrops = 3
    x = x
    y = y
    DepthSymbols = {x, y}
    MaxTracked = 1
    MaxVersions = 3
    MaxInFlight = 2
    MaxCuts = 2
    dash = dash
    run = run
    Children = {dash, run}
    Runner = run
    MaxRestarts = 1
    MaxCrashes = 2
    MaxSilences = 1
    MaxExpiries = 1
    Signs <- SomeSigns
    MarketOf <- SomeMarkets
    Listings <- SomeListings
    FactsOf <- SomeFacts
    MinScore = 94
    none = none
    NoSide = none
    TrackedSymbols = {"A"}
    Retention = 1
    Spacing = 1
    MaxLost = 1
    MaxBoots = 1
    MaxListings = 2
    MaxOutages = 1
    Never = Never
    Books <- SomeBooks
    Lasts = {1600, 1950, 2000, 2100}
    MarkPrices = {1600, 2000, 2500}
    Risks = {10, 50}
    Impacts = {0, 6}
    Balance = 100000
    Slots = 5
    Bps = 10000
    StopBps = 200
    TargetBps = 400
    BaseLeverage = 5
    FeeBps = 6
    MaxImpact = 12
    DepthPart = 5
    MaxAdverse = 25
    MaxSlip = 30
    MaxSpread = 25
    HalfSpread = 4
    MinLots = 1
    Tiers <- SomeTiers
    Blank = Blank
    MaxFills = 1
INVARIANT
    StopBeforeLiquidation
PROPERTIES
    StopRatchets
    ExposureEnds
    SwarmHolds
    DepthHolds
    StopIsRespected
    SupervisorHolds
    FeedHolds
    FillsHold
\* A stopped feed and a stopped container stop.
CHECK_DEADLOCK FALSE
