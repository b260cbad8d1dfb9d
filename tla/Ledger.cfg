SPECIFICATION KeptSpec
CONSTANTS
    Symbols = {s1, s2}
    None = None
    Prices <- TwoPrices
    Margins = {4, 13}
    FundingFees <- FundingRates
    StartingBalance = 20
    MaxPositions = 2
    MaxSameSide = 1
    UsageNum = 4
    UsageDen = 5
    MaxDrawdown = 4
    TakerFee = 1
    MakerFee = 0
    TpAsLimit = TRUE
    ChaseOnExpiry = FALSE
    StopDist = 2
    TargetDist = 2
    LiqDist = 2
    BreakevenDist = 2
    TrailStartDist = 3
    TrailDist = 1
    FeeCushion = 1
    CarryBudget = 2
    Latency = 1
    RestTime = 1
    MaxHold = 1
    Cooldown = 1
    MaxOrders = 2
    MaxFundings = 1
    Periods = {1, 2}
    DefaultPeriod = 2
    WalkCap = 1
    MaxClock = 3
    MaxRecuts = 1
    MaxHolds = 1
    MaxReboots = 1
    Unknown = Unknown
    Signals <- SomeSignals
    PageSize = 1
    MaxBatches = 2
    MaxNeonResets = 1
    MaxArchiveCrashes = 1
    NoSignal = NoSignal
    Ranked = {"redis"}
    Neon = {"trades"}
    Venue = "venue"
    Mirror = "mirror"
    Configurations <- SomeConfigurations
    MaxRequests = 2
INVARIANTS
    PostingsOK
    LedgerIdentity
    FundingOK
PROPERTIES
    FundingFlows
    ArchiveKeeps
    ReportIsHonest
\* A broker with no orders, a script that has ended and a report that has been given stop.
CHECK_DEADLOCK FALSE
