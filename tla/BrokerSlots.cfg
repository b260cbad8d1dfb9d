SPECIFICATION ProposalsSpec
CONSTANTS
    Symbols = {s1, s2, s3}
    None = None
    Prices <- TwoPrices
    Margins = {5}
    FundingFees <- FundingRates
    StartingBalance = 20
    MaxPositions = 2
    MaxSameSide = 2
    UsageNum = 4
    UsageDen = 5
    MaxDrawdown = 3
    TakerFee = 1
    MakerFee = 0
    TpAsLimit = FALSE
    ChaseOnExpiry = TRUE
    StopDist = 2
    TargetDist = 2
    LiqDist = 4
    BreakevenDist = 99
    TrailStartDist = 99
    TrailDist = 1
    FeeCushion = 2
    CarryBudget = 2
    Latency = 1
    RestTime = 1
    MaxHold = 1
    Cooldown = 1
    MaxOrders = 3
    MaxFundings = 0
    Efficiencies = {10, 40, 70}
    Autocorrs <- SomeAutocorrs
    Expansions = {100, 160}
    Reaches = {0, 50, 100}
    Vols = {4, 8}
    Lessons <- SomeLessons
    MinSamples <- SomeSamples
    RingSize = 5
    EvalInterval = 1
    MaxTradeTime = 2
SYMMETRY MCSymmetry
INVARIANTS
    ExposureOK
    PanelOK
PROPERTY
    HaltFreezesExposure
CHECK_DEADLOCK FALSE
