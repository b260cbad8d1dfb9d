SPECIFICATION RowsSpec
CONSTANTS
    s1 = s1
    Symbols = {s1}
    None = None
    Drivers = {"runner", "dashboard"}
    Orderings = {TRUE, FALSE}
    Lossy = FALSE
    SeedLimit = 1
    MaxIds = 2
    MaxTime = 1
    MaxCrashes = 1
    MaxResets = 1
    Agents <- TwoAgents
    TradedSymbols = {"x"}
    BaseWeight <- SomeWeights
    Votes <- SomeVotes
    Gates <- SomeGates
    Outcomes <- SomeOutcomes
    BaseConfidence = 62
    VoteThreshold = 6000
    MinSample = 2
    CalibrationSample = 2
    SymbolSample = 2
    MaxTrades = 3
    MaxOpenTrades = 1
    MaxSaves = 2
    MaxDeploys = 1
    MaxRestarts = 1
    People = {"ann"}
    BotEmail = "bot"
    Clients = {"runner", "tab"}
    Legacy = 0
    MaxUsers = 2
    MaxRotations = 1
    Unit = 20
    Marks = {9, 10, 11}
    Spreads = {0, 2, 10}
    Counts = {1, 2, 3}
    Needs = {1, 4}
    Bounds = {0, 160, 230}
    Traders = {"u1", "u2"}
    Operators = {"ann", "bob"}
    Verdicts = {"CONVICTED", "NOT PROVEN"}
    Unjudged = Unjudged
    MaxToolRuns = 1
    MaxEngineRuns = 1
    MaxVerdicts = 1
    MaxHaltResets = 1
    Scripts <- SomeScripts
    Refers <- SomeReferences
    Watched = TRUE
    MaxRollouts = 2
    MaxByHand = 1
    MaxPolls = 1
    MaxNetwork = 2
    Ladder <- SomeLadder
    Confidences = {55, 65, 75}
    Earned <- SomeEarned
    Reasons = {"confidence", "suppressed"}
    MinPool = 3
    MinPerThreshold = 2
    MaxReal = 2
    MaxShadows = 3
    NoAdvice = NoAdvice
INVARIANTS
    StoreOK
    RowsAgree
    LatticeOK
PROPERTIES
    FundingRecordKept
    RecordedNotRecharged
    LearningIsSound
    AccountsKeep
    HaltIsKept
    RolloutIsSafe
    AdviceIsSound
CHECK_DEADLOCK FALSE
