SPECIFICATION Spec
CONSTANTS
    a = a
    Symbols = {a}
    Moves <- MCMoves
    Bracket = 2
    MaxHold = 2
    MaxOpen = 1
    MaxClosed = 1
    Horizon = 4
    MaxTrades = 2
    MaxBoots = 2
    MaxLost = 1
    NoTrade = NoTrade
    NoExit = NoExit
    s1 = s1
    s2 = s2
    s3 = s3
    p1 = p1
    r1 = r1
    r2 = r2
    Sessions = {s1, s2, s3}
    Scripts = {p1}
    Rulebooks = {r1, r2}
    Build <- MCBuild
    Casts <- MCCasts
    MaxCloses <- MCMaxCloses
    Results <- MCResults
    MinTrades = 2
    Folds = 2
    MinPositiveFolds = 1
    MinTested = 2
    MinLive = 1
    Alarm = 1
    Window = 3
    MaxInFlight = 1
    MaxVerdicts = 4
    MaxAborts = 1
    NoRules = NoRules
    Never = Never
    Prices <- MCPrices
    PerMinute = 2
    StopAt = 3
    TargetAt = 4
    Through = 1
    FillWindow = 1
    Hold = 2
    Day = 1
    Grace = 1
    Minutes = 3
    Mirrorers = {s1}
    MaxFailures = 1
    Nothing = Nothing
INVARIANT
    CourtOK
PROPERTIES
    ShadowKeeps
    StaleConvictionEnds
    ReplayIsHonest
CHECK_DEADLOCK FALSE
