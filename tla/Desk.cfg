SPECIFICATION DeskSpec
CONSTANTS
    a = a
    b = b
    c1 = c1
    c2 = c2
    LiveSymbols = {a}
    Closers = {c1, c2}
    LiveCap = 2
    FailureLimit = 1
    HistoryPage = 2
    MaxEntries = 2
    MaxExits = 2
    MaxFaults = 1
    NoCall = NoCall
    NoPoll = NoPoll
    s1 = s1
    Symbols = {s1}
    None = None
    MaxIds = 2
    MaxMoves = 1
    Shorts = {2}
    Makers = {1}
    MaxTroubles = 1
INVARIANTS
    LiveOK
    MirrorOK
PROPERTIES
    HistoryCatchesUp
    FlatInTheEnd
\* The exchange, the bounds, the idle tab and a switch that is off may stop.
CHECK_DEADLOCK FALSE
