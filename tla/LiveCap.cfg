SPECIFICATION LiveSpec
CONSTANTS
    a = a
    b = b
    c1 = c1
    c2 = c2
    LiveSymbols = {a, b}
    Closers = {c1, c2}
    LiveCap = 1
    FailureLimit = 1
    HistoryPage = 2
    MaxEntries = 2
    MaxExits = 2
    MaxFaults = 1
    NoCall = NoCall
    NoPoll = NoPoll
    s1 = s1
    Symbols = {s1}
    None = None
    MaxIds = 2
    MaxMoves = 1
    Shorts = {2}
    Makers = {1}
    MaxTroubles = 1
INVARIANT CapHolds
\* The bounds stop it.
CHECK_DEADLOCK FALSE
