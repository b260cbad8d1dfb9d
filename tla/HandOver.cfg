SPECIFICATION Spec
CONSTANTS
    u1 = u1
    t1 = t1
    w1 = w1
    w2 = w2
    None = None
    Users = {u1}
    Me = u1
    Trades = {t1}
    Owner <- OwnersOfOne
    Age <- AgesOfOne
    Fresh = {t1}
    Runs = {w1}
    MaxUsers = 2
    MaxPositions = 2
    LeaseFor = 1
    TakeoverAfter = 3
    ReadOnlyAfter = 2
    BeatEvery = 1
    MaxFaults = 1
    MaxStarts = 2
INVARIANT
    HandOverOK
PROPERTY
    BookIsTended
CHECK_DEADLOCK FALSE
