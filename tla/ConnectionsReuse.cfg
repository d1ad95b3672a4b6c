SPECIFICATION ConnSpec
CONSTANTS
    c1 = c1
    c2 = c2
    c3 = c3
    s1 = s1
    s2 = s2
    s3 = s3
    t1 = t1
    t2 = t2
    NoCo = NoCo
    NoToken = NoToken
    TimerFd = TimerFd
    Coros = {c1}
    Socks = {s1}
    Tokens = {}
    Listeners = {}
    Unused = {s1}
    Own = Own
    MaxEvents = 128
    Menu <- Reconnecting
    MaxOps = 3
    Cancellers = {}
    CancelThreads = FALSE
    PeerMoves = {"send", "drain", "shut", "reset"}
    MaxBytes = 2
INVARIANTS ConnectedMeansConnected
CHECK_DEADLOCK FALSE
