SPECIFICATION FairSpec
CONSTANTS
    c1 = c1
    c2 = c2
    c3 = c3
    s1 = s1
    s2 = s2
    t1 = t1
    t2 = t2
    NoCo = NoCo
    NoToken = NoToken
    TimerFd = TimerFd
    Coros = {c1, c2}
    Socks = {s1, s2}
    Tokens = {t1, t2}
    Listeners = {}
    Unused = {}
    Own = Own
    MaxEvents = 128
    Menu <- Cancellable
    MaxOps = 1
    Cancellers = {}
    CancelThreads = TRUE
    PeerMoves = {}
    MaxBytes = 1
PROPERTIES CancelWakes
CHECK_DEADLOCK FALSE
