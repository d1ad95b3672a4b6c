SPECIFICATION Spec
CONSTANTS
    c1 = c1
    c2 = c2
    c3 = c3
    s1 = s1
    s2 = s2
    t1 = t1
    t2 = t2
    NoCo = NoCo
    NoToken = NoToken
    TimerFd = TimerFd
    Coros = {c1, c2}
    Socks = {s1}
    Tokens = {t1}
    Listeners = {}
    Unused = {}
    Own = Own
    MaxEvents = 128
    Menu <- Timers
    MaxOps = 2
    Cancellers = {}
    CancelThreads = FALSE
    PeerMoves = {"send", "drain"}
    MaxBytes = 2
INVARIANTS ShortReadMeansEof
CHECK_DEADLOCK FALSE
