SPECIFICATION FairSpec
CONSTANTS
    c1 = c1
    c2 = c2
    c3 = c3
    s1 = s1
    s2 = s2
    t1 = t1
    t2 = t2
    NoCo = NoCo
    NoToken = NoToken
    TimerFd = TimerFd
    Coros = {c1, c2}
    Socks = {s1}
    Tokens = {t1, t2}
    Listeners = {}
    Unused = {}
    Own = Own
    MaxEvents = 2
    Menu <- Duplex
    MaxOps = 2
    Cancellers = {}
    CancelThreads = TRUE
    PeerMoves = {"send", "drain", "shut", "reset"}
    MaxBytes = 2
INVARIANTS TypeOK NoOrphan SlotsLive RunsWhileNeeded BytesReported ShortReadMeansEof
PROPERTIES RegisteredCancelWakes
CHECK_DEADLOCK FALSE
