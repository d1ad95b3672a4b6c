SPECIFICATION ConnFairSpec
CONSTANTS
    c1 = c1
    c2 = c2
    c3 = c3
    s1 = s1
    s2 = s2
    s3 = s3
    t1 = t1
    t2 = t2
    NoCo = NoCo
    NoToken = NoToken
    TimerFd = TimerFd
    Coros = {c1, c2}
    Socks = {s1, s2, s3}
    Tokens = {t1}
    Listeners = {s1}
    Unused = {s2}
    Own = Own
    MaxEvents = 128
    Menu <- Turns
    MaxOps = 2
    Cancellers = {c2}
    CancelThreads = FALSE
    PeerMoves = {"send"}
    MaxBytes = 1
INVARIANTS ConnectedMeansConnected CInv MainsInv
PROPERTIES CancelWakes DataWakes TimedOpsEnd ConnectEnds
CHECK_DEADLOCK FALSE
