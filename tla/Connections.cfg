SPECIFICATION ConnSpec
CONSTANTS
    c1 = c1
    c2 = c2
    c3 = c3
    s1 = s1
    s2 = s2
    s3 = s3
    t1 = t1
    t2 = t2
    NoCo = NoCo
    NoToken = NoToken
    TimerFd = TimerFd
    Coros = {c1, c2}
    Socks = {s1, s2}
    Tokens = {t1}
    Listeners = {s1}
    Unused = {s2}
    Own = Own
    MaxEvents = 128
    Menu <- ServerAndClient
    MaxOps = 3
    Cancellers = {c2}
    CancelThreads = FALSE
    PeerMoves = {"send", "drain", "shut", "reset"}
    MaxBytes = 2
INVARIANTS BInv WInv NoLostWakeup CancelReported SlotsLive RunsWhileNeeded NoStaleEntry DescriptorsOwned
CHECK_DEADLOCK FALSE
