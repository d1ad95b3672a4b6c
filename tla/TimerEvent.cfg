SPECIFICATION FairSpec
CONSTANTS
    p1 = p1
    p2 = p2
    p3 = p3
    Ops = {p1, p2, p3}
    NoOp = NoOp
    Delays <- MCDelays
    MaxTime = 3
    MaxTimers = 3
INVARIANTS TypeOK NoTimerLost EarliestIsArmed TombstonesCoverQueue IInv
PROPERTIES NeverEarly ServiceSpec EveryTimerEnds
CHECK_DEADLOCK FALSE
