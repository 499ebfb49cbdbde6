SPECIFICATION FairSpec
CONSTANTS
    None = None
    Thread = {t1, t2}
    Slots = 2
    Addr = {0, 2}
    Buckets = 2
    Pairs <- Near
    PollPeriod = 2
    MaxSignals = 1
INVARIANT TableSound
PROPERTY WaitEnds
