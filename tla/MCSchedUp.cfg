SPECIFICATION FairSpec
CONSTANTS
    OnlineCpus = 1
    Proc = {p1, p2, p3}
    Nil = Nil
    InitProc = p1
    MaxLen = 4
    MaxEvents = 0
INVARIANTS Placed ResumesWhereStopped
PROPERTY ReadyRuns
