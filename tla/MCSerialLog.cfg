SPECIFICATION Spec
CONSTANTS
    Cpus = {c1, c2}
    Crashers = {c1}
    OneLine <- MCOneLine
    Faults <- MCFaults
    OldLogs <- MCOldLogs
    Traced = {TRUE}
    Depths = {0, 2}
    MaxMsgs = 3
    TOP_TEXT = 1
    TOP_JSON = 1
    TOP_CHANGES = 2
    IDLE_WINDOW = 2
INVARIANTS LinesCounted  CrashShown OutputsTrue DiffTrue
