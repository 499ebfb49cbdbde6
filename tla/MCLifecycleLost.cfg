SPECIFICATION Spec
CONSTANTS
    Slots = 3
    MaxPid = 3
    Cpus = 2
    Threads = FALSE
    NoMemory = FALSE
INVARIANT WaitWoken
