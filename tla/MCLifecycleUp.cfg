SPECIFICATION FairSpec
CONSTANTS
    Slots = 3
    MaxPid = 4
    Cpus = 1
    Threads = TRUE
    NoMemory = TRUE
INVARIANTS SlotsSound SpacesExact ParentExists
PROPERTY InitReaps
