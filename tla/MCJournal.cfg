SPECIFICATION Spec
CONSTANTS
    FsBlock = {0, 1}
    Rest = {"rest"}
    MaxBlocks = 5
    CacheSize = 1
    Images <- All
    MaxTxs = 1
    MaxQueue = 2
    MaxRevokes = 1
    MaxMounts = 3
INVARIANTS CommittedDecodes UncommittedInvisible MountSound
CHECK_DEADLOCK FALSE
