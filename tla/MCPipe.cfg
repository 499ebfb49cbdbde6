SPECIFICATION FairSpec
CONSTANTS
    None = None
    Reader = {"r1"}
    Writer = {"w1"}
    Nonblock = {}
    Byte = {0, 1}
    Size = 2
    MaxIov = 2
    Fifo = TRUE
INVARIANT WakeSound
PROPERTIES StreamSpec SleeperWakes
CHECK_DEADLOCK FALSE
