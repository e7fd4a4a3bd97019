\* A session's receiver, and another session's thread in a broadcast.
SPECIFICATION Spec
CONSTANTS
    Reader = {own, other}
    Header = 2
    PayloadSizes = {0, 1}
    Capacity = 3
    MaxPackets = 2
INVARIANT WholePackets
CHECK_DEADLOCK FALSE
