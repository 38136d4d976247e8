SPECIFICATION OffloadSpec
CONSTANTS
    MaxChunks = 3
    MaxFaults = 1
INVARIANTS ChunksKept SniffedFirst
CHECK_DEADLOCK FALSE
