\* The network delivers a message in pieces.
CONSTANTS
    StringSize = 4
    Asks <- MCAsks
    Limit = 2
    Pieces = TRUE
    MaxSent = 2
    MaxConn = 1
SPECIFICATION AllSpec
INVARIANT NeverRefused
CHECK_DEADLOCK FALSE
