\* Liveness: two grants in all, on one connection or on two.  The process may
\* end, and the bounds stop the clients: CHECK_DEADLOCK is off.
CONSTANTS
    ArraySize = 2
    Window = 2
    MaxSeqnum = 2
    MaxConn = 2
    Sizes <- MCSizes
SPECIFICATION FairSpec
PROPERTIES GrantsServed Restarts
CHECK_DEADLOCK FALSE
