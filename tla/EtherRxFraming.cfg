\* The bounds of MCEtherRx.cfg.  The two threads write to one socket with no lock.
CONSTANTS
    ArraySize = 2
    Window = 2
    MaxSeqnum = 3
    MaxConn = 2
    Sizes <- MCSizes
SPECIFICATION Spec
INVARIANT Framed
CHECK_DEADLOCK FALSE
