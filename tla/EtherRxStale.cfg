\* The bounds of MCEtherRx.cfg.  A grant is taken, its connection ends, and the next
\* one is accepted before the answer is sent.
CONSTANTS
    ArraySize = 2
    Window = 2
    MaxSeqnum = 3
    MaxConn = 2
    Sizes <- MCSizes
SPECIFICATION Spec
INVARIANT AnsweredWhereAsked
CHECK_DEADLOCK FALSE
