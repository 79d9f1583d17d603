\* Two connections, so that a grant and a frame can outlive the first of them,
\* and a ring of two slots, so that it runs full and round.  The process may
\* end, and the bounds stop the clients: CHECK_DEADLOCK is off.
CONSTANTS
    ArraySize = 2
    Window = 2
    MaxSeqnum = 3
    MaxConn = 2
    Sizes <- MCSizes
SPECIFICATION Spec
INVARIANTS TypeOK GrantsOfThisConn AnswersInOrder OnlyFirstIsStale GrantsUsedIfAsked
PROPERTY ImplementsQueue
CHECK_DEADLOCK FALSE
