\* Every program, in C and in Python, and the requests of its driver.  The
\* number of connections is bounded and the process may end: CHECK_DEADLOCK is
\* off.
CONSTANTS
    StringSize = 4
    Asks <- MCAsks
    Limit = 2
    Pieces = FALSE
    MaxSent = 4
    MaxConn = 2
SPECIFICATION AllSpec
INVARIANTS AllTypeOK Aligned NeverRefused InOrder AnswersFit EchoOnce KeyReleased  OneImport
PROPERTIES ControlServed BackToAccept ImplementsSession
CHECK_DEADLOCK FALSE
