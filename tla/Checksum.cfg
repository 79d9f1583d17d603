\* Bytes of five values, words of 25.  A total length below the header's gives
\* the largest length there is.  Every frame's run ends: CHECK_DEADLOCK is off.
CONSTANTS
    Byte = 5
    UDP = 3
    TCP = 1
    Protocols = {1, 3, 4}
    TotalLengths = {2, 3, 6, 9}
    HeaderLengths = {3, 4}
SPECIFICATION Spec
INVARIANTS TypeOK NoOverflow Accepted
PROPERTY Finishes
CHECK_DEADLOCK FALSE
