\* The client keeps as many transfers submitted as the ring has slots, so that
\* the ring runs full, empty and round.
CONSTANTS
    ArraySize = 3
    Window = 3
    Seqnums <- MCSeqnums
    Sizes <- MCSizes
SPECIFICATION Spec
INVARIANTS TypeOK Shape SizesMatch
PROPERTY ImplementsQueue
