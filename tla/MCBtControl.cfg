\* A host that sends commands at any time and closes or dies at any time, and a
\* careful one.  The process may end, and a host that has met a fault stops:
\* CHECK_DEADLOCK is off.
CONSTANTS
    short = short
    long = long
    scan = scan
    unknown = unknown
    None = None
    Commands <- MCCommands
    Unknown <- MCUnknown
    ScanCommands <- MCScanCommands
    Default = short
    EventSize <- MCEventSize
    DeviceSize <- MCDeviceSize
    MaxControl = 2
    Seqs <- MCSeqs
SPECIFICATION FairSpec
INVARIANTS TypeOK Rendezvous PiecesInside ExpectedOnly WholeEvents
PROPERTIES CommandsServed ScansEnd ImplementsController
CHECK_DEADLOCK FALSE
