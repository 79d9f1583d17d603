\* The hosts of MCBtControl.cfg.
CONSTANTS
    short = short
    long = long
    scan = scan
    unknown = unknown
    None = None
    Commands <- MCCommands
    Unknown <- MCUnknown
    ScanCommands <- MCScanCommands
    Default = short
    EventSize <- MCEventSize
    DeviceSize <- MCDeviceSize
    MaxControl = 2
    Seqs <- MCSeqs
SPECIFICATION FairSpec
PROPERTY AnyHostCommandsServed
CHECK_DEADLOCK FALSE
