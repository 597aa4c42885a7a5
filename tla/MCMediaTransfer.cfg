SPECIFICATION FairSpec
CONSTANTS
    Caller = Caller
    Listener = Listener
    None = None
    MaxConns = 2
    MaxPackets = 4
    Buffer = 2
    Files <- MCFiles
    ChunkSize = 2
    MaxFileSize = 3
    MaxTransfers = 1
    x = x
    y = y
INVARIANTS
    GarbageOnlyAfterCut
    RefusalHasCause
PROPERTIES
    EveryPacketInOrder
    CallsReturn
    TransferCompletes
CHECK_DEADLOCK FALSE
