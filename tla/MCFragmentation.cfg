SPECIFICATION FragSpec
CONSTANTS
    two = two
    long = long
    zero = zero
    one = one
    empty = empty
    NoData = NoData
    Packets = {two, long, zero, one, empty}
    Pieces <- MCPieces
    MaxFrags = 3
    Byte = 4
    MaxRepeats = 2
INVARIANTS
    DeliveredIsSent
PROPERTY
    EventuallyDelivered
CHECK_DEADLOCK FALSE
