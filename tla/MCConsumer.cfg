CONSTANTS
    p1 = p1
    p2 = p2
    Partition <- MCPartition
    Message <- MCMessage
    MaxPrice = 1
    MaxFaults = 2
    MaxProduced = 2
SPECIFICATION MCSpec
INVARIANTS
    TypeOK
    RowsAreCommittedMessages
    RowsInOffsetOrder
    OneMessagePerFault
PROPERTIES
    OffsetsNeverRewind
    EveryMessageFetched
