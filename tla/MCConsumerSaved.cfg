CONSTANTS
    p1 = p1
    p2 = p2
    Partition <- MCPartition
    Message <- MCMessage
    MaxPrice = 1
    MaxFaults = 1
    MaxProduced = 1
SPECIFICATION MCSpec
INVARIANT SavedMeansStored
