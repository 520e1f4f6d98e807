CONSTANTS
    p1 = p1
    planA = planA
    Listener = {"donate"}
    Partition = {p1}
    Plan = {planA}
    Price = {5, 9}
    MaxAttempts = 2
    MaxLate = 1
    BatchSize = 2
    Emitted = {"DonationProcessed"}
    MaxLogs = 2
    MaxChanges = 0
    MaxLives = 1
    MaxPrice = 5
    MaxFaults = 1
SPECIFICATION MCSpec
INVARIANTS
    VanishedAreFaults
    RowsInChainOrder
PROPERTIES
    FeedSpec
    OwedIsStored
CHECK_DEADLOCK FALSE
