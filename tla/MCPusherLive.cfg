CONSTANTS
    p1 = p1
    p2 = p2
    planA = planA
    Listener = {"donate", "subscription"}
    Partition = {p1}
    Plan = {planA}
    Price = {1}
    MaxAttempts = 2
    MaxLate = 0
    BatchSize = 2
    Emitted = {"DonationProcessed", "SubscriptionRetryScheduled", "Unhandled"}
    MaxLogs = 2
    MaxChanges = 0
    MaxLives = 1
SPECIFICATION FairSpec
INVARIANTS
    NothingLostSilently
    CarefulAnnouncements
PROPERTIES
    ShutdownCompletes
    Resubscribes
    OwedIsPublished
CHECK_DEADLOCK FALSE
