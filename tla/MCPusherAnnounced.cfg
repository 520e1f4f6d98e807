CONSTANTS
    p1 = p1
    p2 = p2
    planA = planA
    Listener = {"subscription"}
    Partition = {p1}
    Plan = {planA}
    Price = {5, 7}
    MaxAttempts = 1
    MaxLate = 1
    BatchSize = 1
    Emitted = {"SubscriptionCharged", "SubscriptionCancelled"}
    MaxLogs = 2
    MaxChanges = 1
    MaxLives = 1
SPECIFICATION Spec
INVARIANT AnnouncedIsPublished
CHECK_DEADLOCK FALSE
