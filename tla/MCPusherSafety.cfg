CONSTANTS
    p1 = p1
    p2 = p2
    planA = planA
    Listener = {"subscription"}
    Partition = {p1, p2}
    Plan = {planA}
    Price = {5, 7}
    MaxAttempts = 2
    MaxLate = 1
    BatchSize = 2
    Emitted = {"SubscriptionCharged"}
    MaxLogs = 2
    MaxChanges = 1
    MaxLives = 2
SPECIFICATION Spec
SYMMETRY Symmetry
INVARIANTS
    TypeOK
    TopicIsGenuine
    CopiesBounded
    FirstCopiesInChainOrder
CHECK_DEADLOCK FALSE
