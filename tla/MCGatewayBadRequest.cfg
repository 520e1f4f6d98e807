CONSTANTS
    s1 = s1
    s2 = s2
    Slot <- MCSlot
    Call <- MCCall
    Text <- MCText
    NoText = ""
    Hex <- MCHex
    TooLong = {"long"}
    Ask <- MCAsk
    Transaction <- MCTransaction
    OldAccounts <- MCOldAccounts
    OldTokens <- MCOldTokens
    AccessTTL = 0
    RefreshTTL = 1
    MaxTime = 1
    MaxFaults = 1
    Route = {"register", "login", "refresh", "logout", "list", "get"}
    Blank = {0}
    Retries = 1
    MaxRequests = 1
SPECIFICATION Spec
INVARIANT BadRequestMeansBadToken
CHECK_DEADLOCK FALSE
