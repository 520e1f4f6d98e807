CONSTANTS
    s1 = s1
    s2 = s2
    Slot <- MCOneSlot
    Call <- MCCall
    Text <- MCText
    NoText = ""
    Hex <- MCHex
    TooLong = {"long"}
    Ask <- MCAccounts
    Transaction <- MCTransaction
    OldAccounts <- MCOldAccounts
    OldTokens <- MCLastTokens
    AccessTTL = 0
    RefreshTTL = 1
    MaxTime = 1
    MaxFaults = 1
    Route = {"register", "login", "refresh", "logout", "list", "get"}
    Blank = {}
    Retries = 2
    MaxRequests = 3
SPECIFICATION Spec
INVARIANTS
    AnswersAreTrue
PROPERTIES
    EveryRequestAnswered
    AuthSpec
CHECK_DEADLOCK FALSE
