CONSTANTS
    s1 = s1
    s2 = s2
    Slot <- MCSlot
    Call <- MCCall
    Text <- MCText
    NoText = ""
    Hex <- MCHex
    TooLong = {"long"}
    Ask <- MCAsk
    Transaction <- MCTransaction
    OldAccounts <- MCOldAccounts
    OldTokens <- MCOldTokens
    AccessTTL = 0
    RefreshTTL = 1
    MaxTime = 1
    MaxFaults = 1
    Route = {"register", "login", "refresh", "logout", "list", "get"}
    Blank = {0}
    Retries = 0
    MaxRequests = 3
SPECIFICATION Spec
INVARIANTS
    AuthTypeOK
    GatewayTypeOK
    NoRefreshAfterLogout
    AnswersAreTrue
    RegisteredForGood
    TokensNameAccounts
    RefusalsHaveCause
    RowsOfTheAccount
SYMMETRY SlotSymmetry
CHECK_DEADLOCK FALSE
