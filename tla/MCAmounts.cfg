CONSTANTS
    Grain = 4
    GrainsPerUnit = 6
    Limit = 2
    MaxWei = 79
    Wei <- MCWei
    MaxPayments = 2
SPECIFICATION Spec
INVARIANTS
    PricesAreRounded
    MorePaidIsMoreStored
    OnlyTooLargeRefused
CHECK_DEADLOCK FALSE
