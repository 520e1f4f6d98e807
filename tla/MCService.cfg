CONSTANTS
    h1 = h1
    h2 = h2
    Request = {h1, h2}
    Timed = {"probe"}
    MaxFaults = 1
    MaxLives = 1
SPECIFICATION MCSpec
INVARIANTS
    ServiceTypeOK
    AcceptedCallsFinish
PROPERTIES
    ReadyIsTrue
    ErrorsHaveCause
    ProbesEnd
    ShutdownEnds
    SsoStops
CHECK_DEADLOCK FALSE
