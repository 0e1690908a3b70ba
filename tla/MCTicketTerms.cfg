CONSTANTS
    Account = {"a"}
    Supply <- MCSupply
    Amount = {2}
    MaxTickets = 1
    MaxTime = 18
    Never = 99
    Steps = {1, 5}
    ChargingStep = 2
    CancelCharging = 1
    ForeverStep = 2
    SecondsToDowngrade <- MCSecondsToDowngrade
SPECIFICATION TSpec
PROPERTIES
    LockedForever
    TermsAreServed
    ProcessingEnds
CHECK_DEADLOCK FALSE
