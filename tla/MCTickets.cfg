CONSTANTS
    Account = {"a", "b"}
    Supply <- MCSupply
    Amount = {1, 2}
    MaxTickets = 2
    MaxTime = 9
    Never = 99
    Steps = {1, 4}
    ChargingStep = 2
    CancelCharging = 1
    ForeverStep = 1
    SecondsToDowngrade <- MCSecondsToDowngrade
SPECIFICATION HSpec
INVARIANTS
    StatisticsMatchTickets
    ScheduleIsConsistent
PROPERTY UpdateProcessesOwnTickets
CHECK_DEADLOCK FALSE
