SPECIFICATION Spec
CONSTANTS
    Account = {"a", "b"}
    Asset = {"c", "x"}
    Core = "c"
    Supply <- MCSupply
    MaxOrders = 4
    MaxTime = 0
    MayBeBarred = {}
    CreateFee = 0
    UpdateFee = 0
    CancelFee = 0
    Hundred = 2
    maker_fee_discount_percent = 1
    market_fee_percent <- NoMarketFee
    NoAction = NoAction
    Keep = Keep
    Creations <- LargeTaker
    Updates = {}
CHECK_DEADLOCK FALSE
INVARIANT LinkedOrdersNeverMatch
