SPECIFICATION Spec
CONSTANTS
    Account = {"a", "b"}
    Asset = {"c", "x"}
    Core = "c"
    Supply <- MCSupply
    MaxOrders = 4
    MaxTime = 1
    MayBeBarred <- MCBarred
    CreateFee = 2
    UpdateFee = 2
    CancelFee = 1
    Hundred = 2
    maker_fee_discount_percent = 1
    market_fee_percent <- MCMarketFee
    NoAction = NoAction
    Keep = Keep
    Creations <- MCCreations
    Updates <- MCUpdates
CHECK_DEADLOCK FALSE
INVARIANTS
    BooksBalance
    LinksAreMutual
    BookIsSettled
    NothingDangles
