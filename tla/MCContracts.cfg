CONSTANTS
    Account = {"l", "b"}
    Asset = {"x", "y"}
    Supply <- FewTokens
    Amount = {1, 2, 3}
    MaxTime = 2
    MayBeBarred <- LenderBarred
    FeeRateDenom = 4
    MaxHtlcs = 1
    ClaimPeriod = {0, 1}
    MaxTimeout = 2
    MaxFunds = 1
    MaxFundBalance = 2
    FundRate = {1}
    MaxOffers = 1
    MaxDeals = 2
    Terms <- TwoKinds
    MaxOfferSecs = 9
SPECIFICATION Spec
INVARIANTS
    SupplyIsConserved
    OffersMatchDeals
    AutoRepaymentIsCovered
    SolventBorrowersKeepCollateral
PROPERTIES
    DealsStaySecured
CONSTRAINT FewContracts
CHECK_DEADLOCK FALSE
