SPECIFICATION Spec
CONSTANTS
    YEARLY_INTERVAL = 8
    QUARTERLY_INTERVAL = 2
    MIN_PROTOCOL_FEE = 1
    TargetYieldBP = 1200
    TokenPrice = 200
    MaxSupply = 2
    RevenueShareBP = 5000
    Policies <- AnyPolicy
    MaturityDates = {4}
    Revenues = {8}
    ExtraTopUps = {0}
    PartialAmounts = {}
    Buyers = {"investor"}
    Transfers = {}
    Withdrawers = {}
    TradeAmounts = {}
    MaxPeriod = 1
    MaxTime = 4
    MaxPaidIn = 637
INVARIANT NoStrandedHolders
CHECK_DEADLOCK FALSE
