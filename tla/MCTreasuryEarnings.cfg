SPECIFICATION Spec
CONSTANTS
    YEARLY_INTERVAL = 8
    QUARTERLY_INTERVAL = 2
    MIN_PROTOCOL_FEE = 1
    TargetYieldBP = 1200
    TokenPrice = 400
    MaxSupply = 1
    RevenueShareBP = 5000
    Policies <- AnyPolicy
    MaturityDates = {4}
    Revenues = {8, 40}
    ExtraTopUps = {1}
    PartialAmounts = {}
    Buyers = {"partner", "investor"}
    Transfers <- BothWays
    Withdrawers = {"partner"}
    TradeAmounts = {1}
    MaxPeriod = 2
    MaxTime = 4
    MaxPaidIn = 465
INVARIANTS PreviewMatchesLiquidation
PROPERTY AutoReleaseAsPreviewed
CHECK_DEADLOCK FALSE
