SPECIFICATION Spec
CONSTANTS
    YEARLY_INTERVAL = 8
    QUARTERLY_INTERVAL = 2
    MIN_PROTOCOL_FEE = 1
    TargetYieldBP = 1200
    TokenPrice = 200
    MaxSupply = 2
    RevenueShareBP = 5000
    Policies <- AnyPolicy
    MaturityDates = {3}
    Revenues = {8}
    ExtraTopUps = {0}
    PartialAmounts = {}
    Buyers = {"partner", "investor"}
    Transfers = {}
    Withdrawers = {}
    TradeAmounts = {}
    MaxPeriod = 1
    MaxTime = 3
    MaxPaidIn = 637
INVARIANTS TypeOK Solvent PrincipalEscrowed PrincipalAccounted SettlementFunded
PROPERTIES ProceedsCovered SettlementMakesWhole SettlementFrozen
CHECK_DEADLOCK FALSE
