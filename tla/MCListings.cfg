SPECIFICATION LiveSpec
CONSTANTS
    t1 = t1
    t2 = t2
    partner = partner
    alice = alice
    Token = {t1, t2}
    Holder = {partner, alice}
    AssetOwner = partner
    AuthorizedPartner = {partner}
    Nobody = Nobody
    TokenPrice = 1
    Prices = {2}
    FeePayers = {FALSE}
    Durations = {0, 1}
    MinHoldingPeriod = 1
    TokenPenalty = 2
    MIN_PROTOCOL_FEE = 1
    MaxListings = 2
    MaxEpoch = 1
    MaxBacked = 3
    MaxTime = 1
INVARIANTS TypeOK LocksMatchListings LockedIsHeld EpochIsExact
PROPERTIES PenaltyFitsTokensSold EverybodyCanClaim ImplementsConsignment
CHECK_DEADLOCK FALSE
