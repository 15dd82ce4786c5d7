\* Two tokens, a partner, an investor and an investor that is a partner of
\* other assets.
SPECIFICATION Spec
CONSTANTS
    t1 = t1
    t2 = t2
    partner = partner
    alice = alice
    bob = bob
    Token = {t1, t2}
    Holder = {partner, alice, bob}
    AssetOwner = partner
    AuthorizedPartner = {partner, bob}
    Nobody = Nobody
    SameBlockPurchases = FALSE
    MaxPeriod = 2
    MaxTime = 1
INVARIANTS TypeOK DueOnce 
PROPERTIES OnlyAutoClaimForfeits 
SYMMETRY Interchangeable
CHECK_DEADLOCK FALSE
