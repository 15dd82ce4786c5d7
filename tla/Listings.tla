------------------------------- MODULE Listings -------------------------------
(* The secondary market for one asset's revenue tokens: Marketplace.sol's     *)
(* listings over the locks, positions and redemption epochs that              *)
(* PositionManager.sol keeps and RoboshareTokens.sol consults on every move.  *)
(*                                                                           *)
(* Tokens are units; a position is the tokens that lie in it, as in           *)
(* EarningsManager.  Positions are queued in the order of acquiredAt, so the   *)
(* head of a holder's queue is its oldest tokens; among positions of the same  *)
(* block the choice is left open.  Locks and the supply of the redemption     *)
(* epoch are the counters of the code: that they agree with the listings and   *)
(* the positions is what the properties say.                                  *)
EXTENDS Integers, FiniteSets

CONSTANTS
    Token,              \* unit revenue tokens
    Holder,             \* accounts
    AssetOwner,         \* the partner that holds the asset NFT
    AuthorizedPartner,  \* the accounts PartnerManager authorises
    Nobody,             \* the holder of a token that is not in circulation
    TokenPrice,         \* principal that backs a token sold from the pool
    Prices,             \* prices per token a seller may ask
    FeePayers,          \* values of buyerPaysFee a seller may choose
    Durations,          \* durations and extensions a seller may ask
    MinHoldingPeriod,   \* TokenInfo.minHoldingPeriod
    TokenPenalty,       \* calculatePenalty(TokenPrice)
    MIN_PROTOCOL_FEE,   \* the smallest fee
    MaxListings,        \* bound: listings
    MaxEpoch,           \* bound: redemption epochs
    MaxBacked,          \* bound: backing, which burned tokens leave behind
    MaxTime             \* bound: the clock

ASSUME AccountAssumption ==
    /\ IsFiniteSet(Token)
    /\ AssetOwner \in AuthorizedPartner
    /\ AuthorizedPartner \subseteq Holder
    /\ Nobody \notin Holder
ASSUME MarketAssumption ==
    /\ TokenPrice \in Nat \ {0}
    /\ Prices \subseteq Nat \ {0}
    /\ FeePayers \subseteq BOOLEAN
    /\ Durations \subseteq Nat
    /\ MinHoldingPeriod \in Nat
    /\ TokenPenalty \in Nat /\ MIN_PROTOCOL_FEE \in Nat
    /\ MaxListings \in Nat /\ MaxEpoch \in Nat
    /\ MaxBacked \in Nat /\ MaxTime \in Nat

ListingId == 1 .. MaxListings
Status    == {"Active", "Settled"}   \* Settled: Retired or Expired, with a settlement

\* holder, acquiredAt and redemptionEpoch of a position.
Position   == [holder : Holder \cup {Nobody}, acquiredAt : Nat, epoch : Nat]
NoPosition == [holder |-> Nobody, acquiredAt |-> 0, epoch |-> 0]

\* Marketplace.Listing; an id that was not issued yet has no listing.
Listing == [seller : Holder \cup {Nobody}, amount : Nat, sold : Nat, price : Nat,
            expiresAt : Nat, buyerPaysFee : BOOLEAN, active : BOOLEAN]
NoListing == [seller |-> Nobody, amount |-> 0, sold |-> 0, price |-> 0,
              expiresAt |-> 0, buyerPaysFee |-> FALSE, active |-> FALSE]

VARIABLES
    now,            \* block.timestamp
    status,         \* the asset's status
    position,       \* position[t]: the position token t lies in
    locked,         \* PositionManager._lockedAmounts
    epoch,          \* currentRedemptionEpoch
    epochSupply,    \* currentRedemptionEpochSupply
    backed,         \* currentRedemptionBackedPrincipal
    listings,       \* Marketplace.listings
    issued          \* listings so far: _listingIdCounter - 1

epochVars == <<epoch, epochSupply, backed>>
market    == <<locked, listings, issued>>
vars      == <<now, status, position, epochVars, market>>

TypeOK ==
    /\ now \in Nat
    /\ status \in Status
    /\ position \in [Token -> Position]
    /\ locked \in [Holder -> Nat]
    /\ epoch \in Nat /\ epochSupply \in Nat /\ backed \in Nat
    /\ listings \in [ListingId -> Listing]
    /\ issued \in 0 .. MaxListings

Init ==
    /\ now = 0
    /\ status = "Active"
    /\ position = [t \in Token |-> NoPosition]
    /\ locked = [h \in Holder |-> 0]
    /\ epoch = 0 /\ epochSupply = 0 /\ backed = 0
    /\ listings = [l \in ListingId |-> NoListing]
    /\ issued = 0

-----------------------------------------------------------------------------
(* Positions.                                                                *)

Held(h)     == {t \in Token : position[t].holder = h}
Circulating == {t \in Token : position[t].holder # Nobody}
OfEpoch     == {t \in Circulating : position[t].epoch = epoch}

\* The tokens S leave a queue that holds the tokens Q: the oldest first.
Oldest(S, Q) ==
    /\ S # {} /\ S \subseteq Q
    /\ \A t \in S, u \in Q \ S : position[t].acquiredAt <= position[u].acquiredAt

\* Mutant: locks do not count.
WholeBalance(h) == Cardinality(Held(h))

\* Tokens that are in no listing: all that a transfer or a burn may take.
AvailableAmount(h) ==
    IF locked[h] >= Cardinality(Held(h)) THEN 0 ELSE Cardinality(Held(h)) - locked[h]

Unlocked(h, S) == Cardinality(S) <= AvailableAmount(h)

\* Mutant: the recipient's position joins the current epoch.
TransferIntoCurrentEpoch(S, to) ==
    position' = [t \in Token |->
        IF t \in S THEN [holder |-> to, acquiredAt |-> now, epoch |-> epoch]
        ELSE position[t]]

\* _transferPositionsFifo: the recipient's positions are new, their epoch is not.
TransferPositions(S, to) ==
    position' = [t \in Token |->
        IF t \in S THEN [holder |-> to, acquiredAt |-> now, epoch |-> position[t].epoch]
        ELSE position[t]]

\* Mutant: the whole amount leaves the supply of the epoch.
BurnAllFromEpoch(S) ==
    /\ position' = [t \in Token |-> IF t \in S THEN NoPosition ELSE position[t]]
    /\ epochSupply' = epochSupply - Cardinality(S)

\* _burnPositionsFifo: only tokens of the current epoch leave its supply.
BurnPositions(S) ==
    /\ position' = [t \in Token |-> IF t \in S THEN NoPosition ELSE position[t]]
    /\ epochSupply' = epochSupply - Cardinality(S \cap OfEpoch)

\* _rollRedemptionEpochIfExhausted, on what the step leaves.
RollEpochIfExhausted(supply, principal) ==
    \/ /\ supply > 0 /\ principal > 0
       /\ epochSupply' = supply /\ backed' = principal
       /\ UNCHANGED epoch
    \/ /\ ~(supply > 0 /\ principal > 0)
       /\ epoch < MaxEpoch
       /\ epoch' = epoch + 1
       /\ epochSupply' = 0 /\ backed' = 0

Monus(a, b) == IF a >= b THEN a - b ELSE 0

-----------------------------------------------------------------------------
(* The pool and the tokens.                                                  *)

Operational == status = "Active"

\* buyFromPrimaryPool: a fresh position of the current epoch, with its backing.
BuyFromPrimaryPool(h, S) ==
    /\ Operational
    /\ S # {} /\ S \subseteq Token \ Circulating
    /\ backed + Cardinality(S) * TokenPrice <= MaxBacked
    /\ position' = [t \in Token |->
           IF t \in S THEN [holder |-> h, acquiredAt |-> now, epoch |-> epoch] ELSE position[t]]
    /\ epochSupply' = epochSupply + Cardinality(S)
    /\ backed' = backed + Cardinality(S) * TokenPrice
    /\ UNCHANGED <<now, status, epoch, market>>

\* redeemPrimaryPool: the oldest tokens of the current epoch are burned for a
\* payout, whose amount Treasury decides.
RedeemPrimaryPool(h, S) ==
    /\ Operational
    /\ Oldest(S, Held(h) \cap OfEpoch)
    /\ Unlocked(h, S)
    /\ position' = [t \in Token |-> IF t \in S THEN NoPosition ELSE position[t]]
    /\ \E payout \in 1 .. backed :
          RollEpochIfExhausted(epochSupply - Cardinality(S), backed - payout)
    /\ UNCHANGED <<now, status, market>>

\* _recordPrincipalRelease: proceeds are released to the partner.
ReleasePrincipal ==
    /\ backed > 0
    /\ \E released \in 1 .. backed : RollEpochIfExhausted(epochSupply, backed - released)
    /\ UNCHANGED <<now, status, position, market>>

Transfer(from, to, S) ==
    /\ Oldest(S, Held(from))
    /\ Unlocked(from, S)
    /\ TransferPositions(S, to)
    /\ UNCHANGED <<now, status, epochVars, market>>

\* burnRevenueTokens: any authorised partner burns tokens of its own.
BurnRevenueTokens(h, S) ==
    /\ h \in AuthorizedPartner
    /\ Oldest(S, Held(h))
    /\ Unlocked(h, S)
    /\ BurnPositions(S)
    /\ UNCHANGED <<now, status, epoch, backed, market>>

-----------------------------------------------------------------------------
(* Listings.                                                                 *)

Young(t) == now < position[t].acquiredAt + MinHoldingPeriod

\* Mutant: the age of the first token decides for all.
PenaltyByHead(h, n) ==
    IF h = AssetOwner \/ \E t \in Held(h) : ~Young(t) THEN 0 ELSE TokenPenalty * n

\* getSalesPenalty: n tokens from the head of the queue, of which those still
\* in their holding period are penalised.
SalesPenalty(h, n) ==
    IF h = AssetOwner THEN 0
    ELSE TokenPenalty * Monus(n, Cardinality({t \in Held(h) : ~Young(t)}))

\* calculateProtocolFee, 2.5 percent.
ProtocolFee(gross) ==
    IF gross > 0 /\ (gross * 250) \div 10000 < MIN_PROTOCOL_FEE THEN MIN_PROTOCOL_FEE
    ELSE (gross * 250) \div 10000

\* _buildSecondaryPurchaseQuote.
GrossProceeds(l, n)   == n * listings[l].price
SaleFee(l, n)         == ProtocolFee(GrossProceeds(l, n))
SalePenalty(l, n)     == SalesPenalty(listings[l].seller, n)
SellerDeductions(l, n) ==
    SalePenalty(l, n) + IF listings[l].buyerPaysFee THEN 0 ELSE SaleFee(l, n)

IsListed(l)    == l <= issued
Expired(l)     == now > listings[l].expiresAt

\* Mutant: the listing ends, the lock stays.
CloseWithoutUnlock(l) ==
    /\ listings' = [listings EXCEPT ![l].active = FALSE, ![l].amount = 0]
    /\ UNCHANGED locked

\* unlockForListing and the listing that no longer holds the tokens.
CloseListing(l) ==
    /\ locked' = [locked EXCEPT ![listings[l].seller] = @ - listings[l].amount]
    /\ listings' = [listings EXCEPT ![l].active = FALSE, ![l].amount = 0]

\* Mutant: tokens of one listing may be listed again.
Owned(h, n) == n <= Cardinality(Held(h))

\* lockForListing: the balance covers this lock and those before.
Lockable(h, n) == locked[h] + n <= Cardinality(Held(h))

CreateListing(h, n, price, duration, buyerPaysFee) ==
    /\ Operational
    /\ n > 0 /\ Lockable(h, n)
    /\ issued < MaxListings
    /\ issued' = issued + 1
    /\ listings' = [listings EXCEPT ![issued + 1] =
           [seller |-> h, amount |-> n, sold |-> 0, price |-> price,
            expiresAt |-> now + duration, buyerPaysFee |-> buyerPaysFee, active |-> TRUE]]
    /\ locked' = [locked EXCEPT ![h] = @ + n]
    /\ UNCHANGED <<now, status, position, epochVars>>

\* buyFromSecondaryListing before the listing expires: the tokens leave the
\* listing, the lock and the head of the seller's queue.
BuyFromSecondaryListing(buyer, l, S) == LET n == Cardinality(S) IN
    /\ IsListed(l) /\ ~Expired(l)
    /\ Operational
    /\ buyer # listings[l].seller
    /\ listings[l].active
    /\ n <= listings[l].amount
    /\ SellerDeductions(l, n) <= GrossProceeds(l, n)
    /\ Oldest(S, Held(listings[l].seller))
    /\ listings' = [listings EXCEPT ![l].amount = @ - n,
                                    ![l].sold = @ + n,
                                    ![l].active = n < listings[l].amount]
    /\ locked' = [locked EXCEPT ![listings[l].seller] = @ - n]
    /\ TransferPositions(S, buyer)
    /\ UNCHANGED <<now, status, epochVars, issued>>

\* buyFromSecondaryListing or extendListing, by anybody, after it has expired.
ExpireListing(l) ==
    /\ IsListed(l) /\ Expired(l)
    /\ listings[l].active
    /\ CloseListing(l)
    /\ UNCHANGED <<now, status, position, epochVars, issued>>

\* Mutant: only while the market is open.
MayEndWhileOpen(caller, l) == Operational /\ (caller = listings[l].seller \/ Expired(l))

\* The seller at any time, anybody after it has expired, whatever state the
\* asset is in.
MayEnd(caller, l) == caller = listings[l].seller \/ Expired(l)

\* endListing.
EndListing(caller, l) ==
    /\ IsListed(l)
    /\ MayEnd(caller, l)
    /\ listings[l].active
    /\ CloseListing(l)
    /\ UNCHANGED <<now, status, position, epochVars, issued>>

ExtendListing(l, duration) ==
    /\ IsListed(l) /\ listings[l].active /\ ~Expired(l)
    /\ duration > 0
    /\ listings[l].expiresAt + duration <= MaxTime
    /\ listings' = [listings EXCEPT ![l].expiresAt = @ + duration]
    /\ UNCHANGED <<now, status, position, epochVars, locked, issued>>

-----------------------------------------------------------------------------
(* The end of the asset.                                                     *)

\* settleAsset and liquidateAsset, which configure a settlement.
SettleAsset ==
    /\ Operational
    /\ status' = "Settled"
    /\ UNCHANGED <<now, position, epochVars, market>>

\* retireAssetAndBurnTokens: the owner burns a supply that is its own.
RetireAssetAndBurnTokens ==
    /\ Operational
    /\ Circulating = Held(AssetOwner)
    /\ Unlocked(AssetOwner, Circulating)
    /\ status' = "Settled"
    /\ BurnPositions(Circulating)
    /\ UNCHANGED <<now, epoch, backed, market>>

\* claimSettlement: the whole balance is burned, which a lock would prevent.
ClaimSettlement(h) ==
    /\ status = "Settled"
    /\ Held(h) # {}
    /\ Unlocked(h, Held(h))
    /\ BurnPositions(Held(h))
    /\ UNCHANGED <<now, status, epoch, backed, market>>

\* The next block.
Tick ==
    /\ now < MaxTime
    /\ now' = now + 1
    /\ UNCHANGED <<status, position, epochVars, market>>

TokenStep == \E S \in SUBSET Token : \E h \in Holder :
    \/ BuyFromPrimaryPool(h, S)
    \/ RedeemPrimaryPool(h, S)
    \/ BurnRevenueTokens(h, S)
    \/ \E to \in Holder : Transfer(h, to, S)

MarketStep == \E h \in Holder :
    \/ \E n \in 1 .. Cardinality(Token), price \in Prices, duration \in Durations,
          buyerPaysFee \in FeePayers : CreateListing(h, n, price, duration, buyerPaysFee)
    \/ \E l \in ListingId :
          \/ \E S \in SUBSET Token : BuyFromSecondaryListing(h, l, S)
          \/ EndListing(h, l)

ListingStep == \E l \in ListingId :
    \/ ExpireListing(l)
    \/ \E duration \in Durations : ExtendListing(l, duration)

AssetStep ==
    \/ ReleasePrincipal
    \/ SettleAsset
    \/ RetireAssetAndBurnTokens
    \/ \E h \in Holder : ClaimSettlement(h)

Next == TokenStep \/ MarketStep \/ ListingStep \/ AssetStep \/ Tick

Spec == Init /\ [][Next]_vars

\* A holder that wants its settlement keeps asking for it.
Persistence == \A h \in Holder :
    /\ \A l \in ListingId : WF_vars(EndListing(h, l))
    /\ WF_vars(ClaimSettlement(h))

LiveSpec == Spec /\ Persistence

-----------------------------------------------------------------------------
(* Properties.                                                               *)

\* The tokens that the active listings of h hold, one by one.
Offered(h) == {unit \in ListingId \X (1 .. Cardinality(Token)) :
                  /\ listings[unit[1]].active /\ listings[unit[1]].seller = h
                  /\ unit[2] <= listings[unit[1]].amount}

\* A holder's lock is what its active listings hold, after any purchases,
\* expiries, endings and extensions ("locked amount != active listing sum").
LocksMatchListings == \A h \in Holder : locked[h] = Cardinality(Offered(h))

\* Nobody lists more than it holds, whatever it sells, transfers, redeems or
\* burns meanwhile ("locked amount exceeds balance").
LockedIsHeld == \A h \in Holder : locked[h] <= Cardinality(Held(h))

\* The supply that redemptions are divided over is the tokens that may redeem
\* ("eligible balances do not match epoch supply").
EpochSupplyExact == epochSupply = Cardinality(OfEpoch)

\* A token that may redeem is backed by principal, and no token is of an epoch
\* to come: once its epoch is exhausted it never redeems again.
EpochBacked ==
    /\ epochSupply > 0 => backed > 0
    /\ \A t \in Circulating : position[t].epoch <= epoch

\* Redemptions are divided over exactly the tokens that may redeem, which are
\* backed: of both, sales, transfers, burns and new epochs leave nothing behind.
EpochIsExact == EpochSupplyExact /\ EpochBacked

\* The penalty that a sale quotes is for the very tokens that leave the seller.
SaleOf(l) == listings'[l].sold - listings[l].sold
PenaltyFitsTokensSold == [][\A l \in ListingId : SaleOf(l) > 0 =>
    LET seller == listings[l].seller
        gone   == {t \in Held(seller) : position'[t].holder # seller}
    IN  SalePenalty(l, SaleOf(l)) =
            IF seller = AssetOwner THEN 0 ELSE TokenPenalty * Cardinality({t \in gone : Young(t)})]_vars

OpenListings == {l \in ListingId : listings[l].active}

\* All that ever stands between a holder and its settlement is a listing of its
\* own, which it may end at once: no purchase, expiry or extension leaves a lock
\* behind that nobody can lift.
SettlementInReach == status = "Settled" => \A h \in Holder : Held(h) # {} =>
    \/ Unlocked(h, Held(h))
    \/ \E l \in OpenListings : listings[l].seller = h /\ IsListed(l) /\ MayEnd(h, l)

\* After the settlement nobody undoes what a holder has done on its way to it: no
\* token returns into circulation and no listing opens, while an ending closes
\* one and a claim takes all tokens of the claimant out.
EndOnlyAdvances == [][status = "Settled" =>
    /\ status' = "Settled"
    /\ Circulating' \subseteq Circulating /\ OpenListings' \subseteq OpenListings
    /\ \A h \in Holder :
          /\ ClaimSettlement(h) => Circulating' = Circulating \ Held(h)
          /\ \A l \in ListingId : EndListing(h, l) => OpenListings' = OpenListings \ {l}]_vars

\* No listing, expired or not, keeps a holder from its settlement.
EverybodyCanClaim == \A h \in Holder : status = "Settled" ~> Held(h) = {}

\* The market implements the abstract consignment: free tokens are those not
\* locked, and a lot is a listing.
AsLot(l) == [seller |-> listings[l].seller, left |-> listings[l].amount,
             sold |-> listings[l].sold, open |-> listings[l].active]
Lots == INSTANCE Consignment WITH
    Lot  <- ListingId,
    free <- [h \in Holder |-> Cardinality(Held(h)) - locked[h]],
    lots <- [l \in ListingId |-> AsLot(l)]

ImplementsConsignment == Lots!Spec
=============================================================================
