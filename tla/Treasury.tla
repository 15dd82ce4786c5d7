------------------------------ MODULE Treasury ------------------------------
(* One asset through protocols/evm/contracts/Treasury.sol and the calls that *)
(* reach it from Marketplace, RegistryRouter, VehicleRegistry and            *)
(* EarningsManager.  A transaction of the chain is atomic, so every entry    *)
(* point is one action; what interleaves are the transactions of the         *)
(* partner, the investors, the fee recipient and anybody who liquidates,     *)
(* with the clock.                                                           *)
(*                                                                           *)
(* Accounts are grouped in two classes, "partner" (the owner of the asset    *)
(* NFT) and "investor" (everybody else); a group's tokens are counted per    *)
(* redemption epoch, current or former.  Which of a holder's positions a     *)
(* FIFO walk reaches first is a free choice here: module PositionManager     *)
(* keeps the queues.  EarningsManager is seen through the one call it makes, *)
(* creditEarningsWithdrawal, and is held to its side of the bargain: it      *)
(* credits no more than it recorded as distributed (earningsOwed).           *)
EXTENDS Collateral, FiniteSets

CONSTANTS TokenPrice,       \* USDC per revenue token
          MaxSupply,        \* primary-pool cap on the token supply
          RevenueShareBP,   \* the investors' largest share of revenue
          Policies,         \* policies a partner may choose, a subset of Policy
          MaturityDates,    \* maturity dates a partner may choose
          Revenues,         \* revenues a partner may report
          ExtraTopUps,      \* what a partner may add to a required top-up
          PartialAmounts,   \* partial credits and withdrawals of the investors
          Buyers,           \* the classes that buy from the primary pool
          Transfers,        \* direct transfers between classes: <<from, to>>
          Withdrawers,      \* the accounts that withdraw: partner, holders, fee
          TradeAmounts,     \* tokens a secondary purchase may take
          MaxPeriod,        \* bound: earnings distributions
          MaxTime,          \* bound: the clock stops here
          MaxPaidIn         \* bound: USDC paid in, over all calls

ASSUME TreasuryAssumption ==
    /\ TokenPrice \in Nat \ {0}
    /\ MaxSupply \in Nat \ {0}
    /\ RevenueShareBP \in 0 .. BP_PRECISION
    /\ Policies \subseteq Policy
    /\ MaturityDates \subseteq Nat
    /\ Revenues \subseteq Nat
    /\ ExtraTopUps \subseteq Nat
    /\ PartialAmounts \subseteq Nat
    /\ Buyers \subseteq {"partner", "investor"}
    /\ Transfers \subseteq {"partner", "investor"} \X {"partner", "investor"}
    /\ Withdrawers \subseteq {"partner", "holders", "fee"}
    /\ TradeAmounts \subseteq Nat
    /\ MaxPeriod \in Nat
    /\ MaxTime \in Nat
    /\ MaxPaidIn \in Nat

VARIABLES
    now,           \* block.timestamp; 0 is never a timestamp
    status,        \* AssetLib.AssetStatus
    pool,          \* Marketplace.primaryPools
    policy,        \* TokenInfo.immediateProceeds and protectionEnabled
    maturityDate,  \* TokenInfo.maturityDate, 0 before the pool exists
    coll,          \* Treasury.assetCollateral
    cur, old,      \* tokens per class in the current and in former epochs
    backed,        \* TokenInfo.currentRedemptionBackedPrincipal
    settlement,    \* PositionManager._settlementStates
    earnings,      \* the part of EarningsInfo the treasury reads
    earningsOwed,  \* distributed per-token earnings not yet credited
    pending,       \* Treasury.pendingWithdrawals
    totalCollateralDeposited,
    cash,          \* usdc.balanceOf(treasury)
    paidIn         \* all the USDC the treasury ever received (for MaxPaidIn)

assetVars  == <<status, pool, policy, maturityDate>>
tokenVars  == <<cur, old, backed>>
cashVars   == <<cash, paidIn>>
moneyVars  == <<pending, totalCollateralDeposited, cashVars>>
vars == <<now, assetVars, coll, tokenVars, settlement, earnings, earningsOwed, moneyVars>>

Class       == {"partner", "investor"}
Status      == {"Pending", "Active", "Earning", "Expired", "Retired"}
Terminal    == {"Expired", "Retired"}
Operational == {"Active", "Earning"}

Tokens(k)       == cur[k] + old[k]
Supply          == Tokens("partner") + Tokens("investor")
EpochSupply     == cur["partner"] + cur["investor"]
Matured         == now >= maturityDate
MarketOpen      == pool = "open" /\ status \in Operational
PayoutAccount(k) == IF k = "partner" THEN "partner" ELSE "holders"

\* usdc.safeTransferFrom into the treasury and safeTransfer out of it.
PayIn(amount) ==
    /\ paidIn + amount <= MaxPaidIn
    /\ paidIn' = paidIn + amount
    /\ cash' = cash + amount

PayOut(amount) ==
    /\ amount <= cash
    /\ cash' = cash - amount
    /\ UNCHANGED paidIn

\* A class's share of an amount it withdraws or is credited: all or a part.
PartOf(amount) == {a \in PartialAmounts \cup {amount} : 0 < a /\ a <= amount}

TypeOK ==
    /\ now \in Nat \ {0}
    /\ status \in Status
    /\ pool \in {"none", "open", "paused", "closed"}
    /\ policy \in Policy
    /\ maturityDate \in Nat
    /\ coll \in CollateralInfo
    /\ coll.lockedAt <= now /\ coll.lastEventTimestamp <= now
    /\ cur \in [Class -> Nat] /\ old \in [Class -> Nat]
    /\ backed \in Nat
    /\ settlement \in [isConfigured : BOOLEAN, settlementAmount : Nat,
                       settlementPerToken : Nat, claimedPayout : Nat]
    /\ earnings \in [currentPeriod : Nat, lastEventTimestamp : Nat, unprocessed : Nat,
                     hasUnprocessed : BOOLEAN]
    /\ earnings.lastEventTimestamp <= now
    /\ earningsOwed \in Nat
    /\ pending \in [partner : Nat, holders : Nat, fee : Nat]
    /\ totalCollateralDeposited \in Nat
    /\ cash \in Nat /\ paidIn \in Nat

Init ==
    /\ now = 1
    /\ status = "Pending"
    /\ pool = "none"
    /\ policy = [immediateProceeds |-> FALSE, protectionEnabled |-> FALSE]
    /\ maturityDate = 0
    /\ coll = EmptyCollateral
    /\ cur = [k \in Class |-> 0] /\ old = [k \in Class |-> 0]
    /\ backed = 0
    /\ settlement = [isConfigured |-> FALSE, settlementAmount |-> 0,
                     settlementPerToken |-> 0, claimedPayout |-> 0]
    /\ earnings = [currentPeriod |-> 0, lastEventTimestamp |-> 0,
                   unprocessed |-> 0, hasUnprocessed |-> FALSE]
    /\ earningsOwed = 0
    /\ pending = [partner |-> 0, holders |-> 0, fee |-> 0]
    /\ totalCollateralDeposited = 0
    /\ cash = 0 /\ paidIn = 0

-----------------------------------------------------------------------------
(* Steps shared by several entry points.                                     *)

\* _maybePromoteToEarning, on the collateral after the step.
PromotedStatus(c) ==
    IF status = "Active" /\ HasSufficientBuffers(c, policy) THEN "Earning" ELSE status

\* _rollRedemptionEpochIfExhausted, on the tokens and backing after the step.
RollEpochIfExhausted(newCur, newBacked) ==
    IF newCur["partner"] + newCur["investor"] > 0 /\ newBacked > 0
    THEN /\ cur' = newCur
         /\ backed' = newBacked
         /\ UNCHANGED old
    ELSE /\ cur' = [k \in Class |-> 0]
         /\ backed' = 0
         /\ old' = [k \in Class |-> old[k] + newCur[k]]

\* closePrimaryPool in a try/catch: an absent or closed pool is left alone.
ClosedPool == IF pool = "none" THEN "none" ELSE "closed"

\* _tryReleaseCollateral when the preview is eligible, with `realized` the
\* unprocessed earnings up to `period` and `paid` what this call already
\* credited as fee.
ReleaseEligible == coll.isLocked /\ earnings.hasUnprocessed

ApplyRelease(period, realized, paid) ==
    LET c     == AfterEarnings(coll, policy, realized, now - coll.lastEventTimestamp)
        gross == GrossRelease(c, policy, now)
        fee   == ReleaseFee(gross)
    IN  /\ coll' = [c EXCEPT !.baseCollateral = @ - gross,
                             !.releasedBaseCollateral = @ + gross,
                             !.lastEventTimestamp = now]
        /\ totalCollateralDeposited' = totalCollateralDeposited - gross
        /\ pending' = [pending EXCEPT !.partner = @ + (gross - fee),
                                      !.fee = @ + paid + fee]
        /\ earnings' = [currentPeriod |-> period, lastEventTimestamp |-> now,
                        unprocessed |-> 0, hasUnprocessed |-> FALSE]

\* _applyMissedEarningsShortfall: the window since the last earnings event
\* counts as a period without earnings.
MissedWindow == coll.isLocked /\ earnings.lastEventTimestamp > 0

\* Mutant: the window is measured from the last collateral event.
MissedSinceCollateralEvent ==
    IF MissedWindow /\ now > coll.lastEventTimestamp
    THEN [AfterEarnings(coll, policy, 0, now - coll.lastEventTimestamp)
            EXCEPT !.lastEventTimestamp = now]
    ELSE coll

AfterMissedEarnings ==
    IF MissedWindow /\ now > earnings.lastEventTimestamp
    THEN [AfterEarnings(coll, policy, 0, now - earnings.lastEventTimestamp)
            EXCEPT !.lastEventTimestamp = now]
    ELSE coll

\* _clearCollateral's effect on the global total, and what it reports as freed.
ClearedTotal(c)  == Monus(totalCollateralDeposited, TotalCollateral(c))
ReleasedTotal(c) == Lesser(totalCollateralDeposited, TotalCollateral(c))

\* Mutant: only the tokens of the current redemption epoch share the pool.
PerEpochToken(amount) == IF EpochSupply > 0 THEN amount \div EpochSupply ELSE 0

PerToken(amount) == IF Supply > 0 THEN amount \div Supply ELSE 0

\* The end of initiateSettlement and executeLiquidation: `c` is cleared and
\* `amount` becomes the pool that Supply tokens may claim.
Settle(c, amount, newStatus) ==
    /\ coll' = Cleared(c)
    /\ totalCollateralDeposited' = ClearedTotal(c)
    /\ settlement' = [isConfigured |-> TRUE, settlementAmount |-> amount,
                      settlementPerToken |-> PerToken(amount), claimedPayout |-> 0]
    /\ earnings' = IF MissedWindow /\ now > earnings.lastEventTimestamp
                   THEN [earnings EXCEPT !.lastEventTimestamp = now] ELSE earnings
    /\ status' = newStatus
    /\ pool' = ClosedPool
    /\ UNCHANGED <<now, policy, maturityDate, tokenVars, earningsOwed>>
-----------------------------------------------------------------------------
(* The primary pool: creation, pausing, purchases and redemptions.           *)

\* RegistryRouter._createRevenueTokenPoolFor: token info, Active, pool open.
\* An expired asset cannot return to Active, so only a pending one has a pool.
CreatePool(p, maturity) ==
    /\ status = "Pending" /\ pool = "none"
    /\ status' = "Active"
    /\ pool' = "open"
    /\ policy' = p
    /\ maturityDate' = maturity
    /\ UNCHANGED <<now, coll, tokenVars, settlement, earnings, earningsOwed, moneyVars>>

SetPoolState(from, to) ==
    /\ pool \in from
    /\ pool' = to
    /\ UNCHANGED <<now, status, policy, maturityDate, coll, tokenVars, settlement,
                   earnings, earningsOwed, moneyVars>>

PausePool   == SetPoolState({"open"}, "paused")
UnpausePool == SetPoolState({"paused"}, "open")
ClosePool   == SetPoolState({"open", "paused"}, "closed")

\* buyFromPrimaryPool: payment, processPrimaryPoolPurchaseFor, promotion, mint.
BuyFromPrimaryPool(k, amount) ==
    LET principal == amount * TokenPrice
        fee       == CalculateProtocolFee(principal)
        c == [coll EXCEPT !.baseCollateral = @ + principal,
                          !.unredeemedBasePrincipal = @ + principal,
                          !.lastEventTimestamp = now]
    IN  /\ MarketOpen
        /\ Supply + amount <= MaxSupply
        /\ PayIn(principal + fee)
        /\ coll' = c
        /\ totalCollateralDeposited' = totalCollateralDeposited + principal
        /\ pending' = [pending EXCEPT !.fee = @ + fee]
        /\ status' = PromotedStatus(c)
        /\ cur' = [cur EXCEPT ![k] = @ + amount]
        /\ backed' = backed + principal
        /\ UNCHANGED <<now, pool, policy, maturityDate, old, settlement, earnings,
                       earningsOwed>>

\* redeemPrimaryPool: a share of the escrowed base per current-epoch token.
\* The earnings snapshot moves no money.
RedemptionPayout(amount) == (amount * coll.baseCollateral) \div EpochSupply

RedeemPrimaryPool(k, amount) ==
    /\ MarketOpen
    /\ amount <= cur[k]
    /\ LET payout == RedemptionPayout(amount)
           c == [coll EXCEPT !.baseCollateral = @ - payout,
                             !.unredeemedBasePrincipal = Monus(@, amount * TokenPrice)]
       IN  /\ payout > 0 /\ payout <= coll.baseCollateral
           /\ PayOut(payout)
           /\ coll' = [c EXCEPT !.releasedBaseCollateral = ReconciledReleasedBase(c)]
           /\ totalCollateralDeposited' = Monus(totalCollateralDeposited, payout)
           /\ RollEpochIfExhausted([cur EXCEPT ![k] = @ - amount], Monus(backed, payout))
    /\ UNCHANGED <<now, assetVars, settlement, earnings, earningsOwed, pending>>

-----------------------------------------------------------------------------
(* Buffers, proceeds, earnings and releases.                                 *)

\* The buffers a partner still owes for the exposure it wants covered.
DueEarningsBuffer ==
    IF policy.protectionEnabled
    THEN Monus(RequiredEarningsBuffer(ProtectedExposure(coll, policy)), coll.earningsBuffer)
    ELSE 0

DueProtocolBuffer ==
    Monus(RequiredProtocolBuffer(ProtectedExposure(coll, policy)), coll.protocolBuffer)

\* _fundCurrentBuffersFor: nothing due leaves the collateral unlocked; an
\* all-zero CollateralInfo is initialised afresh, otherwise lockedAt is kept.
FundedCollateral(dueEarnings, dueProtocol) ==
    CASE dueEarnings + dueProtocol = 0 -> coll
      [] dueEarnings + dueProtocol > 0 /\ TotalCollateral(coll) = 0 ->
            [EmptyCollateral EXCEPT !.earningsBuffer = dueEarnings,
                                    !.protocolBuffer = dueProtocol,
                                    !.isLocked = TRUE, !.lockedAt = now,
                                    !.lastEventTimestamp = now]
      [] OTHER ->
            [coll EXCEPT !.earningsBuffer = @ + dueEarnings,
                         !.protocolBuffer = @ + dueProtocol,
                         !.isLocked = TRUE,
                         !.lockedAt = IF @ = 0 THEN now ELSE @,
                         !.lastEventTimestamp = now]

\* _releaseEnabledPartnerProceeds: the covered base an immediate-proceeds pool
\* hands to the partner.
Proceeds(c) ==
    IF policy.immediateProceeds THEN CalculateCoverableBaseCollateral(c, policy) ELSE 0

InitializedClock(due) ==
    IF due > 0 /\ earnings.lastEventTimestamp = 0
    THEN [earnings EXCEPT !.lastEventTimestamp = now] ELSE earnings

\* enableProceeds once it is known what is due and what is released.
Enable(dueEarnings, dueProtocol, released) ==
    LET due == dueEarnings + dueProtocol
        c   == FundedCollateral(dueEarnings, dueProtocol)
    IN  /\ PayIn(due)
        /\ coll' = [c EXCEPT !.baseCollateral = @ - released,
                             !.releasedProtectedBase = @ + released]
        /\ totalCollateralDeposited' = totalCollateralDeposited + due - released
        /\ pending' = [pending EXCEPT !.partner = @ + released]
        /\ status' = PromotedStatus(c)
        /\ earnings' = InitializedClock(due)
        /\ IF released > 0 /\ backed > 0
           THEN RollEpochIfExhausted(cur, Monus(backed, released))
           ELSE UNCHANGED tokenVars
        /\ UNCHANGED <<now, pool, policy, maturityDate, settlement, earningsOwed>>

\* Mutant: each call looks at the escrowed base alone, as if nothing had been
\* handed out before.
EnableEscrowedOnly ==
    /\ coll.baseCollateral > 0
    /\ Enable(IF policy.protectionEnabled
              THEN Monus(RequiredEarningsBuffer(coll.baseCollateral), coll.earningsBuffer)
              ELSE 0,
              Monus(RequiredProtocolBuffer(coll.baseCollateral), coll.protocolBuffer),
              IF policy.immediateProceeds THEN coll.baseCollateral ELSE 0)

EnableProceeds ==
    /\ ProtectedExposure(coll, policy) > 0
    /\ Enable(DueEarningsBuffer, DueProtocolBuffer,
              Proceeds(FundedCollateral(DueEarningsBuffer, DueProtocolBuffer)))

\* distributeEarnings with its collateral effects.  The partner's own tokens
\* earn nothing; the per-token division leaves its remainder in the treasury.
InvestorAmount(revenue) ==
    Lesser((revenue * RevenueShareBP) \div BP_PRECISION,
           (revenue * Tokens("investor")) \div MaxSupply)

NetEarnings(revenue) == InvestorAmount(revenue) - CalculateProtocolFee(InvestorAmount(revenue))

\* Mutant: the release forgets the earnings recorded before this period.
LatestEarnings(net) == net

UnprocessedEarnings(net) == earnings.unprocessed + net

DistributeEarnings(revenue, tryAutoRelease) ==
    LET amount == InvestorAmount(revenue)
        fee    == CalculateProtocolFee(amount)
        net    == NetEarnings(revenue)
    IN  /\ status = "Earning"
        /\ earnings.currentPeriod < MaxPeriod
        /\ Tokens("investor") > 0
        /\ amount >= MIN_PROTOCOL_FEE
        /\ PayIn(amount)
        /\ earningsOwed' =
              earningsOwed + Tokens("investor") * (net \div Tokens("investor"))
        /\ IF tryAutoRelease /\ coll.isLocked
           THEN ApplyRelease(earnings.currentPeriod + 1, UnprocessedEarnings(net), fee)
           ELSE /\ pending' = [pending EXCEPT !.fee = @ + fee]
                /\ earnings' = [currentPeriod |-> earnings.currentPeriod + 1,
                                lastEventTimestamp |-> now,
                                unprocessed |-> earnings.unprocessed + net,
                                hasUnprocessed |-> TRUE]
                /\ UNCHANGED <<coll, totalCollateralDeposited>>
        /\ UNCHANGED <<now, assetVars, tokenVars, settlement>>

ReleasePartialCollateral ==
    /\ ReleaseEligible
    /\ ApplyRelease(earnings.currentPeriod, earnings.unprocessed, 0)
    /\ UNCHANGED <<now, assetVars, tokenVars, settlement, earningsOwed, cashVars>>

\* _releaseCollateralFor without its check on the supply.
FreeCollateral ==
    /\ coll' = Cleared(coll)
    /\ totalCollateralDeposited' = ClearedTotal(coll)
    /\ pending' = [pending EXCEPT !.partner = @ + ReleasedTotal(coll)]

ReleaseCollateral ==
    /\ coll.isLocked
    /\ Supply = 0
    /\ FreeCollateral
    /\ UNCHANGED <<now, assetVars, tokenVars, settlement, earnings, earningsOwed, cashVars>>

-----------------------------------------------------------------------------
(* The end of an asset: settlement, liquidation, retirement, claims.         *)

\* Mutant: what the partner was handed out counts as still there.
TopUpCountingProceeds(c) ==
    IF policy.immediateProceeds /\ ~Matured
    THEN Monus(ResidualBaseValue(c, now), c.baseCollateral + c.releasedProtectedBase) ELSE 0

\* _previewRequiredSettlementTopUp, on the collateral after the shortfall.
RequiredTopUp(c) ==
    IF policy.immediateProceeds /\ ~Matured
    THEN Monus(ResidualBaseValue(c, now), c.baseCollateral) ELSE 0

SettleAsset(extra) ==
    LET c     == AfterMissedEarnings
        topUp == RequiredTopUp(c) + extra
        claimable == c.baseCollateral + c.reservedForLiquidation + topUp
    IN  /\ status \in Operational /\ ~settlement.isConfigured
        /\ PayIn(topUp)
        /\ IF Matured
           THEN /\ Settle(c, claimable, "Retired")
                /\ pending' = [pending EXCEPT
                                 !.partner = @ + c.earningsBuffer + c.protocolBuffer]
           ELSE /\ Settle(c, claimable + c.earningsBuffer, "Retired")
                /\ pending' = [pending EXCEPT !.fee = @ + c.protocolBuffer]

\* Anybody may call it; after maturity the earnings buffer goes nowhere.
LiquidationEligible == Matured \/ ~IsSolvent(AfterMissedEarnings)

\* Mutant: after maturity the earnings buffer is refunded and shared as well.
LiquidateWithRefund ==
    LET c == AfterMissedEarnings
        claimable == c.baseCollateral + c.reservedForLiquidation
    IN  /\ status \notin Terminal /\ ~settlement.isConfigured
        /\ LiquidationEligible
        /\ Settle(c, claimable + c.earningsBuffer, "Expired")
        /\ pending' = [pending EXCEPT !.fee = @ + c.protocolBuffer,
                                      !.partner = @ + (IF Matured THEN c.earningsBuffer
                                                                  ELSE 0)]
        /\ UNCHANGED cashVars

LiquidateAsset ==
    LET c == AfterMissedEarnings
        claimable == c.baseCollateral + c.reservedForLiquidation
    IN  /\ status \notin Terminal /\ ~settlement.isConfigured
        /\ LiquidationEligible
        /\ Settle(c, IF Matured THEN claimable ELSE claimable + c.earningsBuffer, "Expired")
        /\ pending' = [pending EXCEPT !.fee = @ + c.protocolBuffer]
        /\ UNCHANGED cashVars

\* claimSettlement by a holder of class k with `c` current and `o` former
\* tokens, its whole balance, which credits `credit` earnings when autoClaim.
ClaimSettlement(k, c, o, credit) ==
    /\ status \in Terminal /\ settlement.isConfigured
    /\ c + o > 0 /\ c <= cur[k] /\ o <= old[k]
    /\ k = "partner" => credit = 0
    /\ LET payout == (c + o) * settlement.settlementPerToken
       IN  /\ settlement' = [settlement EXCEPT !.claimedPayout = @ + payout]
           /\ pending' = [pending EXCEPT ![PayoutAccount(k)] = @ + payout + credit]
    /\ earningsOwed' = earningsOwed - credit
    /\ cur' = [cur EXCEPT ![k] = @ - c]
    /\ old' = [old EXCEPT ![k] = @ - o]
    /\ UNCHANGED <<now, assetVars, coll, backed, earnings, totalCollateralDeposited, cashVars>>

\* _retireAsset: collateral that was never locked is skipped without looking
\* at the supply; locked collateral requires that no token is left.
\* Mutant: an expired asset may still be retired.
RetireUnlessRetired ==
    /\ status # "Retired"
    /\ status' = "Retired"
    /\ IF coll.isLocked
       THEN Supply = 0 /\ FreeCollateral
       ELSE UNCHANGED <<coll, totalCollateralDeposited, pending>>
    /\ UNCHANGED <<now, pool, policy, maturityDate, tokenVars, settlement, earnings,
                   earningsOwed, cashVars>>

RetireAsset ==
    /\ status \in Operational
    /\ status' = "Retired"
    /\ IF coll.isLocked
       THEN Supply = 0 /\ FreeCollateral
       ELSE UNCHANGED <<coll, totalCollateralDeposited, pending>>
    /\ UNCHANGED <<now, pool, policy, maturityDate, tokenVars, settlement, earnings,
                   earningsOwed, cashVars>>

\* With no token outstanding it is RetireAsset.
RetireAssetAndBurnTokens ==
    /\ status \in Operational
    /\ Tokens("partner") = Supply /\ Supply > 0
    /\ status' = "Retired"
    /\ cur' = [k \in Class |-> 0] /\ old' = [k \in Class |-> 0]
    /\ IF coll.isLocked
       THEN FreeCollateral
       ELSE UNCHANGED <<coll, totalCollateralDeposited, pending>>
    /\ UNCHANGED <<now, pool, policy, maturityDate, backed, settlement, earnings,
                   earningsOwed, cashVars>>

-----------------------------------------------------------------------------
(* Tokens and money that move without the collateral.                        *)

\* burnRevenueTokens: any authorised partner burns tokens of its own; neither
\* the principal nor the backing follows.
BurnRevenueTokens(k, c, o) ==
    /\ c + o > 0 /\ c <= cur[k] /\ o <= old[k]
    /\ cur' = [cur EXCEPT ![k] = @ - c]
    /\ old' = [old EXCEPT ![k] = @ - o]
    /\ UNCHANGED <<now, assetVars, coll, backed, settlement, earnings, earningsOwed,
                   moneyVars>>

Moved(tokens, from, to, n) == [tokens EXCEPT ![from] = @ - n, ![to] = @ + n]

\* A direct ERC1155 transfer between the classes.
TransferTokens(from, to, c, o) ==
    /\ from # to
    /\ c + o > 0 /\ c <= cur[from] /\ o <= old[from]
    /\ cur' = Moved(cur, from, to, c)
    /\ old' = Moved(old, from, to, o)
    /\ UNCHANGED <<now, assetVars, coll, backed, settlement, earnings, earningsOwed,
                   moneyVars>>

\* A secondary purchase at the token price: the seller and the buyer settle in
\* the marketplace, the treasury receives the fee and books it.
BuyFromSecondaryListing(from, to, c, o) ==
    LET fee == CalculateProtocolFee((c + o) * TokenPrice)
    IN  /\ status \in Operational
        /\ c + o \in TradeAmounts \ {0} /\ c <= cur[from] /\ o <= old[from]
        /\ PayIn(fee)
        /\ from = to => from = "investor"
        /\ cur' = IF from = to THEN cur ELSE Moved(cur, from, to, c)
        /\ old' = IF from = to THEN old ELSE Moved(old, from, to, o)
        /\ pending' = [pending EXCEPT !.fee = @ + fee]
        /\ UNCHANGED <<now, assetVars, coll, backed, settlement, earnings, earningsOwed,
                       totalCollateralDeposited>>

\* creditEarningsWithdrawal for an investor's claim.
CreditEarningsWithdrawal(amount) ==
    /\ earningsOwed' = earningsOwed - amount
    /\ pending' = [pending EXCEPT !.holders = @ + amount]
    /\ UNCHANGED <<now, assetVars, coll, tokenVars, settlement, earnings,
                   totalCollateralDeposited, cashVars>>

\* processWithdrawal: an account takes its whole balance; "holders" are many
\* accounts, so a part of theirs.
ProcessWithdrawal(account, amount) ==
    /\ account # "holders" => amount = pending[account]
    /\ PayOut(amount)
    /\ pending' = [pending EXCEPT ![account] = @ - amount]
    /\ UNCHANGED <<now, assetVars, coll, tokenVars, settlement, earnings, earningsOwed,
                   totalCollateralDeposited>>

Tick ==
    /\ now < MaxTime
    /\ now' = now + 1
    /\ UNCHANGED <<assetVars, coll, tokenVars, settlement, earnings, earningsOwed, moneyVars>>
-----------------------------------------------------------------------------
PoolStep ==
    \/ \E p \in Policies, m \in MaturityDates : CreatePool(p, m)
    \/ PausePool
    \/ UnpausePool
    \/ ClosePool
    \/ \E k \in Buyers, n \in 1 .. MaxSupply : BuyFromPrimaryPool(k, n)
    \/ \E k \in Class, n \in 1 .. MaxSupply : RedeemPrimaryPool(k, n)

CollateralStep ==
    \/ EnableProceeds
    \/ \E r \in Revenues, auto \in BOOLEAN : DistributeEarnings(r, auto)
    \/ ReleasePartialCollateral
    \/ ReleaseCollateral

EndStep ==
    \/ \E extra \in ExtraTopUps : SettleAsset(extra)
    \/ LiquidateAsset
    \/ \E k \in Class, c, o \in 0 .. MaxSupply, e \in {0} \cup PartOf(earningsOwed) :
          ClaimSettlement(k, c, o, e)
    \/ RetireAsset
    \/ RetireAssetAndBurnTokens

TokenStep ==
    \/ \E k \in Class, c, o \in 0 .. MaxSupply : BurnRevenueTokens(k, c, o)
    \/ \E t \in Transfers, c, o \in 0 .. MaxSupply : TransferTokens(t[1], t[2], c, o)
    \/ \E k, l \in Class, c, o \in 0 .. MaxSupply : BuyFromSecondaryListing(k, l, c, o)

CashStep ==
    \/ \E e \in PartOf(earningsOwed) : CreditEarningsWithdrawal(e)
    \/ \E account \in Withdrawers : \E a \in PartOf(pending[account]) :
          ProcessWithdrawal(account, a)

Next == PoolStep \/ CollateralStep \/ EndStep \/ TokenStep \/ CashStep \/ Tick

Spec == Init /\ [][Next]_vars

-----------------------------------------------------------------------------
(* Invariants.                                                               *)

SettlementOwed == settlement.settlementPerToken * Supply

Obligations ==
    pending.partner + pending.holders + pending.fee
    + TotalCollateral(coll) + coll.reservedForLiquidation
    + SettlementOwed + earningsOwed

\* The treasury's USDC covers everything it has promised at once: withdrawals
\* already credited, collateral and reserve still on the books, the settlement
\* of every outstanding token and every uncredited earning.
Solvent == Obligations <= cash

\* Claims in any order, with tokens bought, moved or burned in between, never
\* draw more than the pool that settlement or liquidation set aside.
SettlementFunded ==
    settlement.claimedPayout + SettlementOwed <= settlement.settlementAmount

\* The global total never falls below what the asset holds, so the unchecked
\* subtractions cannot wrap and _clearCollateral never has to clamp a release.
TotalCoversCollateral ==
    TotalCollateral(coll) + coll.reservedForLiquidation <= totalCollateralDeposited

\* Every unit of unredeemed principal is escrowed, was handed out as covered
\* proceeds, or was released through depreciation: none is lost track of when
\* redemptions, proceeds and releases interleave.
PrincipalAccounted ==
    coll.unredeemedBasePrincipal <=
        coll.baseCollateral + coll.releasedProtectedBase + coll.releasedBaseCollateral

\* Locked collateral always has the two clocks its later steps measure from:
\* the depreciation clock and EarningsManager's missed-earnings clock.
LockedHasClocks ==
    coll.isLocked => coll.lockedAt > 0 /\ earnings.lastEventTimestamp > 0

\* A settlement exists only for a terminal asset, whose collateral is gone;
\* until then nothing has been claimed from it.
SettledIsFinal ==
    IF settlement.isConfigured
    THEN /\ status \in Terminal /\ ~coll.isLocked
         /\ TotalCollateral(coll) + coll.reservedForLiquidation = 0
    ELSE settlement.settlementPerToken = 0 /\ settlement.claimedPayout = 0

\* Without immediate proceeds the partner never draws more base than linear
\* depreciation allows: what is escrowed still covers the depreciated price of
\* every outstanding token, whoever bought, redeemed or burned before and
\* however redemptions and releases are rounded, until a settlement takes it.
DepreciatedPrice(n) ==
    n * TokenPrice - CalculateDepreciation(n * TokenPrice,
                        IF coll.lockedAt = 0 THEN 0 ELSE now - coll.lockedAt)

PrincipalEscrowed ==
    ~settlement.isConfigured /\ ~policy.immediateProceeds =>
        coll.baseCollateral >= DepreciatedPrice(Supply)

\* Holders may be left with tokens of an ended asset that has no settlement to
\* claim, but only because its partner retired it while no collateral was
\* locked, and without immediate proceeds what backs them is still escrowed.
StrandedKeepBacking ==
    status \in Terminal /\ Supply > 0 /\ ~settlement.isConfigured =>
        /\ status = "Retired"
        /\ ~policy.immediateProceeds => coll.baseCollateral >= DepreciatedPrice(Supply)

\* previewLiquidationEligibility, which anyone consults before liquidating.
PreviewLiquidationEligible ==
    LET elapsed   == now - earnings.lastEventTimestamp
        principal == CalculateBenchmarkEarningsPrincipal(coll, policy)
        c == IF coll.isLocked /\ earnings.lastEventTimestamp > 0 /\ elapsed > 0
                /\ principal > 0
             THEN ApplyRealizedVsBenchmarkToCollateral(
                     coll, 0, CalculateEarnings(principal, elapsed, TargetYieldBP), principal)
             ELSE coll
    IN  /\ status \notin Terminal /\ ~settlement.isConfigured
        /\ Matured \/ ~IsSolvent(c)

\* The preview says "eligible" exactly when the liquidation would go through.
PreviewMatchesLiquidation ==
    PreviewLiquidationEligible <=>
        /\ status \notin Terminal /\ ~settlement.isConfigured
        /\ LiquidationEligible

-----------------------------------------------------------------------------
(* What a step may never do.                                                 *)

\* Once an asset is settled its rate and status stand, and no token is added
\* to those that share the pool.
SettlementFrozen ==
    [][settlement.isConfigured =>
          /\ settlement'.isConfigured
          /\ settlement'.settlementPerToken = settlement.settlementPerToken
          /\ settlement'.settlementAmount = settlement.settlementAmount
          /\ status' = status
          /\ Supply' <= Supply]_vars

\* Immediate proceeds go to the partner only as far as the funded buffers
\* cover all the principal handed out, over any number of purchases, calls and
\* shortfalls in between.
ProceedsCovered ==
    [][coll'.releasedProtectedBase > coll.releasedProtectedBase =>
          coll'.releasedProtectedBase
             <= CalculateCoverableProtectedExposure(coll', policy)]_vars

\* A settlement of an immediate-proceeds asset before maturity leaves the
\* holders at least the depreciated principal of their tokens; where no proceeds
\* are handed out every settlement and every liquidation does, at any time.
SettlementMakesWhole ==
    [][~settlement.isConfigured /\ settlement'.isConfigured =>
          /\ status' = "Retired" /\ policy.immediateProceeds /\ ~Matured =>
                settlement'.settlementAmount >= ResidualBaseValue(coll, now)
          /\ ~policy.immediateProceeds =>
                settlement'.settlementAmount >= DepreciatedPrice(Supply)]_vars

\* Where no proceeds are handed out, a redemption pays the depreciated price of
\* the tokens redeemed, less at most one unit of rounding.
RedemptionPaysPrice ==
    [][\A k \in Class, n \in 1 .. MaxSupply :
          RedeemPrimaryPool(k, n) /\ ~policy.immediateProceeds =>
              cash - cash' >= DepreciatedPrice(n) - 1]_vars

\* previewCollateralRelease with the net earnings a distribution is about to
\* record (simulated as one more period when positive).
PreviewCollateralRelease(net) ==
    LET realized == net + (IF earnings.hasUnprocessed THEN earnings.unprocessed ELSE 0)
        c     == AfterEarnings(coll, policy, realized, now - coll.lastEventTimestamp)
        gross == GrossRelease(c, policy, now)
    IN  IF coll.isLocked /\ (net > 0 \/ earnings.hasUnprocessed)
        THEN gross - ReleaseFee(gross) ELSE 0

\* Every auto-release pays the partner exactly what the preview announced.
AutoReleaseAsPreviewed ==
    [][\A r \in Revenues :
          DistributeEarnings(r, TRUE) /\ NetEarnings(r) > 0 =>
              pending'.partner - pending.partner
                 = PreviewCollateralRelease(NetEarnings(r))]_vars

-----------------------------------------------------------------------------
(* What documentation and tests say of the program and the code does not do. *)

\* "Retire an asset. Requires 0 revenue token supply."  Nobody is left with
\* tokens of an ended asset that has no settlement to claim.
NoStrandedHolders ==
    status \in Terminal /\ Supply > 0 => settlement.isConfigured
=============================================================================
