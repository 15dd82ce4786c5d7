-------------------------- MODULE TreasuryStepProofs --------------------------
(* What no step of the treasury ever does, what its previews promise and what *)
(* it holds in escrow, for every value of the constants.  What relates a     *)
(* state to the next one follows from the inductive invariant of             *)
(* TreasuryProofs and a look at the actions that touch the state it names;   *)
(* the escrow needs an invariant of its own, EscrowInv.                      *)
EXTENDS TreasuryProofs

-----------------------------------------------------------------------------
(* A settlement stands.                                                      *)

\* A settled asset is closed to every step that would need an operational or
\* a pending asset, locked collateral or exposure.
LEMMA SettledIsClosed ==
    ASSUME IInv, settlement.isConfigured
    PROVE  /\ status \notin Operational /\ status # "Pending" /\ status # "Earning"
           /\ ~coll.isLocked
           /\ ProtectedExposure(coll, policy) = 0
<1>1. /\ coll \in CollateralInfo /\ coll.baseCollateral = 0
      /\ coll.releasedProtectedBase = 0
  BY DEF IInv, TypeOK, SettledIsFinal, SettledHasNoExposure, TotalCollateral,
     CollateralInfo
<1> QED
  BY <1>1 DEF IInv, SettledIsFinal, Terminal, Operational, ProtectedExposure

\* Tokens taken from a class leave fewer of them.
LEMMA TakenTokens ==
    ASSUME TypeOK, NEW k \in Class, NEW c \in Nat, NEW o \in Nat,
           c <= cur[k], o <= old[k],
           cur' = [cur EXCEPT ![k] = @ - c], old' = [old EXCEPT ![k] = @ - o]
    PROVE  Supply' <= Supply
<1>1. /\ cur \in [Class -> Nat] /\ old \in [Class -> Nat]
      /\ "partner" \in Class /\ "investor" \in Class
  BY DEF TypeOK, Class
<1>2. /\ cur'["partner"] <= cur["partner"] /\ cur'["investor"] <= cur["investor"]
      /\ old'["partner"] <= old["partner"] /\ old'["investor"] <= old["investor"]
      /\ cur'["partner"] \in Nat /\ cur'["investor"] \in Nat
      /\ old'["partner"] \in Nat /\ old'["investor"] \in Nat
  BY <1>1
<1> QED
  BY <1>1, <1>2 DEF Supply, Tokens

\* Tokens that change hands are as many as before.
LEMMA TransferredTokens ==
    ASSUME TypeOK, NEW from \in Class, NEW to \in Class, from # to,
           NEW c \in Nat, NEW o \in Nat, c <= cur[from], o <= old[from],
           cur' = Moved(cur, from, to, c), old' = Moved(old, from, to, o)
    PROVE  Supply' <= Supply
<1>1. /\ cur \in [Class -> Nat] /\ old \in [Class -> Nat]
      /\ cur[from] \in Nat /\ cur[to] \in Nat /\ old[from] \in Nat /\ old[to] \in Nat
  BY DEF TypeOK
<1>2. /\ cur'[from] = cur[from] - c /\ cur'[to] = cur[to] + c
      /\ old'[from] = old[from] - o /\ old'[to] = old[to] + o
  BY <1>1 DEF Moved
<1>3. \/ from = "partner" /\ to = "investor"
      \/ from = "investor" /\ to = "partner"
  BY DEF Class
<1> QED
  BY <1>1, <1>2, <1>3 DEF Supply, Tokens

\* Whatever happens to a settled asset, its rate and status stand.
LEMMA SettledStep ==
    ASSUME IInv, Next, settlement.isConfigured
    PROVE  /\ settlement'.isConfigured
           /\ settlement'.settlementPerToken = settlement.settlementPerToken
           /\ settlement'.settlementAmount = settlement.settlementAmount
           /\ status' = status
           /\ Supply' <= Supply
<1> DEFINE Goal == /\ settlement'.isConfigured
                   /\ settlement'.settlementPerToken = settlement.settlementPerToken
                   /\ settlement'.settlementAmount = settlement.settlementAmount
                   /\ status' = status
                   /\ Supply' <= Supply
<1>1. /\ TypeOK /\ Supply \in Nat
      /\ status \notin Operational /\ status # "Pending" /\ status # "Earning"
      /\ ~coll.isLocked /\ ProtectedExposure(coll, policy) = 0
      /\ ~(ProtectedExposure(coll, policy) > 0)
  BY SettledIsClosed, SupplyNat DEF IInv
<1>2. ASSUME UNCHANGED <<settlement, status, cur, old>> PROVE Goal
  <2>1. Supply' = Supply
    BY <1>2 DEF Supply, Tokens
  <2> QED
    BY <1>1, <1>2, <2>1
<1>3. CASE PoolStep
  <2>1. PausePool \/ UnpausePool \/ ClosePool
    BY <1>1, <1>3 DEF PoolStep, CreatePool, BuyFromPrimaryPool, RedeemPrimaryPool, MarketOpen
  <2> QED
    BY <1>2, <2>1 DEF PausePool, UnpausePool, ClosePool, SetPoolState, tokenVars
<1>4. CASE CollateralStep
  BY <1>1, <1>4 DEF CollateralStep, EnableProceeds, DistributeEarnings,
     ReleasePartialCollateral, ReleaseEligible, ReleaseCollateral
<1>5. CASE EndStep
  <2>1. PICK k \in Class, c \in 0 .. MaxSupply, o \in 0 .. MaxSupply,
             e \in {0} \cup PartOf(earningsOwed) : ClaimSettlement(k, c, o, e)
    BY <1>1, <1>5 DEF EndStep, SettleAsset, LiquidateAsset, RetireAsset,
       RetireAssetAndBurnTokens
  <2>2. /\ c \in Nat /\ o \in Nat /\ c <= cur[k] /\ o <= old[k]
        /\ cur' = [cur EXCEPT ![k] = @ - c] /\ old' = [old EXCEPT ![k] = @ - o]
        /\ settlement' = [settlement EXCEPT
                            !.claimedPayout = @ + (c + o) * settlement.settlementPerToken]
        /\ status' = status
    BY <2>1, TreasuryAssumption DEF ClaimSettlement, assetVars
  <2>3. Supply' <= Supply
    BY <1>1, <2>2, TakenTokens
  <2> QED
    BY <1>1, <2>2, <2>3 DEF TypeOK
<1>6. CASE TokenStep
  <2>1. ASSUME NEW k \in Class, NEW c \in 0 .. MaxSupply, NEW o \in 0 .. MaxSupply,
               BurnRevenueTokens(k, c, o)
        PROVE  Goal
    <3>1. /\ c \in Nat /\ o \in Nat /\ c <= cur[k] /\ o <= old[k]
          /\ cur' = [cur EXCEPT ![k] = @ - c] /\ old' = [old EXCEPT ![k] = @ - o]
          /\ settlement' = settlement /\ status' = status
      BY <2>1, TreasuryAssumption DEF BurnRevenueTokens, assetVars
    <3> QED
      BY <1>1, <3>1, TakenTokens
  <2>2. ASSUME NEW t \in Transfers, NEW c \in 0 .. MaxSupply, NEW o \in 0 .. MaxSupply,
               TransferTokens(t[1], t[2], c, o)
        PROVE  Goal
    <3>1. t[1] \in Class /\ t[2] \in Class
      BY TreasuryAssumption DEF Class
    <3>2. /\ t[1] # t[2] /\ c \in Nat /\ o \in Nat /\ c <= cur[t[1]] /\ o <= old[t[1]]
          /\ cur' = Moved(cur, t[1], t[2], c) /\ old' = Moved(old, t[1], t[2], o)
          /\ settlement' = settlement /\ status' = status
      BY <2>2, TreasuryAssumption DEF TransferTokens, assetVars
    <3>3. Supply' <= Supply
      BY <1>1, <3>1, <3>2, TransferredTokens
    <3> QED
      BY <1>1, <3>2, <3>3
  <2> QED
    BY <1>1, <1>6, <2>1, <2>2 DEF TokenStep, BuyFromSecondaryListing
<1>7. CASE CashStep \/ Tick
  BY <1>2, <1>7 DEF CashStep, CreditEarningsWithdrawal, ProcessWithdrawal, Tick,
     assetVars, tokenVars
<1> QED
  BY <1>3, <1>4, <1>5, <1>6, <1>7 DEF Next

\* Once an asset is settled its rate and status stand, and no token joins
\* those that share the pool.
THEOREM SettlementAlwaysFrozen == Spec => SettlementFrozen
<1>1. IInv /\ [Next]_vars =>
        [settlement.isConfigured =>
            /\ settlement'.isConfigured
            /\ settlement'.settlementPerToken = settlement.settlementPerToken
            /\ settlement'.settlementAmount = settlement.settlementAmount
            /\ status' = status
            /\ Supply' <= Supply]_vars
  BY SettledStep
<1>2. Spec => []IInv
  BY Invariance
<1> QED
  BY <1>1, <1>2, PTL DEF Spec, SettlementFrozen

-----------------------------------------------------------------------------
(* A settlement before maturity makes the holders whole.                     *)

\* The top-up and the base together reach the depreciated principal, which the
\* shortfall of missed earnings leaves as it was.
LEMMA TopUpReachesResidual ==
    ASSUME IInv, policy.immediateProceeds, ~Matured
    PROVE  AfterMissedEarnings.baseCollateral + RequiredTopUp(AfterMissedEarnings)
              >= ResidualBaseValue(coll, now)
<1> DEFINE c == AfterMissedEarnings
<1>1. /\ SameValue(c) /\ coll \in CollateralInfo /\ now \in Nat /\ coll.lockedAt <= now
  BY AfterMissedEarningsSameValue DEF IInv, TypeOK
<1> HIDE DEF c
<1>2. ResidualBaseValue(c, now) = ResidualBaseValue(coll, now)
  BY <1>1 DEF SameValue, ResidualBaseValue
<1>3. ResidualBaseValue(coll, now) \in Nat /\ c.baseCollateral \in Nat
  BY <1>1, ResidualBaseValueNat DEF SameValue, CollateralInfo
<1>4. RequiredTopUp(c) = Monus(ResidualBaseValue(coll, now), c.baseCollateral)
  BY <1>2 DEF RequiredTopUp
<1>5. c.baseCollateral + RequiredTopUp(c) >= ResidualBaseValue(coll, now)
  BY <1>3, <1>4 DEF Monus
<1> QED
  BY <1>5 DEF c

\* Only settleAsset and a liquidation configure a settlement, and only
\* settleAsset that of a retired asset.
LEMMA SettledBySettlement ==
    ASSUME IInv, Next, ~settlement.isConfigured, settlement'.isConfigured
    PROVE  \/ \E extra \in ExtraTopUps : SettleAsset(extra)
           \/ LiquidateAsset
<1>1. settlement' # settlement
  OBVIOUS
<1>2. ~PoolStep
  BY <1>1 DEF PoolStep, CreatePool, PausePool, UnpausePool, ClosePool, SetPoolState,
     BuyFromPrimaryPool, RedeemPrimaryPool
<1>3. ~CollateralStep
  BY <1>1 DEF CollateralStep, EnableProceeds, Enable, DistributeEarnings,
     ReleasePartialCollateral, ReleaseCollateral
<1>4. ~TokenStep /\ ~CashStep /\ ~Tick
  BY <1>1 DEF TokenStep, BurnRevenueTokens, TransferTokens, BuyFromSecondaryListing,
     CashStep, CreditEarningsWithdrawal, ProcessWithdrawal, Tick
<1>5. /\ ~RetireAsset /\ ~RetireAssetAndBurnTokens
      /\ \A k \in Class, c, o \in 0 .. MaxSupply, e \in {0} \cup PartOf(earningsOwed) :
            ~ClaimSettlement(k, c, o, e)
  BY <1>1 DEF RetireAsset, RetireAssetAndBurnTokens, ClaimSettlement
<1> QED
  BY <1>2, <1>3, <1>4, <1>5 DEF Next, EndStep

\* What a settlement pays in comes on top of the base and the reserve.
LEMMA SettledAmount ==
    ASSUME IInv, NEW extra \in ExtraTopUps, SettleAsset(extra)
    PROVE  LET c == AfterMissedEarnings IN
           /\ settlement'.settlementAmount >= c.baseCollateral + RequiredTopUp(c)
           /\ settlement'.settlementAmount >= coll.baseCollateral
           /\ status' = "Retired"
<1> DEFINE c == AfterMissedEarnings
           amount == settlement'.settlementAmount
           claimable == c.baseCollateral + c.reservedForLiquidation + (RequiredTopUp(c) + extra)
<1>1. /\ amount = claimable \/ amount = claimable + c.earningsBuffer
      /\ status' = "Retired"
  BY DEF SettleAsset, Settle
<1>2. /\ c.baseCollateral = coll.baseCollateral
      /\ c.baseCollateral \in Nat /\ c.reservedForLiquidation \in Nat
      /\ c.earningsBuffer \in Nat
  BY AfterMissedEarningsSameValue DEF IInv, SameValue, CollateralInfo
<1>3. ResidualBaseValue(c, now) \in Nat
  BY AfterMissedEarningsSameValue, ResidualBaseValueNat DEF IInv, SameValue, TypeOK
<1> HIDE DEF c
<1>4. RequiredTopUp(c) \in Nat /\ extra \in Nat
  BY <1>2, <1>3, TreasuryAssumption DEF RequiredTopUp, Monus
<1>5. amount >= c.baseCollateral + RequiredTopUp(c) /\ amount >= coll.baseCollateral
  BY <1>1, <1>2, <1>4
<1> QED
  BY <1>1, <1>5 DEF c

\* A liquidation shares the base, the reserve and, before maturity, the buffer.
LEMMA LiquidatedAmount ==
    ASSUME IInv, LiquidateAsset
    PROVE  settlement'.settlementAmount >= coll.baseCollateral /\ status' = "Expired"
<1> DEFINE c == AfterMissedEarnings
           amount == settlement'.settlementAmount
           claimable == c.baseCollateral + c.reservedForLiquidation
<1>1. amount = claimable \/ amount = claimable + c.earningsBuffer
  BY DEF LiquidateAsset, Settle
<1>2. /\ c.baseCollateral = coll.baseCollateral
      /\ c.baseCollateral \in Nat /\ c.reservedForLiquidation \in Nat
      /\ c.earningsBuffer \in Nat
  BY AfterMissedEarningsSameValue DEF IInv, SameValue, CollateralInfo
<1>3. status' = "Expired"
  BY DEF LiquidateAsset, Settle
<1> QED
  BY <1>1, <1>2, <1>3

-----------------------------------------------------------------------------
(* Proceeds are covered.                                                     *)

\* Moving base to the released principal of an immediate-proceeds asset leaves
\* its exposure, and so its coverage, as it was.
LEMMA ReleaseKeepsCoverage ==
    ASSUME NEW c \in CollateralInfo, NEW p \in Policy, p.immediateProceeds,
           NEW n \in 0 .. c.baseCollateral, NEW d,
           d = [c EXCEPT !.baseCollateral = @ - n, !.releasedProtectedBase = @ + n]
    PROVE  CalculateCoverableProtectedExposure(d, p)
              = CalculateCoverableProtectedExposure(c, p)
<1>1. /\ d.baseCollateral = c.baseCollateral - n
      /\ d.releasedProtectedBase = c.releasedProtectedBase + n
      /\ d.earningsBuffer = c.earningsBuffer /\ d.protocolBuffer = c.protocolBuffer
      /\ c.baseCollateral \in Nat /\ c.releasedProtectedBase \in Nat
  BY DEF CollateralInfo
<1>2. ProtectedExposure(d, p) = ProtectedExposure(c, p)
  BY <1>1 DEF ProtectedExposure
<1> QED
  BY <1>1, <1>2 DEF CalculateCoverableProtectedExposure

\* What enableProceeds hands out, with all that was handed out before, is
\* covered by the buffers as they are then.
LEMMA EnabledIsCovered ==
    ASSUME IInv, EnableProceeds,
           coll'.releasedProtectedBase > coll.releasedProtectedBase
    PROVE  coll'.releasedProtectedBase <= CalculateCoverableProtectedExposure(coll', policy)
<1> DEFINE c == FundedCollateral(DueEarningsBuffer, DueProtocolBuffer)
           released == Proceeds(c)
           exposure == CalculateCoverableProtectedExposure(c, policy)
<1>1. TypeOK /\ PrincipalAccounted /\ DueEarningsBuffer \in Nat /\ DueProtocolBuffer \in Nat
  BY DueNat DEF IInv
<1>2. c \in CollateralInfo /\ policy \in Policy
  BY <1>1, FundedCollateralFacts DEF TypeOK
<1>3. coll' = [c EXCEPT !.baseCollateral = @ - released,
                        !.releasedProtectedBase = @ + released]
  BY DEF EnableProceeds, Enable
<1>4. released = IF policy.immediateProceeds
                 THEN Lesser(c.baseCollateral, Monus(exposure, c.releasedProtectedBase))
                 ELSE 0
  BY DEF Proceeds, CalculateCoverableBaseCollateral
<1>5. exposure \in Nat
  BY <1>2, CoverableExposureBound
<1>6. c.releasedProtectedBase <= coll.releasedProtectedBase
  BY <1>1 DEF FundedCollateral, EmptyCollateral, TypeOK, CollateralInfo
<1> HIDE DEF c, released, exposure
<1>7. /\ c.baseCollateral \in Nat /\ c.releasedProtectedBase \in Nat
      /\ coll.releasedProtectedBase \in Nat
  BY <1>1, <1>2 DEF TypeOK, CollateralInfo
<1>8. released \in 0 .. c.baseCollateral
  BY <1>4, <1>5, <1>7 DEF Lesser, Monus
<1>9. coll'.releasedProtectedBase = c.releasedProtectedBase + released
  BY <1>2, <1>3 DEF CollateralInfo
<1>10. released > 0
  BY <1>6, <1>7, <1>8, <1>9
<1>11. policy.immediateProceeds /\ c.releasedProtectedBase + released <= exposure
  BY <1>4, <1>5, <1>7, <1>10 DEF Lesser, Monus
<1>12. CalculateCoverableProtectedExposure(coll', policy) = exposure
  BY <1>2, <1>3, <1>8, <1>11, ReleaseKeepsCoverage DEF exposure
<1> QED
  BY <1>9, <1>11, <1>12

\* No other step raises the principal handed out.
LEMMA OnlyEnableHandsOut ==
    ASSUME IInv, Next, coll'.releasedProtectedBase > coll.releasedProtectedBase
    PROVE  EnableProceeds
<1>1. /\ TypeOK /\ TotalCoversCollateral /\ PrincipalAccounted
      /\ coll \in CollateralInfo /\ coll.releasedProtectedBase \in Nat
  BY DEF IInv, TypeOK, CollateralInfo
<1>2. coll' # coll
  BY <1>1
<1>3. ASSUME NEW c \in CollateralInfo, coll' = Cleared(c) PROVE FALSE
  <2>1. Cleared(c).releasedProtectedBase = 0
    BY ClearedFacts
  <2>2. coll'.releasedProtectedBase = 0
    BY <1>3, <2>1
  <2> QED
    BY <1>1, <2>2
<1>4. ASSUME NEW k \in Buyers, NEW n \in 1 .. MaxSupply, BuyFromPrimaryPool(k, n)
      PROVE  FALSE
  <2>1. coll' = [coll EXCEPT !.baseCollateral = @ + n * TokenPrice,
                             !.unredeemedBasePrincipal = @ + n * TokenPrice,
                             !.lastEventTimestamp = now]
    BY <1>4 DEF BuyFromPrimaryPool
  <2>2. coll'.releasedProtectedBase = coll.releasedProtectedBase
    BY <1>1, <2>1 DEF CollateralInfo
  <2> QED
    BY <1>1, <2>2
<1>5. ASSUME NEW k \in Class, NEW n \in 1 .. MaxSupply, RedeemPrimaryPool(k, n)
      PROVE  FALSE
  <2> DEFINE c == [coll EXCEPT !.baseCollateral = @ - RedemptionPayout(n),
                               !.unredeemedBasePrincipal = Monus(@, n * TokenPrice)]
  <2>1. coll' = [c EXCEPT !.releasedBaseCollateral = ReconciledReleasedBase(c)]
    BY <1>5 DEF RedeemPrimaryPool
  <2>2. coll'.releasedProtectedBase = coll.releasedProtectedBase
    BY <1>1, <2>1 DEF CollateralInfo
  <2> QED
    BY <1>1, <2>2
<1>6. ~PoolStep
  BY <1>2, <1>4, <1>5 DEF PoolStep, CreatePool, PausePool, UnpausePool, ClosePool,
     SetPoolState
<1>7. ASSUME NEW period \in Nat, NEW realized \in Nat, NEW paid \in Nat,
             ApplyRelease(period, realized, paid)
      PROVE  FALSE
  BY <1>1, <1>7, ApplyReleaseFacts
<1>8. ASSUME NEW r \in Revenues, NEW auto \in BOOLEAN, DistributeEarnings(r, auto)
      PROVE  FALSE
  <2> DEFINE amount == InvestorAmount(r)
  <2>1. /\ NetEarnings(r) \in Nat /\ CalculateProtocolFee(amount) \in Nat
        /\ earnings.currentPeriod + 1 \in Nat /\ UnprocessedEarnings(NetEarnings(r)) \in Nat
    <3>1. r \in Nat /\ amount >= MIN_PROTOCOL_FEE /\ Tokens("investor") > 0
      BY <1>8, TreasuryAssumption DEF DistributeEarnings
    <3>2. NetEarnings(r) \in Nat /\ CalculateProtocolFee(amount) \in Nat
      BY <1>1, <3>1, DistributionAmounts
    <3> QED
      BY <1>1, <3>2 DEF UnprocessedEarnings, TypeOK
  <2>2. \/ ApplyRelease(earnings.currentPeriod + 1, UnprocessedEarnings(NetEarnings(r)),
                        CalculateProtocolFee(amount))
        \/ coll' = coll
    BY <1>8 DEF DistributeEarnings
  <2> QED
    BY <1>2, <1>7, <2>1, <2>2
<1>9. ~ReleasePartialCollateral
  BY <1>1, <1>7 DEF ReleasePartialCollateral, TypeOK
<1>10. AfterMissedEarnings \in CollateralInfo
  BY <1>1, AfterMissedEarningsSameValue DEF SameValue
<1>11. ~EndStep
  BY <1>1, <1>2, <1>3, <1>10 DEF EndStep, SettleAsset, LiquidateAsset, Settle,
     ClaimSettlement, RetireAsset, RetireAssetAndBurnTokens, FreeCollateral
<1>12. ~TokenStep /\ ~CashStep /\ ~Tick /\ ~ReleaseCollateral
  BY <1>1, <1>2, <1>3 DEF TokenStep, BurnRevenueTokens, TransferTokens,
     BuyFromSecondaryListing, CashStep, CreditEarningsWithdrawal, ProcessWithdrawal,
     Tick, ReleaseCollateral, FreeCollateral
<1> QED
  BY <1>6, <1>8, <1>9, <1>11, <1>12 DEF Next, CollateralStep

\* Immediate proceeds go to the partner only as far as the funded buffers
\* cover all the principal handed out.
THEOREM ProceedsAlwaysCovered == Spec => ProceedsCovered
<1>1. ASSUME IInv, Next, coll'.releasedProtectedBase > coll.releasedProtectedBase
      PROVE  coll'.releasedProtectedBase
                <= CalculateCoverableProtectedExposure(coll', policy)
  BY <1>1, OnlyEnableHandsOut, EnabledIsCovered
<1>2. IInv /\ [Next]_vars =>
        [coll'.releasedProtectedBase > coll.releasedProtectedBase =>
            coll'.releasedProtectedBase
               <= CalculateCoverableProtectedExposure(coll', policy)]_vars
  BY <1>1
<1>3. Spec => []IInv
  BY Invariance
<1> QED
  BY <1>2, <1>3, PTL DEF Spec, ProceedsCovered

-----------------------------------------------------------------------------
(* What the previews promise.                                                *)

\* With no principal there is no benchmark to fall short of.
LEMMA NothingExpected ==
    ASSUME NEW elapsed \in Nat, NEW yield \in Nat
    PROVE  CalculateEarnings(0, elapsed, yield) = 0
<1>1. (0 * elapsed) * yield = 0
  OBVIOUS
<1>2. YEARLY_INTERVAL * BP_PRECISION \in Nat \ {0}
  BY CollateralAssumption DEF BP_PRECISION
<1>3. \A d \in Nat \ {0} : 0 \div d = 0
  OBVIOUS
<1> QED
  BY <1>1, <1>2, <1>3 DEF CalculateEarnings

\* The two fields that solvency looks at survive a window in which nothing was
\* expected and nothing came.
LEMMA NothingMissed ==
    ASSUME NEW c \in CollateralInfo, NEW principal \in Nat
    PROVE  IsSolvent(ApplyRealizedVsBenchmarkToCollateral(c, 0, 0, principal))
              <=> IsSolvent(c)
<1> DEFINE deficit == Monus(CalculateEarnings(principal, QUARTERLY_INTERVAL,
                                              BENCHMARK_YIELD_BP), c.earningsBuffer)
           d == ApplyRealizedVsBenchmarkToCollateral(c, 0, 0, principal)
<1>1. /\ c.earningsBuffer \in Nat /\ c.reservedForLiquidation \in Nat
      /\ CalculateEarnings(principal, QUARTERLY_INTERVAL, BENCHMARK_YIELD_BP) \in Nat
  <2>1. CalculateEarnings(principal, QUARTERLY_INTERVAL, BENCHMARK_YIELD_BP) \in Nat
    BY CalculateEarningsNat, CollateralAssumption DEF BENCHMARK_YIELD_BP
  <2> QED
    BY <2>1 DEF CollateralInfo
<1>2. deficit \in Nat
  BY <1>1 DEF Monus
<1>3. d = [c EXCEPT
             !.earningsBuffer = @ - Lesser(c.earningsBuffer, Monus(0, 0))
                                + Lesser(Lesser(deficit, c.reservedForLiquidation), Monus(0, 0)),
             !.reservedForLiquidation = @ + Lesser(c.earningsBuffer, Monus(0, 0))
                                - Lesser(Lesser(deficit, c.reservedForLiquidation), Monus(0, 0))]
  BY DEF ApplyRealizedVsBenchmarkToCollateral
<1> HIDE DEF deficit, d
<1>4. /\ Lesser(c.earningsBuffer, Monus(0, 0)) = 0
      /\ Lesser(Lesser(deficit, c.reservedForLiquidation), Monus(0, 0)) = 0
  BY <1>1, <1>2 DEF Lesser, Monus
<1>5. /\ d.earningsBuffer = c.earningsBuffer
      /\ d.reservedForLiquidation = c.reservedForLiquidation
  BY <1>1, <1>3, <1>4 DEF CollateralInfo
<1>6. IsSolvent(d) <=> IsSolvent(c)
  BY <1>5 DEF IsSolvent
<1> QED
  BY <1>6 DEF d

\* The liquidation preview looks at the collateral after the missed earnings.
LEMMA PreviewSeesMissedEarnings ==
    ASSUME TypeOK
    PROVE  PreviewLiquidationEligible <=>
              status \notin Terminal /\ ~settlement.isConfigured /\ LiquidationEligible
<1> DEFINE elapsed == now - earnings.lastEventTimestamp
           principal == CalculateBenchmarkEarningsPrincipal(coll, policy)
           benchmark == CalculateEarnings(principal, elapsed, TargetYieldBP)
           missed == ApplyRealizedVsBenchmarkToCollateral(coll, 0, benchmark, principal)
           c == IF coll.isLocked /\ earnings.lastEventTimestamp > 0 /\ elapsed > 0
                   /\ principal > 0
                THEN missed ELSE coll
<1>1. /\ coll \in CollateralInfo /\ policy \in Policy /\ now \in Nat
      /\ earnings.lastEventTimestamp \in Nat /\ elapsed \in Nat
      /\ TargetYieldBP \in Nat
  BY CollateralAssumption DEF TypeOK
<1>2. principal \in Nat
  BY <1>1, BenchmarkPrincipalNat
<1>3. benchmark \in Nat
  BY <1>1, <1>2, CalculateEarningsNat
<1>4. AfterMissedEarnings = IF MissedWindow /\ now > earnings.lastEventTimestamp
                            THEN [missed EXCEPT !.lastEventTimestamp = now] ELSE coll
  BY DEF AfterMissedEarnings, AfterEarnings
<1>5. missed \in CollateralInfo
  BY <1>1, <1>2, <1>3, ApplyRealizedConserves DEF OnlyReserves
<1>6. PreviewLiquidationEligible <=>
         /\ status \notin Terminal /\ ~settlement.isConfigured
         /\ Matured \/ ~IsSolvent(c)
  BY DEF PreviewLiquidationEligible
<1>7. principal = 0 => (IsSolvent(missed) <=> IsSolvent(coll))
  <2>1. ASSUME principal = 0 PROVE benchmark = 0
    BY <1>1, <2>1, NothingExpected
  <2> HIDE DEF principal, benchmark
  <2> QED
    BY <1>1, <1>2, <2>1, NothingMissed
<1> HIDE DEF principal, benchmark, missed
<1>8. IsSolvent([missed EXCEPT !.lastEventTimestamp = now]) <=> IsSolvent(missed)
  BY <1>5 DEF IsSolvent, CollateralInfo
<1>9. IsSolvent(AfterMissedEarnings) <=> IsSolvent(c)
  <2>1. elapsed > 0 <=> now > earnings.lastEventTimestamp
    BY <1>1
  <2>2. principal > 0 \/ principal = 0
    BY <1>2
  <2> QED
    BY <1>4, <1>7, <1>8, <2>1, <2>2 DEF MissedWindow
<1> QED
  BY <1>6, <1>9 DEF LiquidationEligible

\* previewLiquidationEligibility says "eligible" exactly when the liquidation
\* would go through.
THEOREM PreviewAlwaysMatches == Spec => []PreviewMatchesLiquidation
<1>1. IInv => PreviewMatchesLiquidation
  BY PreviewSeesMissedEarnings DEF IInv, PreviewMatchesLiquidation
<1> QED
  BY <1>1, Invariance, PTL

\* A distribution that tries a release pays what the preview of its net
\* earnings says, earnings left over from earlier periods included.
LEMMA AutoReleasePays ==
    ASSUME IInv, NEW r \in Revenues, DistributeEarnings(r, TRUE), NetEarnings(r) > 0
    PROVE  pending'.partner - pending.partner = PreviewCollateralRelease(NetEarnings(r))
<1> DEFINE net == NetEarnings(r)
           realized == UnprocessedEarnings(net)
           c == AfterEarnings(coll, policy, realized, now - coll.lastEventTimestamp)
           gross == GrossRelease(c, policy, now)
<1>1. /\ TypeOK /\ coll \in CollateralInfo /\ policy \in Policy /\ now \in Nat
      /\ coll.lockedAt <= now /\ now - coll.lastEventTimestamp \in Nat
  BY DEF IInv, TypeOK, CollateralInfo
<1>2. net \in Nat
  <2>1. r \in Nat /\ InvestorAmount(r) >= MIN_PROTOCOL_FEE /\ Tokens("investor") > 0
    BY TreasuryAssumption DEF DistributeEarnings
  <2> QED
    BY <1>1, <2>1, DistributionAmounts
<1>3. /\ realized \in Nat
      /\ net + (IF earnings.hasUnprocessed THEN earnings.unprocessed ELSE 0) = realized
  <2>1. earnings.unprocessed \in Nat /\ earnings.hasUnprocessed \in BOOLEAN
    BY <1>1 DEF TypeOK
  <2>2. ~earnings.hasUnprocessed => earnings.unprocessed = 0
    BY DEF IInv, UnprocessedOnlyIfFlagged
  <2> HIDE DEF net
  <2> QED
    BY <1>2, <2>1, <2>2 DEF UnprocessedEarnings
<1>4. /\ pending.partner \in Nat
      /\ gross \in Nat /\ ReleaseFee(gross) \in Nat
  <2>1. c \in CollateralInfo /\ c.lockedAt <= now
    BY <1>1, <1>3, AfterEarningsSameValue DEF SameValue
  <2>2. gross \in Nat
    BY <1>1, <2>1, GrossReleaseBound
  <2> QED
    BY <1>1, <2>2, ReleaseFeeBound DEF TypeOK
<1>5. PreviewCollateralRelease(net) = IF coll.isLocked THEN gross - ReleaseFee(gross) ELSE 0
  BY <1>3 DEF PreviewCollateralRelease
<1>6. CASE coll.isLocked
  <2>1. pending' = [pending EXCEPT
                      !.partner = @ + (gross - ReleaseFee(gross)),
                      !.fee = @ + CalculateProtocolFee(InvestorAmount(r))
                                + ReleaseFee(gross)]
    BY <1>6 DEF DistributeEarnings, ApplyRelease
  <2> HIDE DEF gross
  <2>2. pending'.partner = pending.partner + (gross - ReleaseFee(gross))
    BY <1>1, <2>1 DEF TypeOK
  <2> QED
    BY <1>4, <1>5, <1>6, <2>2
<1>7. CASE ~coll.isLocked
  <2>1. pending' = [pending EXCEPT !.fee = @ + CalculateProtocolFee(InvestorAmount(r))]
    BY <1>7 DEF DistributeEarnings
  <2>2. pending'.partner = pending.partner
    BY <1>1, <2>1 DEF TypeOK
  <2> QED
    BY <1>4, <1>5, <1>7, <2>2
<1> QED
  BY <1>6, <1>7

\* Every auto-release pays the partner exactly what the preview announced.
THEOREM AutoReleaseAlwaysAsPreviewed == Spec => AutoReleaseAsPreviewed
<1>1. IInv /\ [Next]_vars =>
        [\A r \in Revenues :
            DistributeEarnings(r, TRUE) /\ NetEarnings(r) > 0 =>
                pending'.partner - pending.partner
                   = PreviewCollateralRelease(NetEarnings(r))]_vars
  BY AutoReleasePays
<1>2. Spec => []IInv
  BY Invariance
<1> QED
  BY <1>1, <1>2, PTL DEF Spec, AutoReleaseAsPreviewed

-----------------------------------------------------------------------------
(* Depreciation and shares.                                                  *)

\* A quotient is the largest integer below.
LEMMA QuotientBound ==
    ASSUME NEW a \in Nat, NEW d \in Nat \ {0}, NEW q \in Int, d * q <= a
    PROVE  q <= a \div d
<1>1. a \div d \in Int /\ a < d * (a \div d) + d
    BY SMT
<1> DEFINE e == a \div d
<1> HIDE DEF e
<1>2. e \in Int /\ a < d * e + d
    BY <1>1 DEF e
<1>3. d * q < d * (e + 1)
    BY <1>2, SMT
<1>4. q < e + 1
    BY <1>2, <1>3, SMT
<1> QED
    BY <1>2, <1>4 DEF e

\* Depreciation in terms of the rate of a time.
LEMMA DepreciationIs ==
    ASSUME NEW x \in Nat, NEW t \in Nat
    PROVE  /\ 1200 * t \in Nat /\ 10000 * YEARLY_INTERVAL \in Nat \ {0}
           /\ x * (1200 * t) \in Nat
           /\ CalculateDepreciation(x, t) = (x * (1200 * t)) \div (10000 * YEARLY_INTERVAL)
           /\ CalculateDepreciation(x, t) \in Nat
           /\ (10000 * YEARLY_INTERVAL) * CalculateDepreciation(x, t) <= x * (1200 * t)
<1>1. 1200 * t \in Nat /\ 10000 * YEARLY_INTERVAL \in Nat \ {0} /\ x * (1200 * t) \in Nat
    BY CollateralAssumption, ProductNat
<1>2. (x * 1200) * t = x * (1200 * t)
    BY SMT
<1>3. CalculateDepreciation(x, t) = (x * (1200 * t)) \div (10000 * YEARLY_INTERVAL)
    BY <1>2 DEF CalculateDepreciation, DEPRECIATION_RATE_BP, BP_PRECISION
<1> QED
    BY <1>1, <1>3, DivisionTruncates

\* Whoever depreciates longer is worth no more.
LEMMA DepreciationGrows ==
    ASSUME NEW x \in Nat, NEW t \in Nat, NEW u \in Nat, t <= u
    PROVE  CalculateDepreciation(x, t) <= CalculateDepreciation(x, u)
<1> DEFINE d == 10000 * YEARLY_INTERVAL
           q == CalculateDepreciation(x, t)
<1>1. /\ d \in Nat \ {0} /\ q \in Nat /\ x * (1200 * t) \in Nat /\ x * (1200 * u) \in Nat
      /\ d * q <= x * (1200 * t)
      /\ CalculateDepreciation(x, u) = (x * (1200 * u)) \div d
    <2>1. d \in Nat \ {0} /\ q \in Nat /\ x * (1200 * t) \in Nat /\ d * q <= x * (1200 * t)
        BY DepreciationIs
    <2>2. x * (1200 * u) \in Nat
        BY DepreciationIs
    <2>3. CalculateDepreciation(x, u) = (x * (1200 * u)) \div d
        BY DepreciationIs
    <2> QED
        BY <2>1, <2>2, <2>3
<1>2. x * (1200 * t) <= x * (1200 * u)
    <2>1. u - t \in Nat /\ x * (1200 * (u - t)) \in Nat
        BY ProductNat
    <2>2. x * (1200 * u) = x * (1200 * t) + x * (1200 * (u - t))
        BY SMT
    <2> QED
        BY <1>1, <2>1, <2>2
<1> HIDE DEF d, q
<1>3. d * q \in Nat
    BY <1>1, ProductNat
<1>4. d * q <= x * (1200 * u)
    BY <1>1, <1>2, <1>3
<1>5. q <= (x * (1200 * u)) \div d
    BY <1>1, <1>4, QuotientBound
<1> QED
    BY <1>1, <1>5 DEF q

\* More principal depreciates by at least as much.
LEMMA MoreDepreciates ==
    ASSUME NEW x \in Nat, NEW z \in Nat, NEW t \in Nat
    PROVE  CalculateDepreciation(x, t) <= CalculateDepreciation(x + z, t)
<1> DEFINE d == 10000 * YEARLY_INTERVAL
           n == 1200 * t
           q == CalculateDepreciation(x, t)
<1>1. d \in Nat \ {0} /\ n \in Nat /\ q \in Nat /\ x * n \in Nat /\ d * q <= x * n
    BY DepreciationIs
<1>2. (x + z) * n \in Nat /\ CalculateDepreciation(x + z, t) = ((x + z) * n) \div d
    BY DepreciationIs
<1> HIDE DEF d, n, q
<1>3. d * q <= (x + z) * n
    <2>1. z * n \in Nat /\ d * q \in Nat
        BY <1>1, ProductNat
    <2>2. (x + z) * n = x * n + z * n
        BY <1>1, SMT
    <2> QED
        BY <1>1, <2>1, <2>2
<1>4. q <= ((x + z) * n) \div d
    BY <1>1, <1>2, <1>3, QuotientBound
<1> QED
    BY <1>2, <1>4 DEF q

\* What covers the depreciated price of some principal covers that of less.
LEMMA LessIsCovered ==
    ASSUME NEW y \in Nat, NEW x \in 0 .. y, NEW t \in Nat, NEW b \in Nat,
           b >= y - CalculateDepreciation(y, t)
    PROVE  b >= x - CalculateDepreciation(x, t)
<1> DEFINE d == 10000 * YEARLY_INTERVAL
           n == 1200 * t
           p == CalculateDepreciation(y, t)
<1>1. /\ d \in Nat \ {0} /\ n \in Nat /\ p \in Nat /\ x * n \in Nat /\ y * n \in Nat
      /\ d * p <= y * n /\ x \in Nat
      /\ CalculateDepreciation(x, t) = (x * n) \div d
    BY DepreciationIs
<1> HIDE DEF d, n, p
<1>2. CASE n >= d
    <2>1. d * x <= x * n
        BY <1>1, <1>2, SMT
    <2>2. x <= (x * n) \div d
        BY <1>1, <2>1, QuotientBound
    <2>3. (x * n) \div d \in Nat
        BY <1>1, DivisionTruncates
    <2> QED
        BY <1>1, <2>2, <2>3
<1>3. CASE n < d
    <2>1. d * (p - (y - x)) <= x * n
        <3>1. (y - x) * n <= d * (y - x)
            BY <1>1, <1>3, SMT
        <3>2. y * n = x * n + (y - x) * n /\ d * (p - (y - x)) = d * p - d * (y - x)
            BY <1>1, SMT
        <3>3. d * p \in Nat /\ d * (y - x) \in Nat /\ (y - x) * n \in Nat
            BY <1>1, ProductNat
        <3> QED
            BY <1>1, <3>1, <3>2, <3>3
    <2>2. p - (y - x) <= (x * n) \div d
        BY <1>1, <2>1, QuotientBound
    <2>3. (x * n) \div d \in Nat
        BY <1>1, DivisionTruncates
    <2> QED
        BY <1>1, <2>2, <2>3 DEF p
<1> QED
    BY <1>1, <1>2, <1>3

\* Who redeems a share of the escrow leaves the others theirs.
LEMMA RedemptionLeavesShare ==
    ASSUME NEW price \in Nat, NEW s \in Nat \ {0}, NEW a \in 1 .. s, NEW t \in Nat,
           NEW b \in Nat, b >= s * price - CalculateDepreciation(s * price, t),
           NEW payout \in 0 .. b, s * payout <= a * b
    PROVE  b - payout >= (s - a) * price - CalculateDepreciation((s - a) * price, t)
<1> DEFINE d == 10000 * YEARLY_INTERVAL
           n == 1200 * t
           m == s - a
           p == CalculateDepreciation(s * price, t)
           w == m * price - (b - payout)
<1>1. /\ m \in Nat /\ s * price \in Nat /\ m * price \in Nat
    BY ProductNat
<1>2. /\ d \in Nat \ {0} /\ n \in Nat /\ p \in Nat /\ (s * price) * n \in Nat
      /\ (m * price) * n \in Nat
      /\ d * p <= (s * price) * n
      /\ CalculateDepreciation(m * price, t) = ((m * price) * n) \div d
    BY <1>1, DepreciationIs
<1>3. /\ b \in Nat /\ payout \in Nat /\ payout <= b /\ b >= s * price - p /\ a = s - m
      /\ a \in Nat
    BY <1>1
<1> HIDE DEF d, n, p, m
<1>4. w \in Int
    BY <1>1, <1>3
\* s * (b - payout) >= m * b >= m * (s * price - p)
<1>5. s * w <= m * p
    <2>1. s * w = s * (m * price) - s * b + s * payout
        BY <1>1, <1>3, SMT
    <2>2. a * b = s * b - m * b
        BY <1>1, <1>3, SMT
    <2>3. m * (s * price - p) <= m * b
        BY <1>1, <1>2, <1>3, SMT
    <2>4. m * (s * price - p) = s * (m * price) - m * p
        BY <1>1, <1>2, SMT
    <2>5. /\ s * (m * price) \in Nat /\ s * b \in Nat /\ s * payout \in Nat /\ m * b \in Nat
          /\ m * p \in Nat
        BY <1>1, <1>2, <1>3, ProductNat
    <2> HIDE DEF w
    <2>6. s * w \in Int /\ m * (s * price - p) \in Int
        BY <1>1, <1>2, <1>4, SMT
    <2> QED
        BY <2>1, <2>2, <2>3, <2>4, <2>5, <2>6
<1> HIDE DEF w
<1>6. d * w <= (m * price) * n
    <2>1. d * (s * w) <= d * (m * p)
        BY <1>1, <1>2, <1>4, <1>5, SMT
    <2>2. d * (m * p) = m * (d * p)
        BY <1>1, <1>2, SMT
    <2>3. m * (d * p) <= m * ((s * price) * n)
        BY <1>1, <1>2, SMT
    <2>4. m * ((s * price) * n) = s * ((m * price) * n) /\ d * (s * w) = s * (d * w)
        BY <1>1, <1>2, <1>4, SMT
    <2>5. s * (d * w) <= s * ((m * price) * n)
        BY <2>1, <2>2, <2>3, <2>4, <1>1, <1>2, <1>4, SMT
    <2>6. d * w \in Int
        BY <1>2, <1>4
    <2> DEFINE l == d * w  r == (m * price) * n
    <2> HIDE DEF l, r
    <2>7. l \in Int /\ r \in Nat /\ s * l <= s * r
        BY <1>2, <2>5, <2>6 DEF l, r
    <2>8. l <= r
        BY <2>7, SMT
    <2> QED
        BY <2>8 DEF l, r
<1>7. w <= ((m * price) * n) \div d
    BY <1>2, <1>4, <1>6, QuotientBound
<1>8. ((m * price) * n) \div d \in Nat
    BY <1>2, DivisionTruncates
<1>9. m * price - (b - payout) <= CalculateDepreciation(m * price, t)
    BY <1>2, <1>7 DEF w
<1> QED
    BY <1>1, <1>2, <1>3, <1>8, <1>9 DEF m

-----------------------------------------------------------------------------
(* The escrow of a pool without immediate proceeds.                          *)

DepreciationTime == IF coll.lockedAt = 0 THEN 0 ELSE now - coll.lockedAt

\* What makes up the escrow of a pool that hands out no proceeds: no token is
\* left behind in a former epoch, the backing is never behind the base, and
\* the principal covers the price of every token.
Escrow ==
    /\ \A k \in Class : old[k] = 0
    /\ coll.baseCollateral <= backed
    /\ coll.releasedProtectedBase = 0
    /\ Supply * TokenPrice <= coll.unredeemedBasePrincipal
    /\ coll.baseCollateral >= Supply * TokenPrice
                              - CalculateDepreciation(Supply * TokenPrice, DepreciationTime)

EscrowInv ==
    /\ IInv
    /\ status = "Pending" => ~policy.immediateProceeds
    /\ status = "Expired" => settlement.isConfigured
    /\ ~policy.immediateProceeds /\ ~settlement.isConfigured => Escrow

LEMMA EscrowTypes ==
    ASSUME TypeOK
    PROVE  /\ DepreciationTime \in Nat /\ Supply \in Nat /\ Supply * TokenPrice \in Nat
           /\ coll.baseCollateral \in Nat /\ coll.unredeemedBasePrincipal \in Nat
           /\ TokenPrice \in Nat \ {0} /\ backed \in Nat
           /\ CalculateDepreciation(Supply * TokenPrice, DepreciationTime) \in Nat
<1>1. /\ DepreciationTime \in Nat /\ Supply \in Nat /\ TokenPrice \in Nat \ {0}
      /\ coll.baseCollateral \in Nat /\ coll.unredeemedBasePrincipal \in Nat
      /\ backed \in Nat
    BY SupplyNat, TreasuryAssumption DEF TypeOK, CollateralInfo, DepreciationTime
<1>2. Supply * TokenPrice \in Nat
    BY <1>1, ProductNat
<1> QED
    BY <1>1, <1>2, CalculateDepreciationNat

\* Fewer tokens, and more time, ask for no more than what is there.
LEMMA FewerAreCovered ==
    ASSUME NEW s \in Nat, NEW r \in 0 .. s, NEW t \in Nat, NEW u \in Nat, t <= u,
           NEW b \in Nat, b >= s * TokenPrice - CalculateDepreciation(s * TokenPrice, t)
    PROVE  /\ r * TokenPrice <= s * TokenPrice
           /\ b >= r * TokenPrice - CalculateDepreciation(r * TokenPrice, u)
<1>1. TokenPrice \in Nat /\ r \in Nat
    BY TreasuryAssumption
<1>2. /\ r * TokenPrice \in Nat /\ s * TokenPrice \in Nat /\ r * TokenPrice <= s * TokenPrice
    <2>1. (s - r) * TokenPrice \in Nat /\ r * TokenPrice \in Nat /\ s * TokenPrice \in Nat
        BY <1>1, ProductNat
    <2>2. s * TokenPrice = r * TokenPrice + (s - r) * TokenPrice
        BY <1>1, SMT
    <2> QED
        BY <2>1, <2>2
<1>3. r * TokenPrice \in 0 .. s * TokenPrice
    BY <1>2
<1>4. b >= r * TokenPrice - CalculateDepreciation(r * TokenPrice, t)
    BY <1>2, <1>3, LessIsCovered
<1>5. /\ CalculateDepreciation(r * TokenPrice, t) <= CalculateDepreciation(r * TokenPrice, u)
      /\ CalculateDepreciation(r * TokenPrice, t) \in Nat
      /\ CalculateDepreciation(r * TokenPrice, u) \in Nat
    BY <1>2, DepreciationGrows, CalculateDepreciationNat
<1> QED
    BY <1>2, <1>4, <1>5

\* Steps that leave the escrow alone.
LEMMA EscrowKept ==
    ASSUME Escrow, TypeOK, TypeOK', Supply' <= Supply, DepreciationTime <= DepreciationTime',
           coll'.baseCollateral = coll.baseCollateral,
           coll'.releasedProtectedBase = coll.releasedProtectedBase,
           coll'.unredeemedBasePrincipal = coll.unredeemedBasePrincipal,
           backed' = backed, \A k \in Class : old'[k] = 0
    PROVE  Escrow'
<1> DEFINE s == Supply  r == Supply'  t == DepreciationTime  u == DepreciationTime'
           b == coll.baseCollateral
<1>1. /\ s \in Nat /\ r \in Nat /\ r <= s /\ t \in Nat /\ u \in Nat /\ b \in Nat
      /\ r * TokenPrice \in Nat /\ s * TokenPrice \in Nat
      /\ coll.unredeemedBasePrincipal \in Nat
    <2>1. s \in Nat /\ t \in Nat /\ b \in Nat /\ s * TokenPrice \in Nat
          /\ coll.unredeemedBasePrincipal \in Nat
        BY EscrowTypes
    <2>2. r \in Nat /\ u \in Nat
        <3>1. r \in Nat
            BY DEF TypeOK, Supply, Tokens, Class
        <3>2. u \in Nat
            BY DEF TypeOK, CollateralInfo, DepreciationTime
        <3> QED
            BY <3>1, <3>2
    <2>3. r * TokenPrice \in Nat
        BY <2>2, TreasuryAssumption, ProductNat
    <2> QED
        BY <2>1, <2>2, <2>3
<1>2. b >= s * TokenPrice - CalculateDepreciation(s * TokenPrice, t)
      /\ s * TokenPrice <= coll.unredeemedBasePrincipal
    BY DEF Escrow
<1>3. t <= u
    OBVIOUS
<1> HIDE DEF s, r, t, u, b
<1>4. /\ r * TokenPrice <= s * TokenPrice
      /\ b >= r * TokenPrice - CalculateDepreciation(r * TokenPrice, u)
    BY <1>1, <1>2, <1>3, FewerAreCovered
<1>5. r * TokenPrice <= coll.unredeemedBasePrincipal
    BY <1>1, <1>2, <1>4
<1> QED
    BY <1>4, <1>5 DEF Escrow, s, r, t, u, b

\* What is bought is escrowed in full.
LEMMA EscrowBought ==
    ASSUME EscrowInv, IInv', NEW k \in Class, NEW n \in 1 .. MaxSupply,
           BuyFromPrimaryPool(k, n), Escrow
    PROVE  Escrow'
<1> DEFINE x == n * TokenPrice
           s == Supply
           t == DepreciationTime
<1>1. /\ TypeOK /\ TypeOK' /\ n \in Nat /\ k \in Class
      /\ TokenPrice \in Nat
    BY TreasuryAssumption DEF EscrowInv, IInv
<1>2. x \in Nat
    BY <1>1, ProductNat
<1>3. /\ coll' = [coll EXCEPT !.baseCollateral = @ + x,
                              !.unredeemedBasePrincipal = @ + x,
                              !.lastEventTimestamp = now]
      /\ cur' = [cur EXCEPT ![k] = @ + n] /\ old' = old
      /\ backed' = backed + x /\ now' = now
    BY DEF BuyFromPrimaryPool
<1>4. /\ coll'.baseCollateral = coll.baseCollateral + x
      /\ coll'.unredeemedBasePrincipal = coll.unredeemedBasePrincipal + x
      /\ coll'.releasedProtectedBase = coll.releasedProtectedBase
      /\ coll'.lockedAt = coll.lockedAt
    BY <1>1, <1>3 DEF TypeOK, CollateralInfo
<1>5. Supply' = s + n
    <2>1. cur \in [Class -> Nat] /\ old \in [Class -> Nat]
        BY <1>1 DEF TypeOK
    <2>2. cur'[k] = cur[k] + n /\ \A l \in Class \ {k} : cur'[l] = cur[l]
        BY <1>3, <2>1
    <2> QED
        BY <1>1, <1>3, <2>1, <2>2 DEF Supply, Tokens, Class
<1>6. DepreciationTime' = t
    BY <1>3, <1>4 DEF DepreciationTime
<1>7. /\ s \in Nat /\ s * TokenPrice \in Nat /\ t \in Nat
      /\ coll.baseCollateral \in Nat /\ coll.unredeemedBasePrincipal \in Nat /\ backed \in Nat
    BY <1>1, EscrowTypes
<1>8. (s + n) * TokenPrice = s * TokenPrice + x
    BY <1>1, <1>7, SMT
<1>9. /\ CalculateDepreciation(s * TokenPrice, t)
            <= CalculateDepreciation(s * TokenPrice + x, t)
      /\ CalculateDepreciation(s * TokenPrice, t) \in Nat
      /\ CalculateDepreciation(s * TokenPrice + x, t) \in Nat
    <2> DEFINE y == s * TokenPrice
    <2>1. y \in Nat /\ y + x \in Nat /\ t \in Nat /\ x \in Nat
        BY <1>2, <1>7
    <2> HIDE DEF y, x, t
    <2>2. CalculateDepreciation(y, t) <= CalculateDepreciation(y + x, t)
        BY <2>1, MoreDepreciates
    <2>3. CalculateDepreciation(y, t) \in Nat /\ CalculateDepreciation(y + x, t) \in Nat
        BY <2>1, CalculateDepreciationNat
    <2> QED
        BY <2>2, <2>3 DEF y
<1>10. /\ coll.baseCollateral >= s * TokenPrice - CalculateDepreciation(s * TokenPrice, t)
       /\ s * TokenPrice <= coll.unredeemedBasePrincipal
       /\ coll.baseCollateral <= backed
       /\ coll.releasedProtectedBase = 0 /\ \A l \in Class : old[l] = 0
    BY DEF Escrow
<1> HIDE DEF x, s, t
<1> QED
    BY <1>2, <1>3, <1>4, <1>5, <1>6, <1>7, <1>8, <1>9, <1>10 DEF Escrow

\* A redemption takes its share of the base, and no more.
LEMMA EscrowRedeemed ==
    ASSUME EscrowInv, IInv', NEW k \in Class, NEW n \in 1 .. MaxSupply,
           RedeemPrimaryPool(k, n), Escrow
    PROVE  Escrow'
<1> DEFINE payout == RedemptionPayout(n)
           x == n * TokenPrice
           s == Supply
           t == DepreciationTime
           b == coll.baseCollateral
           c == [coll EXCEPT !.baseCollateral = @ - payout,
                             !.unredeemedBasePrincipal = Monus(@, x)]
           newCur == [cur EXCEPT ![k] = @ - n]
<1>1. /\ TypeOK /\ TypeOK' /\ n \in Nat /\ n > 0 /\ TokenPrice \in Nat
      /\ n <= cur[k] /\ cur \in [Class -> Nat] /\ old \in [Class -> Nat]
    BY TreasuryAssumption DEF EscrowInv, IInv, RedeemPrimaryPool, TypeOK
<1>2. x \in Nat
    BY <1>1, ProductNat
<1>3. /\ \A l \in Class : old[l] = 0
      /\ b <= backed
      /\ coll.releasedProtectedBase = 0
      /\ s * TokenPrice <= coll.unredeemedBasePrincipal
      /\ b >= s * TokenPrice - CalculateDepreciation(s * TokenPrice, t)
    BY DEF Escrow
<1>4. /\ s \in Nat /\ s * TokenPrice \in Nat /\ t \in Nat
      /\ b \in Nat /\ coll.unredeemedBasePrincipal \in Nat /\ backed \in Nat
    BY <1>1, EscrowTypes
\* Without former epochs, the current one is all there is.
<1>5. s = EpochSupply /\ n <= s /\ s > 0
    <2>1. cur["partner"] \in Nat /\ cur["investor"] \in Nat
          /\ old["partner"] = 0 /\ old["investor"] = 0
        BY <1>1, <1>3 DEF Class
    <2> QED
        BY <1>1, <2>1 DEF Supply, Tokens, EpochSupply, Class
<1>6. payout = (n * b) \div s
    BY <1>5 DEF RedemptionPayout
<1>7. /\ payout > 0 /\ payout <= b
      /\ coll' = [c EXCEPT !.releasedBaseCollateral = ReconciledReleasedBase(c)]
      /\ RollEpochIfExhausted(newCur, Monus(backed, payout))
      /\ now' = now
    BY DEF RedeemPrimaryPool
<1> HIDE DEF payout, x, s, t, b
<1>8. payout \in Nat /\ s * payout <= n * b
    <2>1. n * b \in Nat
        BY <1>1, <1>4, ProductNat
    <2> QED
        BY <1>4, <1>5, <1>6, <2>1, DivisionTruncates
<1>9. /\ coll'.baseCollateral = b - payout
      /\ coll'.unredeemedBasePrincipal = Monus(coll.unredeemedBasePrincipal, x)
      /\ coll'.releasedProtectedBase = coll.releasedProtectedBase
      /\ coll'.lockedAt = coll.lockedAt
    <2>1. /\ c.baseCollateral = b - payout
          /\ c.unredeemedBasePrincipal = Monus(coll.unredeemedBasePrincipal, x)
          /\ c.releasedProtectedBase = coll.releasedProtectedBase
          /\ c.lockedAt = coll.lockedAt
          /\ DOMAIN c = DOMAIN coll
        BY <1>1 DEF TypeOK, CollateralInfo, b
    <2> QED
        BY <1>1, <1>7, <2>1 DEF TypeOK, CollateralInfo
<1>10. DepreciationTime' = t
    BY <1>7, <1>9 DEF DepreciationTime, t
<1>11. /\ newCur \in [Class -> Nat]
       /\ newCur["partner"] + newCur["investor"] = s - n
    <2>1. newCur[k] = cur[k] - n /\ \A l \in Class \ {k} : newCur[l] = cur[l]
        BY <1>1
    <2>2. newCur \in [Class -> Nat]
        BY <1>1
    <2>3. s = cur["partner"] + cur["investor"]
        BY <1>5 DEF EpochSupply
    <2> QED
        BY <1>1, <2>1, <2>2, <2>3 DEF Class
<1> HIDE DEF newCur
\* While somebody holds tokens and base is left, the epoch goes on.
<1>12. /\ \A l \in Class : old'[l] = 0
       /\ Supply' = s - n
       /\ b - payout <= backed'
    <2>1. CASE s - n > 0 /\ Monus(backed, payout) > 0
        <3>1. cur' = newCur /\ old' = old /\ backed' = Monus(backed, payout)
            BY <1>7, <1>11, <2>1 DEF RollEpochIfExhausted
        <3> QED
            BY <1>3, <1>4, <1>8, <1>11, <3>1 DEF Supply, Tokens, Monus, Class
    <2>2. CASE s - n = 0
        <3>1. /\ cur' = [l \in Class |-> 0] /\ backed' = 0
              /\ old' = [l \in Class |-> old[l] + newCur[l]]
            BY <1>7, <1>11, <2>2 DEF RollEpochIfExhausted
        <3>2. newCur["partner"] = 0 /\ newCur["investor"] = 0
            <4>1. newCur["partner"] \in Nat /\ newCur["investor"] \in Nat
                BY <1>11 DEF Class
            <4> QED
                BY <1>11, <2>2, <4>1
        <3>3. payout = b
            <4>1. n = s
                BY <1>1, <1>4, <2>2
            <4>2. (s * b) \div s = b
                <5>1. b <= (s * b) \div s
                    BY <1>4, <1>5, ProductNat, QuotientBound
                <5>2. s * ((s * b) \div s) <= s * b /\ (s * b) \div s \in Nat
                    BY <1>4, <1>5, ProductNat, DivisionTruncates
                <5> DEFINE q == (s * b) \div s
                <5> HIDE DEF q
                <5>3. q \in Nat /\ s * q <= s * b /\ b <= q
                    BY <5>1, <5>2 DEF q
                <5>4. q <= b
                    BY <1>4, <1>5, <5>3, SMT
                <5> QED
                    BY <1>4, <5>3, <5>4 DEF q
            <4> QED
                BY <1>6, <4>1, <4>2
        <3> QED
            BY <1>3, <1>4, <2>2, <3>1, <3>2, <3>3 DEF Supply, Tokens, Class
    <2>3. CASE s - n > 0 /\ ~(Monus(backed, payout) > 0)
        <3>1. backed = payout /\ b = payout
            BY <1>3, <1>4, <1>7, <1>8, <2>3 DEF Monus
        <3>2. s * b <= n * b /\ b > 0
            BY <1>7, <1>8, <3>1
        <3>3. n >= s
            BY <1>1, <1>4, <3>2, SMT
        <3> QED
            BY <1>1, <1>4, <2>3, <3>3
    <2> QED
        BY <1>1, <1>4, <1>5, <2>1, <2>2, <2>3
<1>13. b - payout >= (s - n) * TokenPrice - CalculateDepreciation((s - n) * TokenPrice, t)
    BY <1>1, <1>3, <1>4, <1>5, <1>7, <1>8, RedemptionLeavesShare
<1>14. (s - n) * TokenPrice <= Monus(coll.unredeemedBasePrincipal, x)
    <2>1. (s - n) * TokenPrice = s * TokenPrice - x
        BY <1>1, <1>4, SMT DEF x
    <2> QED
        BY <1>2, <1>3, <1>4, <2>1 DEF Monus
<1> QED
    BY <1>3, <1>9, <1>10, <1>12, <1>13, <1>14 DEF Escrow

\* A release never goes below the depreciated principal.
LEMMA EscrowReleased ==
    ASSUME EscrowInv, IInv', NEW period \in Nat, NEW realized \in Nat, NEW paid \in Nat,
           coll.isLocked, ApplyRelease(period, realized, paid),
           UNCHANGED <<now, policy, tokenVars>>, ~policy.immediateProceeds, Escrow
    PROVE  Escrow'
<1> DEFINE c == AfterEarnings(coll, policy, realized, now - coll.lastEventTimestamp)
           gross == GrossRelease(c, policy, now)
           u == coll.unredeemedBasePrincipal
           b == coll.baseCollateral
           l == coll.releasedBaseCollateral
           t == DepreciationTime
           y == Supply * TokenPrice
<1>1. /\ TypeOK /\ TypeOK' /\ now \in Nat /\ coll \in CollateralInfo /\ policy \in Policy
      /\ now - coll.lastEventTimestamp \in Nat /\ coll.lockedAt <= now
      /\ PrincipalAccounted /\ coll.lockedAt > 0
    BY DEF EscrowInv, IInv, TypeOK, CollateralInfo, LockedHasClocks
<1>2. SameValue(c)
    BY <1>1, AfterEarningsSameValue
<1>3. /\ c \in CollateralInfo /\ c.lockedAt = coll.lockedAt /\ c.baseCollateral = b
      /\ c.unredeemedBasePrincipal = u /\ c.releasedBaseCollateral = l
      /\ c.releasedProtectedBase = coll.releasedProtectedBase
    BY <1>2 DEF SameValue
<1>4. /\ gross \in Nat /\ gross <= b
    BY <1>1, <1>3, GrossReleaseBound
<1>5. coll' = [c EXCEPT !.baseCollateral = @ - gross,
                        !.releasedBaseCollateral = @ + gross,
                        !.lastEventTimestamp = now]
    BY DEF ApplyRelease
<1>6. /\ b \in Nat /\ u \in Nat /\ l \in Nat /\ t \in Nat /\ y \in Nat /\ Supply \in Nat
      /\ backed \in Nat /\ t = now - coll.lockedAt
    BY <1>1, EscrowTypes DEF CollateralInfo, DepreciationTime
<1>7. CalculateDepreciation(u, t) \in Nat /\ CalculateDepreciation(y, t) \in Nat
    BY <1>6, CalculateDepreciationNat
<1>8. gross <= Monus(CalculateDepreciation(u, t), l)
    <2>1. CalculateCollateralRelease(c, now) <= Monus(CalculateDepreciation(u, t), l)
        BY <1>3, <1>6, <1>7 DEF CalculateCollateralRelease, Lesser, Monus
    <2>2. CalculateCollateralRelease(c, now) \in Nat
        BY <1>3, <1>6, <1>7 DEF CalculateCollateralRelease, Lesser, Monus
    <2>3. CalculateCoverableBaseCollateral(c, policy) \in Nat
        BY <1>1, <1>3, CoverableBaseBound
    <2>4. TotalCollateral(c) \in Nat
        BY <1>3 DEF TotalCollateral, CollateralInfo
    <2>5. Monus(CalculateDepreciation(u, t), l) \in Nat
        BY <1>6, <1>7 DEF Monus
    <2> QED
        BY <2>1, <2>2, <2>3, <2>4, <2>5 DEF GrossRelease, Lesser
<1>9. /\ y <= u /\ b >= y - CalculateDepreciation(y, t) /\ b <= backed
      /\ coll.releasedProtectedBase = 0
      /\ u <= b + l
    BY <1>1, <1>6 DEF Escrow, PrincipalAccounted
<1> HIDE DEF c, gross, u, b, l, t, y
<1>10. /\ coll'.baseCollateral = b - gross
       /\ coll'.unredeemedBasePrincipal = u
       /\ coll'.releasedProtectedBase = coll.releasedProtectedBase
       /\ coll'.lockedAt = coll.lockedAt
    BY <1>3, <1>5 DEF CollateralInfo
<1>11. DepreciationTime' = t /\ Supply' = Supply /\ backed' = backed /\ old' = old
    BY <1>10 DEF DepreciationTime, t, Supply, Tokens, tokenVars
<1>12. b - gross >= y - CalculateDepreciation(y, t)
    <2>1. CASE gross = 0
        BY <1>6, <1>9, <2>1
    <2>2. CASE gross > 0
        <3>1. gross <= CalculateDepreciation(u, t) - l
            BY <1>4, <1>6, <1>7, <1>8, <2>2 DEF Monus
        <3>2. b - gross \in Nat /\ b - gross >= u - CalculateDepreciation(u, t)
            BY <1>4, <1>6, <1>7, <1>9, <3>1
        <3>3. y \in 0 .. u
            BY <1>6, <1>9
        <3> QED
            BY <1>6, <3>2, <3>3, LessIsCovered
    <2> QED
        BY <1>4, <2>1, <2>2
<1>13. b - gross <= backed'
    BY <1>4, <1>6, <1>9, <1>11
<1>14. \A k \in Class : old'[k] = 0
    BY <1>11 DEF Escrow
<1> QED
    BY <1>9, <1>10, <1>11, <1>12, <1>13, <1>14 DEF Escrow, y

\* Buffers are paid on top of the base; the clock of depreciation starts once.
LEMMA EscrowEnabled ==
    ASSUME EscrowInv, IInv', EnableProceeds, ~policy.immediateProceeds, Escrow
    PROVE  Escrow'
<1> DEFINE e == DueEarningsBuffer
           p == DueProtocolBuffer
           c == FundedCollateral(e, p)
<1>1. /\ TypeOK /\ TypeOK' /\ e \in Nat /\ p \in Nat /\ coll \in CollateralInfo
      /\ now \in Nat \ {0}
    BY DueNat DEF EscrowInv, IInv, TypeOK
<1>2. /\ coll' = [c EXCEPT !.baseCollateral = @ - 0, !.releasedProtectedBase = @ + 0]
      /\ UNCHANGED <<now, tokenVars>>
      /\ ProtectedExposure(coll, policy) > 0
    BY DEF EnableProceeds, Enable, Proceeds
<1>3. TotalCollateral(coll) # 0
    <2>1. coll.baseCollateral > 0
        BY <1>1, <1>2 DEF ProtectedExposure, CollateralInfo
    <2> QED
        BY <1>1, <2>1 DEF TotalCollateral, CollateralInfo
<1>4. \/ c = coll
      \/ c = [coll EXCEPT !.earningsBuffer = @ + e, !.protocolBuffer = @ + p,
                          !.isLocked = TRUE, !.lockedAt = IF @ = 0 THEN now ELSE @,
                          !.lastEventTimestamp = now]
    BY <1>1, <1>3 DEF FundedCollateral
<1> HIDE DEF c, e, p
<1>5. /\ DOMAIN c = DOMAIN coll
      /\ c.baseCollateral = coll.baseCollateral
      /\ c.unredeemedBasePrincipal = coll.unredeemedBasePrincipal
      /\ c.releasedProtectedBase = coll.releasedProtectedBase
      /\ c.lockedAt \in {coll.lockedAt, now}
      /\ coll.lockedAt # 0 => c.lockedAt = coll.lockedAt
    BY <1>1, <1>4 DEF CollateralInfo
<1>6. /\ coll'.baseCollateral = coll.baseCollateral
      /\ coll'.unredeemedBasePrincipal = coll.unredeemedBasePrincipal
      /\ coll'.releasedProtectedBase = coll.releasedProtectedBase
      /\ coll'.lockedAt = c.lockedAt
    BY <1>1, <1>2, <1>5 DEF CollateralInfo
<1>7. DepreciationTime <= DepreciationTime'
    BY <1>1, <1>2, <1>5, <1>6 DEF DepreciationTime, TypeOK, CollateralInfo
<1>8. /\ Supply' <= Supply /\ backed' = backed /\ \A k \in Class : old'[k] = 0
    <2>1. Supply \in Nat /\ Supply' = Supply
        BY <1>1, <1>2, EscrowTypes DEF Supply, Tokens, tokenVars
    <2> QED
        BY <1>2, <2>1 DEF tokenVars, Escrow
<1> QED
    BY <1>1, <1>6, <1>7, <1>8, EscrowKept

\* Steps that touch neither the base nor its clock.
LEMMA EscrowUnmoved ==
    ASSUME EscrowInv, IInv', coll' = coll, policy' = policy, backed' = backed, now' = now,
           settlement' = settlement, status' = status \/ status' = "Retired",
           Supply' <= Supply, (\A k \in Class : old[k] = 0) => \A k \in Class : old'[k] = 0
    PROVE  EscrowInv'
<1>1. TypeOK /\ TypeOK'
    BY DEF EscrowInv, IInv
<1>2. ASSUME ~policy.immediateProceeds, ~settlement'.isConfigured PROVE Escrow'
    <2>1. Escrow
        BY <1>2 DEF EscrowInv
    <2>2. DepreciationTime \in Nat /\ DepreciationTime' = DepreciationTime
        BY <1>1, EscrowTypes DEF DepreciationTime
    <2>3. \A k \in Class : old'[k] = 0
        BY <2>1 DEF Escrow
    <2> QED
        BY <1>1, <2>1, <2>2, <2>3, EscrowKept
<1> QED
    BY <1>2 DEF EscrowInv

\* With a settlement there is nothing left to say of the escrow.
LEMMA EscrowOver ==
    ASSUME IInv', settlement'.isConfigured, status' # "Pending"
    PROVE  EscrowInv'
BY DEF EscrowInv

\* Without tokens it may be freed.
LEMMA EscrowFreed ==
    ASSUME TypeOK, TypeOK', Escrow, coll' = Cleared(coll), Supply' = 0,
           \A k \in Class : old'[k] = 0
    PROVE  Escrow'
<1>1. /\ coll'.baseCollateral = 0 /\ coll'.unredeemedBasePrincipal = 0
      /\ coll'.releasedProtectedBase = 0
    BY ClearedFacts DEF TypeOK
<1>2. 0 * TokenPrice = 0
    BY TreasuryAssumption
<1>3. DepreciationTime' \in Nat /\ backed' \in Nat
    BY DEF TypeOK, CollateralInfo, DepreciationTime
<1>4. CalculateDepreciation(0, DepreciationTime') \in Nat
    BY <1>3, CalculateDepreciationNat
<1> QED
    BY <1>1, <1>2, <1>3, <1>4 DEF Escrow

LEMMA EscrowStep == EscrowInv /\ [Next]_vars => EscrowInv'
<1> SUFFICES ASSUME EscrowInv, [Next]_vars PROVE EscrowInv'
    OBVIOUS
<1>1. /\ TypeOK /\ IInv' /\ TypeOK' /\ Supply \in Nat
    BY NextPreserves, SupplyNat DEF EscrowInv, IInv
<1>2. ASSUME UNCHANGED <<coll, policy, backed, now, cur, old, settlement>>,
             status' = status \/ status' = "Retired"
      PROVE  EscrowInv'
    <2>1. Supply' = Supply
        BY <1>2 DEF Supply, Tokens
    <2>2. Supply' <= Supply
        BY <1>1, <2>1
    <2>3. (\A k \in Class : old[k] = 0) => \A k \in Class : old'[k] = 0
        BY <1>2
    <2> QED
        BY <1>1, <1>2, <2>2, <2>3, EscrowUnmoved
\* Steps of an operational asset that keep its policy.
<1>3. ASSUME policy' = policy, status' \in Operational, settlement' = settlement,
             ~policy.immediateProceeds /\ Escrow => Escrow'
      PROVE  EscrowInv'
    BY <1>1, <1>3 DEF EscrowInv, Operational
<1>4. CASE PoolStep
    <2>1. ASSUME NEW p \in Policies, NEW m \in MaturityDates, CreatePool(p, m)
          PROVE  EscrowInv'
        <3>1. /\ status = "Pending" /\ status' = "Active"
              /\ UNCHANGED <<now, coll, cur, old, backed, settlement>>
            BY <2>1 DEF CreatePool, tokenVars
        <3>2. Escrow
            BY <3>1 DEF EscrowInv, IInv, SettledIsFinal, Terminal
        <3>3. Escrow'
            BY <3>1, <3>2 DEF Escrow, Supply, Tokens, DepreciationTime
        <3> QED
            BY <1>1, <3>1, <3>3 DEF EscrowInv
    <2>2. CASE PausePool \/ UnpausePool \/ ClosePool
        BY <1>2, <2>2 DEF PausePool, UnpausePool, ClosePool, SetPoolState, tokenVars
    <2>3. ASSUME NEW k \in Buyers, NEW n \in 1 .. MaxSupply, BuyFromPrimaryPool(k, n)
          PROVE  EscrowInv'
        <3>1. k \in Class
            BY TreasuryAssumption DEF Class
        <3>2. policy' = policy /\ status' \in Operational /\ settlement' = settlement
            BY <2>3 DEF BuyFromPrimaryPool, MarketOpen, PromotedStatus, Operational
        <3>3. Escrow => Escrow'
            BY <1>1, <2>3, <3>1, EscrowBought
        <3> QED
            BY <1>3, <3>2, <3>3
    <2>4. ASSUME NEW k \in Class, NEW n \in 1 .. MaxSupply, RedeemPrimaryPool(k, n)
          PROVE  EscrowInv'
        <3>1. policy' = policy /\ status' \in Operational /\ settlement' = settlement
            BY <2>4 DEF RedeemPrimaryPool, MarketOpen, assetVars
        <3>2. Escrow => Escrow'
            BY <1>1, <2>4, EscrowRedeemed
        <3> QED
            BY <1>3, <3>1, <3>2
    <2> QED
        BY <1>4, <2>1, <2>2, <2>3, <2>4 DEF PoolStep
<1>5. CASE CollateralStep
    <2>1. ASSUME NEW period \in Nat, NEW realized \in Nat, NEW paid \in Nat, coll.isLocked,
                 ApplyRelease(period, realized, paid),
                 UNCHANGED <<now, assetVars, tokenVars, settlement>>
          PROVE  EscrowInv'
        <3>1. status' = status /\ policy' = policy /\ now' = now /\ settlement' = settlement
            BY <2>1 DEF assetVars
        <3>2. ~policy.immediateProceeds /\ Escrow => Escrow'
            BY <1>1, <2>1, <3>1, EscrowReleased
        <3> QED
            BY <1>1, <3>1, <3>2 DEF EscrowInv
    <2>2. CASE EnableProceeds
        <3>1. /\ policy' = policy /\ settlement' = settlement
              /\ status' = status \/ (status = "Active" /\ status' = "Earning")
            BY <2>2 DEF EnableProceeds, Enable, PromotedStatus
        <3>2. ~policy.immediateProceeds /\ Escrow => Escrow'
            BY <1>1, <2>2, EscrowEnabled
        <3> QED
            BY <1>1, <3>1, <3>2 DEF EscrowInv
    <2>3. ASSUME NEW r \in Revenues, NEW auto \in BOOLEAN, DistributeEarnings(r, auto)
          PROVE  EscrowInv'
        <3>1. CASE auto /\ coll.isLocked
            <4>1. /\ NetEarnings(r) \in Nat /\ CalculateProtocolFee(InvestorAmount(r)) \in Nat
                <5>1. r \in Nat /\ InvestorAmount(r) >= MIN_PROTOCOL_FEE /\ Tokens("investor") > 0
                    BY <2>3, TreasuryAssumption DEF DistributeEarnings
                <5> QED
                    BY <1>1, <5>1, DistributionAmounts
            <4>2. /\ earnings.currentPeriod + 1 \in Nat
                  /\ UnprocessedEarnings(NetEarnings(r)) \in Nat
                BY <1>1, <4>1 DEF UnprocessedEarnings, TypeOK
            <4>3. /\ ApplyRelease(earnings.currentPeriod + 1, UnprocessedEarnings(NetEarnings(r)),
                                  CalculateProtocolFee(InvestorAmount(r)))
                  /\ UNCHANGED <<now, assetVars, tokenVars, settlement>>
                BY <2>3, <3>1 DEF DistributeEarnings
            <4> QED
                BY <2>1, <3>1, <4>1, <4>2, <4>3
        <3>2. CASE ~(auto /\ coll.isLocked)
            BY <1>2, <2>3, <3>2 DEF DistributeEarnings, assetVars, tokenVars
        <3> QED
            BY <3>1, <3>2
    <2>4. CASE ReleasePartialCollateral
        <3>1. earnings.currentPeriod \in Nat /\ earnings.unprocessed \in Nat
            BY <1>1 DEF TypeOK
        <3> QED
            BY <2>1, <2>4, <3>1 DEF ReleasePartialCollateral, ReleaseEligible
    <2>5. CASE ReleaseCollateral
        <3>1. /\ Supply = 0 /\ coll' = Cleared(coll)
              /\ UNCHANGED <<now, status, policy, cur, old, backed, settlement>>
            BY <2>5 DEF ReleaseCollateral, FreeCollateral, assetVars, tokenVars
        <3>2. Supply' = 0
            BY <3>1 DEF Supply, Tokens
        <3>3. ASSUME Escrow PROVE Escrow'
            <4>1. \A k \in Class : old'[k] = 0
                BY <3>1, <3>3 DEF Escrow
            <4> QED
                BY <1>1, <3>1, <3>2, <3>3, <4>1, EscrowFreed
        <3> QED
            BY <1>1, <3>1, <3>3 DEF EscrowInv
    <2> QED
        BY <1>5, <2>2, <2>3, <2>4, <2>5 DEF CollateralStep
<1>6. CASE EndStep
    <2>1. ASSUME NEW extra \in ExtraTopUps, SettleAsset(extra) PROVE EscrowInv'
        BY <1>1, <2>1, EscrowOver DEF SettleAsset, Settle
    <2>2. CASE LiquidateAsset
        BY <1>1, <2>2, EscrowOver DEF LiquidateAsset, Settle
    <2>3. ASSUME NEW k \in Class, NEW c \in 0 .. MaxSupply, NEW o \in 0 .. MaxSupply,
                 NEW credit \in {0} \cup PartOf(earningsOwed), ClaimSettlement(k, c, o, credit)
          PROVE  EscrowInv'
        <3>1. settlement'.isConfigured /\ status' # "Pending"
            BY <1>1, <2>3 DEF ClaimSettlement, assetVars, TypeOK, Terminal
        <3> QED
            BY <1>1, <3>1, EscrowOver
\* A retirement either finds nothing locked or frees what no token asks for.
    <2>4. ASSUME status' = "Retired", UNCHANGED <<now, policy, settlement>>,
                 coll' = Cleared(coll), Supply' = 0,
                 (\A k \in Class : old[k] = 0) => \A k \in Class : old'[k] = 0
          PROVE  EscrowInv'
        <3>1. ASSUME Escrow PROVE Escrow'
            <4>1. \A k \in Class : old'[k] = 0
                BY <2>4, <3>1 DEF Escrow
            <4> QED
                BY <1>1, <2>4, <3>1, <4>1, EscrowFreed
        <3> QED
            BY <1>1, <2>4, <3>1 DEF EscrowInv
    <2>5. CASE RetireAsset
        <3>1. status' = "Retired" /\ UNCHANGED <<now, policy, settlement, cur, old, backed>>
            BY <2>5 DEF RetireAsset, tokenVars
        <3>2. CASE coll.isLocked
            <4>1. Supply = 0 /\ coll' = Cleared(coll)
                BY <2>5, <3>2 DEF RetireAsset, FreeCollateral
            <4>2. Supply' = 0
                BY <3>1, <4>1 DEF Supply, Tokens
            <4> QED
                BY <2>4, <3>1, <4>1, <4>2
        <3>3. CASE ~coll.isLocked
            <4>1. coll' = coll
                BY <2>5, <3>3 DEF RetireAsset
            <4> QED
                BY <1>2, <3>1, <4>1
        <3> QED
            BY <3>2, <3>3
    <2>6. CASE RetireAssetAndBurnTokens
        <3>1. /\ status' = "Retired" /\ UNCHANGED <<now, policy, settlement, backed>>
              /\ cur' = [k \in Class |-> 0] /\ old' = [k \in Class |-> 0]
            BY <2>6 DEF RetireAssetAndBurnTokens
        <3>2. Supply' = 0 /\ Supply' <= Supply /\ \A k \in Class : old'[k] = 0
            BY <1>1, <3>1 DEF Supply, Tokens, Class
        <3>3. CASE coll.isLocked
            <4>1. coll' = Cleared(coll)
                BY <2>6, <3>3 DEF RetireAssetAndBurnTokens, FreeCollateral
            <4> QED
                BY <2>4, <3>1, <3>2, <4>1
        <3>4. CASE ~coll.isLocked
            <4>1. coll' = coll
                BY <2>6, <3>4 DEF RetireAssetAndBurnTokens
            <4> QED
                BY <1>1, <3>1, <3>2, <4>1, EscrowUnmoved
        <3> QED
            BY <3>3, <3>4
    <2> QED
        BY <1>6, <2>1, <2>2, <2>3, <2>5, <2>6 DEF EndStep
<1>7. CASE TokenStep
    <2>1. ASSUME NEW k \in Class, NEW c \in 0 .. MaxSupply, NEW o \in 0 .. MaxSupply,
                 BurnRevenueTokens(k, c, o)
          PROVE  EscrowInv'
        <3>1. /\ c \in Nat /\ o \in Nat /\ c <= cur[k] /\ o <= old[k]
              /\ cur' = [cur EXCEPT ![k] = @ - c] /\ old' = [old EXCEPT ![k] = @ - o]
              /\ UNCHANGED <<now, status, policy, coll, backed, settlement>>
            BY <2>1, TreasuryAssumption DEF BurnRevenueTokens, assetVars
        <3>2. Supply' <= Supply
            BY <1>1, <3>1, TakenTokens
        <3>3. (\A l \in Class : old[l] = 0) => \A l \in Class : old'[l] = 0
            BY <1>1, <3>1 DEF TypeOK
        <3> QED
            BY <1>1, <3>1, <3>2, <3>3, EscrowUnmoved
    <2>2. ASSUME NEW from \in Class, NEW to \in Class, from # to,
                 NEW c \in 0 .. MaxSupply, NEW o \in 0 .. MaxSupply,
                 c <= cur[from], o <= old[from],
                 cur' = Moved(cur, from, to, c), old' = Moved(old, from, to, o),
                 UNCHANGED <<now, status, policy, coll, backed, settlement>>
          PROVE  EscrowInv'
        <3>1. c \in Nat /\ o \in Nat
            BY TreasuryAssumption
        <3>2. Supply' <= Supply
            BY <1>1, <2>2, <3>1, TransferredTokens
        <3>3. (\A l \in Class : old[l] = 0) => \A l \in Class : old'[l] = 0
            BY <1>1, <2>2, <3>1 DEF TypeOK, Moved
        <3> QED
            BY <1>1, <2>2, <3>2, <3>3, EscrowUnmoved
    <2>3. ASSUME NEW t \in Transfers, NEW c \in 0 .. MaxSupply, NEW o \in 0 .. MaxSupply,
                 TransferTokens(t[1], t[2], c, o)
          PROVE  EscrowInv'
        <3>1. t[1] \in Class /\ t[2] \in Class
            BY TreasuryAssumption DEF Class
        <3> QED
            BY <2>2, <2>3, <3>1 DEF TransferTokens, assetVars
    <2>4. ASSUME NEW from \in Class, NEW to \in Class, NEW c \in 0 .. MaxSupply,
                 NEW o \in 0 .. MaxSupply, BuyFromSecondaryListing(from, to, c, o)
          PROVE  EscrowInv'
        <3>1. CASE from = to
            BY <1>2, <2>4, <3>1 DEF BuyFromSecondaryListing, assetVars
        <3>2. CASE from # to
            BY <2>2, <2>4, <3>2 DEF BuyFromSecondaryListing, assetVars
        <3> QED
            BY <3>1, <3>2
    <2> QED
        BY <1>7, <2>1, <2>3, <2>4 DEF TokenStep
<1>8. CASE CashStep
    BY <1>2, <1>8 DEF CashStep, CreditEarningsWithdrawal, ProcessWithdrawal, assetVars, tokenVars
<1>9. CASE Tick
    <2>1. /\ now' = now + 1 /\ UNCHANGED <<status, policy, coll, cur, old, backed, settlement>>
        BY <1>9 DEF Tick, assetVars, tokenVars
    <2>2. DepreciationTime <= DepreciationTime'
        BY <1>1, <2>1 DEF DepreciationTime, TypeOK, CollateralInfo
    <2>3. Supply' <= Supply
        BY <1>1, <2>1 DEF Supply, Tokens
    <2>4. Escrow => Escrow'
        <3> SUFFICES ASSUME Escrow PROVE Escrow'
            OBVIOUS
        <3>1. \A k \in Class : old'[k] = 0
            BY <2>1 DEF Escrow
        <3> QED
            BY <1>1, <2>1, <2>2, <2>3, <3>1, EscrowKept
    <2> QED
        BY <1>1, <2>1, <2>4 DEF EscrowInv
<1>10. CASE UNCHANGED vars
    BY <1>2, <1>10 DEF vars, assetVars, tokenVars
<1> QED
    BY <1>4, <1>5, <1>6, <1>7, <1>8, <1>9, <1>10 DEF Next

LEMMA InitEscrow == Init => EscrowInv
<1> SUFFICES ASSUME Init PROVE EscrowInv
    OBVIOUS
<1>1. IInv /\ TypeOK
    BY InitIInv DEF IInv
<1>2. Supply = 0 /\ DepreciationTime = 0
    BY DEF Init, Supply, Tokens, Class, DepreciationTime, EmptyCollateral
<1>3. 0 * TokenPrice = 0 /\ CalculateDepreciation(0, 0) \in Nat
    BY TreasuryAssumption, CalculateDepreciationNat
<1> QED
    BY <1>1, <1>2, <1>3 DEF Init, EscrowInv, Escrow, EmptyCollateral

LEMMA EscrowAlways == Spec => []EscrowInv
<1>1. EscrowInv /\ [Next]_vars => EscrowInv'
    BY EscrowStep
<1> QED
    BY <1>1, InitEscrow, PTL DEF Spec

LEMMA EscrowCovers == EscrowInv => PrincipalEscrowed
BY DEF EscrowInv, Escrow, PrincipalEscrowed, DepreciatedPrice, DepreciationTime

\* Without immediate proceeds the base in escrow covers the depreciated price
\* of every outstanding token until a settlement takes its place, for all
\* prices, dates and interleavings of purchases, redemptions, burns, releases
\* and retirements, and with no allowance for the rounding of redemptions and
\* releases.
THEOREM PrincipalAlwaysEscrowed == Spec => []PrincipalEscrowed
<1>1. Spec => []EscrowInv
    BY EscrowAlways
<1> QED
    BY <1>1, EscrowCovers, PTL

\* A settlement of an immediate-proceeds asset before maturity leaves the
\* holders at least the depreciated principal of their tokens; where no
\* proceeds are handed out every settlement and every liquidation does.
THEOREM SettlementAlwaysMakesWhole == Spec => SettlementMakesWhole
<1>1. ASSUME EscrowInv, ~policy.immediateProceeds, ~settlement.isConfigured,
             settlement'.settlementAmount >= coll.baseCollateral,
             settlement'.settlementAmount \in Nat
      PROVE  settlement'.settlementAmount >= DepreciatedPrice(Supply)
  <2>1. coll.baseCollateral >= DepreciatedPrice(Supply)
    BY <1>1, EscrowCovers DEF PrincipalEscrowed
  <2>2. coll.baseCollateral \in Nat /\ DepreciatedPrice(Supply) \in Int
    BY <1>1, EscrowTypes DEF EscrowInv, IInv, DepreciatedPrice, DepreciationTime
  <2> QED
    BY <1>1, <2>1, <2>2
<1>2. ASSUME EscrowInv, NEW extra \in ExtraTopUps, SettleAsset(extra),
             policy.immediateProceeds, ~Matured, settlement'.settlementAmount \in Nat
      PROVE  settlement'.settlementAmount >= ResidualBaseValue(coll, now)
  <2> DEFINE c == AfterMissedEarnings
             t == c.baseCollateral + RequiredTopUp(c)
  <2>1. settlement'.settlementAmount >= t
    BY <1>2, SettledAmount DEF EscrowInv
  <2>2. t >= ResidualBaseValue(coll, now)
    BY <1>2, TopUpReachesResidual DEF EscrowInv
  <2>3. ResidualBaseValue(coll, now) \in Nat /\ t \in Nat
    <3>1. /\ SameValue(c) /\ coll \in CollateralInfo /\ now \in Nat /\ coll.lockedAt <= now
      BY <1>2, AfterMissedEarningsSameValue DEF EscrowInv, IInv, TypeOK
    <3> HIDE DEF c
    <3>2. /\ ResidualBaseValue(coll, now) \in Nat /\ ResidualBaseValue(c, now) \in Nat
          /\ c.baseCollateral \in Nat
      BY <3>1, ResidualBaseValueNat DEF SameValue, CollateralInfo
    <3> QED
      BY <3>2 DEF RequiredTopUp, Monus
  <2> HIDE DEF t
  <2> QED
    BY <1>2, <2>1, <2>2, <2>3
<1>3. EscrowInv /\ [Next]_vars =>
        [~settlement.isConfigured /\ settlement'.isConfigured =>
          /\ status' = "Retired" /\ policy.immediateProceeds /\ ~Matured =>
                settlement'.settlementAmount >= ResidualBaseValue(coll, now)
          /\ ~policy.immediateProceeds =>
                settlement'.settlementAmount >= DepreciatedPrice(Supply)]_vars
  <2> SUFFICES ASSUME EscrowInv, Next, ~settlement.isConfigured, settlement'.isConfigured
               PROVE  /\ status' = "Retired" /\ policy.immediateProceeds /\ ~Matured =>
                            settlement'.settlementAmount >= ResidualBaseValue(coll, now)
                      /\ ~policy.immediateProceeds =>
                            settlement'.settlementAmount >= DepreciatedPrice(Supply)
    BY DEF vars
  <2>1. IInv /\ settlement'.settlementAmount \in Nat
    BY NextPreserves DEF EscrowInv, IInv, TypeOK
  <2>2. ASSUME NEW extra \in ExtraTopUps, SettleAsset(extra)
        PROVE  /\ policy.immediateProceeds /\ ~Matured =>
                     settlement'.settlementAmount >= ResidualBaseValue(coll, now)
               /\ ~policy.immediateProceeds =>
                     settlement'.settlementAmount >= DepreciatedPrice(Supply)
    <3>1. settlement'.settlementAmount >= coll.baseCollateral
      BY <2>1, <2>2, SettledAmount
    <3> QED
      BY <1>1, <1>2, <2>1, <2>2, <3>1
  <2>3. CASE LiquidateAsset
    <3>1. settlement'.settlementAmount >= coll.baseCollateral /\ status' = "Expired"
      BY <2>1, <2>3, LiquidatedAmount
    <3> QED
      BY <1>1, <2>1, <3>1
  <2> QED
    BY <2>1, <2>2, <2>3, SettledBySettlement
<1> QED
  BY <1>3, EscrowAlways, PTL DEF Spec, SettlementMakesWhole

\* A share of the base is worth the depreciated price of its tokens, up to the
\* unit that two roundings may take.
LEMMA ShareIsWorth ==
    ASSUME NEW price \in Nat, NEW s \in Nat \ {0}, NEW a \in 1 .. s, NEW t \in Nat,
           NEW b \in Nat, b >= s * price - CalculateDepreciation(s * price, t)
    PROVE  (a * b) \div s >= a * price - CalculateDepreciation(a * price, t) - 1
<1> DEFINE d == 10000 * YEARLY_INTERVAL
           n == 1200 * t
           p == CalculateDepreciation(s * price, t)
           q == CalculateDepreciation(a * price, t)
           w == a * price - q - 1
<1>1. a \in Nat /\ s * price \in Nat /\ a * price \in Nat /\ a * b \in Nat
    BY ProductNat
<1>2. /\ d \in Nat \ {0} /\ n \in Nat /\ p \in Nat /\ q \in Nat
      /\ (s * price) * n \in Nat /\ (a * price) * n \in Nat
      /\ d * p <= (s * price) * n
      /\ q = ((a * price) * n) \div d
    <2>1. /\ d \in Nat \ {0} /\ n \in Nat /\ p \in Nat /\ (s * price) * n \in Nat
          /\ d * p <= (s * price) * n
        BY <1>1, DepreciationIs
    <2>2. q \in Nat /\ (a * price) * n \in Nat /\ q = ((a * price) * n) \div d
        <3> DEFINE v == a * price
        <3>1. v \in Nat
            BY <1>1
        <3> HIDE DEF v
        <3>2. CalculateDepreciation(v, t) \in Nat
            BY <3>1, CalculateDepreciationNat
        <3>3. n \in Nat
            BY <2>1
        <3>4. v * n \in Nat
            BY <3>1, <3>3, ProductNat
        <3>5. CalculateDepreciation(v, t) = (v * n) \div d
            BY <3>1, DepreciationIs
        <3> QED
            BY <3>2, <3>4, <3>5 DEF v
    <2> QED
        BY <2>1, <2>2
<1>3. b >= s * price - p
    OBVIOUS
<1> HIDE DEF d, n, p, q
<1>4. (a * price) * n <= d * (q + 1)
    <2> DEFINE y == (a * price) * n
    <2> HIDE DEF y
    <2>1. y \in Nat /\ q = y \div d
        BY <1>2 DEF y
    <2>2. y < d * (y \div d) + d
        BY <1>2, <2>1, SMT
    <2>3. d * (q + 1) = d * q + d
        BY <1>2, SMT
    <2>4. d * q \in Nat
        BY <1>2, ProductNat
    <2> QED
        BY <1>2, <2>1, <2>2, <2>3, <2>4 DEF y
\* d * (a * p) <= d * (s * (q + 1))
<1>5. a * p <= s * (q + 1)
    <2>1. d * (a * p) = a * (d * p) /\ d * (s * (q + 1)) = s * (d * (q + 1))
        BY <1>1, <1>2, SMT
    <2>2. a * (d * p) <= a * ((s * price) * n)
        BY <1>1, <1>2, SMT
    <2>3. a * ((s * price) * n) = s * ((a * price) * n)
        BY <1>1, <1>2, SMT
    <2>4. s * ((a * price) * n) <= s * (d * (q + 1))
        BY <1>2, <1>4, SMT
    <2>5. a * p \in Nat /\ s * (q + 1) \in Nat
        BY <1>1, <1>2, ProductNat
    <2>6. d * (a * p) <= d * (s * (q + 1))
        <3> DEFINE u == a * (d * p)  v == a * ((s * price) * n)  z == s * (d * (q + 1))
        <3>1. u \in Nat /\ v \in Nat /\ z \in Nat
            <4>1. d * p \in Nat /\ d * (q + 1) \in Nat
                BY <1>2, ProductNat
            <4> QED
                BY <1>1, <1>2, <4>1, ProductNat
        <3> HIDE DEF u, v, z
        <3>2. u <= v /\ v <= z
            BY <2>2, <2>3, <2>4 DEF u, v, z
        <3>3. u <= z
            BY <3>1, <3>2
        <3> QED
            BY <2>1, <3>3 DEF u, z
    <2> DEFINE l == a * p  r == s * (q + 1)
    <2> HIDE DEF l, r
    <2>7. l \in Nat /\ r \in Nat /\ d * l <= d * r
        BY <2>5, <2>6 DEF l, r
    <2>8. l <= r
        BY <1>2, <2>7, SMT
    <2> QED
        BY <2>8 DEF l, r
<1>6. s * w <= a * b
    <2>1. s * w = s * (a * price) - s * (q + 1)
        <3> DEFINE v == a * price
        <3>1. v \in Nat /\ w = v - (q + 1)
            BY <1>1, <1>2
        <3> HIDE DEF v, w
        <3>2. s * (v - (q + 1)) = s * v - s * (q + 1)
            BY <1>2, <3>1, SMT
        <3> QED
            BY <3>1, <3>2 DEF v
    <2>2. a * (s * price - p) <= a * b
        BY <1>1, <1>2, <1>3, SMT
    <2>3. a * (s * price - p) = s * (a * price) - a * p
        BY <1>1, <1>2, SMT
    <2>4. /\ s * (a * price) \in Nat /\ s * (q + 1) \in Nat /\ a * p \in Nat
          /\ a * b \in Nat
        BY <1>1, <1>2, ProductNat
    <2> HIDE DEF w
    <2> QED
        BY <1>5, <2>1, <2>2, <2>3, <2>4
<1>7. w \in Int
    BY <1>1, <1>2
<1>8. w <= (a * b) \div s
    BY <1>1, <1>6, <1>7, QuotientBound
<1>9. (a * b) \div s \in Nat
    BY <1>1, DivisionTruncates
<1> QED
    BY <1>7, <1>8, <1>9 DEF q

\* Where no proceeds are handed out, a redemption pays the depreciated price of
\* the tokens redeemed, less at most one unit of rounding, whoever redeemed,
\* burned or released before.
THEOREM RedemptionAlwaysPays == Spec => RedemptionPaysPrice
<1>1. ASSUME EscrowInv, NEW k \in Class, NEW n \in 1 .. MaxSupply, RedeemPrimaryPool(k, n),
             ~policy.immediateProceeds
      PROVE  cash - cash' >= DepreciatedPrice(n) - 1
    <2> DEFINE s == Supply  t == DepreciationTime  b == coll.baseCollateral
    <2>1. /\ TypeOK /\ n \in Nat /\ n > 0 /\ n <= cur[k] /\ TokenPrice \in Nat
          /\ ~settlement.isConfigured
        BY <1>1, TreasuryAssumption DEF EscrowInv, IInv, RedeemPrimaryPool, MarketOpen,
            Operational, SettledIsFinal, Terminal
    <2>2. /\ \A l \in Class : old[l] = 0
          /\ b >= s * TokenPrice - CalculateDepreciation(s * TokenPrice, t)
        BY <1>1, <2>1 DEF EscrowInv, Escrow
    <2>3. s \in Nat /\ t \in Nat /\ b \in Nat
        BY <2>1, EscrowTypes
    <2>4. s = EpochSupply /\ n <= s /\ s > 0
        <3>1. /\ cur["partner"] \in Nat /\ cur["investor"] \in Nat
              /\ old["partner"] = 0 /\ old["investor"] = 0
            BY <2>1, <2>2 DEF TypeOK, Class
        <3> QED
            BY <2>1, <3>1 DEF Supply, Tokens, EpochSupply, Class
    <2>5. cash' = cash - ((n * b) \div s) /\ cash \in Nat
        BY <1>1, <2>1, <2>4 DEF RedeemPrimaryPool, RedemptionPayout, PayOut, TypeOK
    <2> HIDE DEF s, t, b
    <2>6. (n * b) \div s >= n * TokenPrice - CalculateDepreciation(n * TokenPrice, t) - 1
        <3>1. s \in Nat \ {0} /\ n \in 1 .. s
            BY <2>1, <2>3, <2>4
        <3>2. b >= s * TokenPrice - CalculateDepreciation(s * TokenPrice, t)
            BY <2>2
        <3> QED
            BY <2>1, <2>3, <3>1, <3>2, ShareIsWorth
    <2>7. (n * b) \div s \in Nat
        BY <2>1, <2>3, <2>4, ProductNat, DivisionTruncates
    <2>8. DepreciatedPrice(n) = n * TokenPrice - CalculateDepreciation(n * TokenPrice, t)
        BY DEF DepreciatedPrice, t, DepreciationTime
    <2> QED
        BY <2>5, <2>6, <2>7, <2>8
<1>2. EscrowInv /\ [Next]_vars =>
        [\A k \in Class, n \in 1 .. MaxSupply :
            RedeemPrimaryPool(k, n) /\ ~policy.immediateProceeds =>
                cash - cash' >= DepreciatedPrice(n) - 1]_vars
    BY <1>1
<1> QED
    BY <1>2, EscrowAlways, PTL DEF Spec, RedemptionPaysPrice

\* Whoever is left with tokens of an ended asset that has no settlement holds
\* them of an asset that its partner retired without locking collateral, never
\* of a liquidated one, and what was escrowed for them is still there.
THEOREM StrandedAlwaysBacked == Spec => []StrandedKeepBacking
<1>1. EscrowInv => StrandedKeepBacking
    BY EscrowCovers DEF EscrowInv, PrincipalEscrowed, StrandedKeepBacking, Terminal
<1>2. Spec => []EscrowInv
    BY EscrowAlways
<1> QED
    BY <1>1, <1>2, PTL

=============================================================================
