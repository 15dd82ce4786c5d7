---------------------------- MODULE TreasuryProofs ----------------------------
(* Treasury is correct for every value of its constants: any prices, yields, *)
(* intervals, policies, revenues, clocks and amounts of money.  The argument *)
(* is one inductive invariant, IInv: the safety invariants that the runs     *)
(* check, and two facts they lean on.                                        *)
EXTENDS Treasury, CollateralLemmas

\* After settlement nothing is exposed, so enableProceeds has nothing to fund
\* or release and the collateral stays empty.
SettledHasNoExposure ==
    settlement.isConfigured => coll.releasedProtectedBase = 0

\* Earnings wait for a release only between a distribution and a release.
UnprocessedOnlyIfFlagged ==
    ~earnings.hasUnprocessed => earnings.unprocessed = 0

IInv ==
    /\ TypeOK
    /\ Solvent
    /\ SettlementFunded
    /\ TotalCoversCollateral
    /\ PrincipalAccounted
    /\ LockedHasClocks
    /\ SettledIsFinal
    /\ SettledHasNoExposure
    /\ UnprocessedOnlyIfFlagged

-----------------------------------------------------------------------------
(* The initial state.                                                        *)

LEMMA InitIInv == Init => IInv
<1> SUFFICES ASSUME Init PROVE IInv
  OBVIOUS
<1>1. coll \in CollateralInfo /\ TotalCollateral(coll) = 0
  BY DEF Init, EmptyCollateral, CollateralInfo, TotalCollateral
<1>2. TypeOK
  BY <1>1 DEF Init, TypeOK, EmptyCollateral, Policy, Status, Class
<1>3. Supply = 0
  BY DEF Init, Supply, Tokens, Class
<1> QED
  BY <1>1, <1>2, <1>3 DEF Init, IInv, Solvent, Obligations, SettlementOwed,
     SettlementFunded, TotalCoversCollateral, PrincipalAccounted, LockedHasClocks,
     SettledIsFinal, SettledHasNoExposure, UnprocessedOnlyIfFlagged, EmptyCollateral

-----------------------------------------------------------------------------
(* Arithmetic of shares.                                                     *)

\* The settlement of n tokens out of m is no more than that of all m, and what
\* is left is that of the others.
LEMMA SharesSplit ==
    ASSUME NEW rate \in Nat, NEW m \in Nat, NEW n \in 0 .. m
    PROVE  /\ rate * m \in Nat /\ rate * n \in Nat /\ rate * (m - n) \in Nat
           /\ rate * m = rate * n + rate * (m - n)
           /\ rate * (m - n) <= rate * m
           /\ n * rate = rate * n
BY SMT

LEMMA NothingTimes == ASSUME NEW n \in Nat PROVE 0 * n = 0
BY SMT

\* Tokens are naturals in each class and in total.
LEMMA SupplyNat ==
    ASSUME TypeOK
    PROVE  /\ \A k \in Class : cur[k] \in Nat /\ old[k] \in Nat /\ Tokens(k) \in Nat
           /\ Supply \in Nat /\ EpochSupply \in Nat
           /\ \A k \in Class : Tokens(k) <= Supply /\ cur[k] <= EpochSupply
           /\ SettlementOwed \in Nat
<1>1. \A k \in Class : cur[k] \in Nat /\ old[k] \in Nat /\ Tokens(k) \in Nat
  BY DEF TypeOK, Tokens
<1>2. "partner" \in Class /\ "investor" \in Class
  BY DEF Class
<1>3. /\ Supply \in Nat /\ EpochSupply \in Nat
      /\ \A k \in Class : Tokens(k) <= Supply /\ cur[k] <= EpochSupply
  BY <1>1, <1>2 DEF Supply, EpochSupply, Class
<1>4. settlement.settlementPerToken \in Nat
  BY DEF TypeOK
<1> QED
  BY <1>1, <1>3, <1>4, ProductNat DEF SettlementOwed

-----------------------------------------------------------------------------
(* The primary pool.                                                         *)

LEMMA CreatePoolPreserves ==
    ASSUME IInv, NEW p \in Policies, NEW m \in MaturityDates, CreatePool(p, m)
    PROVE  IInv'
<1>1. TypeOK'
  BY TreasuryAssumption DEF IInv, CreatePool, TypeOK, Status, cashVars, moneyVars, tokenVars
<1> QED
  BY <1>1 DEF IInv, CreatePool, Solvent, Obligations, SettlementOwed, Supply, Tokens,
     SettlementFunded, TotalCoversCollateral, PrincipalAccounted, LockedHasClocks,
     SettledIsFinal, SettledHasNoExposure, UnprocessedOnlyIfFlagged, TotalCollateral,
     Terminal, cashVars, moneyVars, tokenVars

LEMMA SetPoolStatePreserves ==
    ASSUME IInv, PausePool \/ UnpausePool \/ ClosePool
    PROVE  IInv'
<1>1. TypeOK'
  BY DEF IInv, PausePool, UnpausePool, ClosePool, SetPoolState, TypeOK, cashVars,
     moneyVars, tokenVars
<1> QED
  BY <1>1 DEF IInv, PausePool, UnpausePool, ClosePool, SetPoolState, Solvent,
     Obligations, SettlementOwed, Supply, Tokens, SettlementFunded,
     TotalCoversCollateral, PrincipalAccounted, LockedHasClocks, SettledIsFinal,
     SettledHasNoExposure, UnprocessedOnlyIfFlagged, TotalCollateral, cashVars,
     moneyVars, tokenVars

\* What is bought is escrowed: cash and obligations grow together.
LEMMA BuyFromPrimaryPoolPreserves ==
    ASSUME IInv, NEW k \in Class, NEW n \in 1 .. MaxSupply, BuyFromPrimaryPool(k, n)
    PROVE  IInv'
<1> DEFINE principal == n * TokenPrice
           fee == CalculateProtocolFee(principal)
           c == [coll EXCEPT !.baseCollateral = @ + principal,
                             !.unredeemedBasePrincipal = @ + principal,
                             !.lastEventTimestamp = now]
<1>1. TypeOK /\ n \in Nat /\ principal \in Nat /\ fee \in Nat
  BY TreasuryAssumption, ProductNat, CalculateProtocolFeeBound DEF IInv
<1>2. /\ status \in Operational
      /\ paidIn' = paidIn + (principal + fee) /\ cash' = cash + (principal + fee)
      /\ coll' = c
      /\ totalCollateralDeposited' = totalCollateralDeposited + principal
      /\ pending' = [pending EXCEPT !.fee = @ + fee]
      /\ status' = PromotedStatus(c)
      /\ cur' = [cur EXCEPT ![k] = @ + n]
      /\ backed' = backed + principal
      /\ UNCHANGED <<now, pool, policy, maturityDate, old, settlement, earnings,
                     earningsOwed>>
  BY DEF BuyFromPrimaryPool, MarketOpen, PayIn
<1> HIDE DEF principal, fee
<1>3. /\ coll' \in CollateralInfo
      /\ TotalCollateral(coll') = TotalCollateral(coll) + principal
      /\ coll'.reservedForLiquidation = coll.reservedForLiquidation
  <2>1. c \in CollateralInfo
    <3>1. /\ coll.baseCollateral + principal \in Nat
          /\ coll.unredeemedBasePrincipal + principal \in Nat
          /\ now \in Nat
      BY <1>1 DEF TypeOK, CollateralInfo
    <3> QED
      BY <1>1, <3>1 DEF TypeOK, CollateralInfo
  <2>2. /\ c.baseCollateral = coll.baseCollateral + principal
        /\ c.earningsBuffer = coll.earningsBuffer
        /\ c.protocolBuffer = coll.protocolBuffer
        /\ c.reservedForLiquidation = coll.reservedForLiquidation
    BY <1>1 DEF TypeOK, CollateralInfo
  <2> QED
    BY <1>1, <1>2, <2>1, <2>2 DEF TypeOK, CollateralInfo, TotalCollateral
<1>4. status' \in Operational
  BY <1>2 DEF PromotedStatus, Operational
<1>5. ~settlement.isConfigured /\ settlement.settlementPerToken = 0
      /\ settlement.claimedPayout = 0
  BY <1>2 DEF IInv, SettledIsFinal, Operational, Terminal
<1>6. TypeOK'
  BY <1>1, <1>2, <1>3, <1>4 DEF TypeOK, CollateralInfo, Status, Operational
<1>7. SettlementOwed = 0 /\ SettlementOwed' = 0
  <2>1. Supply \in Nat /\ Supply' \in Nat
    BY <1>1, <1>6 DEF TypeOK, Supply, Tokens, Class
  <2> QED
    BY <1>2, <1>5, <2>1 DEF SettlementOwed
<1>8. Solvent'
  BY <1>1, <1>2, <1>3, <1>7 DEF IInv, Solvent, Obligations, TypeOK, CollateralInfo,
     TotalCollateral
<1>9. SettlementFunded' /\ TotalCoversCollateral' /\ PrincipalAccounted'
  BY <1>1, <1>2, <1>3, <1>5, <1>7 DEF IInv, SettlementFunded, TotalCoversCollateral,
     PrincipalAccounted, TypeOK, CollateralInfo, TotalCollateral
<1>10. /\ LockedHasClocks' /\ SettledIsFinal' /\ SettledHasNoExposure'
       /\ UnprocessedOnlyIfFlagged'
  BY <1>1, <1>2, <1>5 DEF IInv, LockedHasClocks, SettledIsFinal, SettledHasNoExposure,
     UnprocessedOnlyIfFlagged, TypeOK, CollateralInfo
<1> QED
  BY <1>6, <1>8, <1>9, <1>10 DEF IInv

\* Rolling the epoch moves tokens between epochs and creates none.
LEMMA RollKeepsTokens ==
    ASSUME TypeOK, NEW newCur \in [Class -> Nat], NEW newBacked \in Nat,
           RollEpochIfExhausted(newCur, newBacked)
    PROVE  /\ cur' \in [Class -> Nat] /\ old' \in [Class -> Nat] /\ backed' \in Nat
           /\ \A k \in Class : cur'[k] + old'[k] = newCur[k] + old[k]
BY DEF RollEpochIfExhausted, TypeOK

\* A redemption pays out of the escrowed base.
LEMMA RedeemPrimaryPoolPreserves ==
    ASSUME IInv, NEW k \in Class, NEW n \in 1 .. MaxSupply, RedeemPrimaryPool(k, n)
    PROVE  IInv'
<1> DEFINE payout == RedemptionPayout(n)
           principal == n * TokenPrice
           c == [coll EXCEPT !.baseCollateral = @ - payout,
                             !.unredeemedBasePrincipal = Monus(@, principal)]
           newCur == [cur EXCEPT ![k] = @ - n]
<1>1. /\ TypeOK /\ n \in Nat /\ principal \in Nat
      /\ status \in Operational /\ n <= cur[k]
  BY TreasuryAssumption, ProductNat DEF IInv, RedeemPrimaryPool, MarketOpen
<1>2. payout \in Nat
  <2>1. EpochSupply \in Nat \ {0}
    BY <1>1, SupplyNat
  <2>2. n * coll.baseCollateral \in Nat
    BY <1>1, ProductNat DEF TypeOK, CollateralInfo
  <2> QED
    BY <2>1, <2>2, DivisionTruncates DEF RedemptionPayout
<1>3. /\ payout <= coll.baseCollateral
      /\ payout <= cash /\ cash' = cash - payout /\ paidIn' = paidIn
      /\ coll' = [c EXCEPT !.releasedBaseCollateral = ReconciledReleasedBase(c)]
      /\ totalCollateralDeposited' = Monus(totalCollateralDeposited, payout)
      /\ RollEpochIfExhausted(newCur, Monus(backed, payout))
      /\ UNCHANGED <<now, assetVars, settlement, earnings, earningsOwed, pending>>
  BY DEF RedeemPrimaryPool, PayOut
<1> HIDE DEF payout, principal
<1>4. /\ coll' \in CollateralInfo
      /\ coll'.baseCollateral = coll.baseCollateral - payout
      /\ coll'.reservedForLiquidation = coll.reservedForLiquidation
      /\ coll'.releasedProtectedBase = coll.releasedProtectedBase
      /\ coll'.isLocked = coll.isLocked /\ coll'.lockedAt = coll.lockedAt
      /\ coll'.lastEventTimestamp = coll.lastEventTimestamp
      /\ TotalCollateral(coll') = TotalCollateral(coll) - payout
      /\ coll'.unredeemedBasePrincipal
            <= coll'.baseCollateral + coll'.releasedProtectedBase
               + coll'.releasedBaseCollateral
  <2>1. /\ coll.unredeemedBasePrincipal \in Nat
        /\ Monus(coll.unredeemedBasePrincipal, principal) \in Nat
        /\ coll.baseCollateral - payout \in Nat
    BY <1>1, <1>2, <1>3 DEF TypeOK, CollateralInfo, Monus
  <2>2. /\ c \in CollateralInfo
        /\ c.baseCollateral = coll.baseCollateral - payout
        /\ c.earningsBuffer = coll.earningsBuffer
        /\ c.protocolBuffer = coll.protocolBuffer
        /\ c.reservedForLiquidation = coll.reservedForLiquidation
        /\ c.releasedProtectedBase = coll.releasedProtectedBase
        /\ c.isLocked = coll.isLocked /\ c.lockedAt = coll.lockedAt
        /\ c.lastEventTimestamp = coll.lastEventTimestamp
    BY <1>1, <2>1 DEF TypeOK, CollateralInfo
  <2> HIDE DEF c
  <2>3. /\ ReconciledReleasedBase(c) \in Nat
        /\ c.unredeemedBasePrincipal
              <= c.baseCollateral + c.releasedProtectedBase + ReconciledReleasedBase(c)
    BY <2>2 DEF ReconciledReleasedBase, Monus, CollateralInfo
  <2> QED
    BY <1>1, <1>2, <1>3, <2>2, <2>3 DEF TypeOK, CollateralInfo, TotalCollateral
<1>5. newCur \in [Class -> Nat] /\ Monus(backed, payout) \in Nat
  BY <1>1, <1>2 DEF TypeOK, Monus
<1>6. /\ cur' \in [Class -> Nat] /\ old' \in [Class -> Nat] /\ backed' \in Nat
  BY <1>1, <1>3, <1>5, RollKeepsTokens
<1>7. /\ TotalCollateral(coll) + coll.reservedForLiquidation <= totalCollateralDeposited
      /\ TotalCollateral(coll) \in Nat
      /\ payout <= TotalCollateral(coll)
  BY <1>1, <1>2, <1>3 DEF IInv, TotalCoversCollateral, TypeOK, CollateralInfo,
     TotalCollateral
<1>8. totalCollateralDeposited' = totalCollateralDeposited - payout
  BY <1>1, <1>2, <1>3, <1>7 DEF Monus, TypeOK, CollateralInfo
<1>9. TypeOK'
  BY <1>1, <1>2, <1>3, <1>4, <1>6, <1>7, <1>8 DEF TypeOK, CollateralInfo, assetVars
<1>10. ~settlement.isConfigured /\ settlement.settlementPerToken = 0
       /\ settlement.claimedPayout = 0
  BY <1>1 DEF IInv, SettledIsFinal, Operational, Terminal
<1>11. SettlementOwed = 0 /\ SettlementOwed' = 0
  <2>1. Supply \in Nat /\ Supply' \in Nat
    BY <1>1, <1>9 DEF TypeOK, Supply, Tokens, Class
  <2> QED
    BY <1>3, <1>10, <2>1 DEF SettlementOwed
<1>12. Solvent'
  BY <1>1, <1>2, <1>3, <1>4, <1>7, <1>11 DEF IInv, Solvent, Obligations, TypeOK,
     CollateralInfo
<1>13. SettlementFunded' /\ TotalCoversCollateral' /\ PrincipalAccounted'
  BY <1>1, <1>2, <1>3, <1>4, <1>7, <1>8, <1>10, <1>11 DEF IInv, SettlementFunded,
     TotalCoversCollateral, PrincipalAccounted, TypeOK, CollateralInfo
<1>14. /\ LockedHasClocks' /\ SettledIsFinal' /\ SettledHasNoExposure'
       /\ UnprocessedOnlyIfFlagged'
  BY <1>1, <1>3, <1>4, <1>10 DEF IInv, LockedHasClocks, SettledIsFinal,
     SettledHasNoExposure, UnprocessedOnlyIfFlagged, assetVars
<1> QED
  BY <1>9, <1>12, <1>13, <1>14 DEF IInv

-----------------------------------------------------------------------------
(* Buffers and proceeds.                                                     *)

\* What is still due is never negative.
LEMMA DueNat ==
    ASSUME TypeOK
    PROVE  DueEarningsBuffer \in Nat /\ DueProtocolBuffer \in Nat
<1>1. coll \in CollateralInfo /\ policy \in Policy
  BY DEF TypeOK
<1>2. ProtectedExposure(coll, policy) \in Nat
  BY <1>1, ProtectedExposureNat
<1>3. /\ RequiredEarningsBuffer(ProtectedExposure(coll, policy)) \in Nat
      /\ RequiredProtocolBuffer(ProtectedExposure(coll, policy)) \in Nat
  BY <1>2, RequirementsNat
<1>4. coll.earningsBuffer \in Nat /\ coll.protocolBuffer \in Nat
  BY <1>1 DEF CollateralInfo
<1> QED
  BY <1>3, <1>4 DEF DueEarningsBuffer, DueProtocolBuffer, Monus

\* Funding adds exactly what is due, keeps the base, and starts the
\* depreciation clock of a collateral it locks.
LEMMA FundedCollateralFacts ==
    ASSUME TypeOK, PrincipalAccounted, NEW dueE \in Nat, NEW dueP \in Nat,
           NEW d, d = FundedCollateral(dueE, dueP)
    PROVE  /\ d \in CollateralInfo
           /\ d.baseCollateral = coll.baseCollateral
           /\ TotalCollateral(d) = TotalCollateral(coll) + dueE + dueP
           /\ d.reservedForLiquidation <= coll.reservedForLiquidation
           /\ d.unredeemedBasePrincipal
                 <= d.baseCollateral + d.releasedProtectedBase + d.releasedBaseCollateral
           /\ d.lockedAt <= now /\ d.lastEventTimestamp <= now
           /\ dueE + dueP > 0 => d.lockedAt > 0
           /\ dueE + dueP = 0 => d = coll
<1>1. coll \in CollateralInfo /\ now \in Nat \ {0}
  BY DEF TypeOK
<1>2. CASE dueE + dueP = 0
  <2>1. d = coll /\ dueE = 0 /\ dueP = 0
    BY <1>2 DEF FundedCollateral
  <2>2. TotalCollateral(d) = TotalCollateral(coll) + dueE + dueP
    <3>1. TotalCollateral(coll) \in Nat
      BY <1>1 DEF TotalCollateral, CollateralInfo
    <3> QED
      BY <2>1, <3>1
  <2>3. d.reservedForLiquidation <= coll.reservedForLiquidation
    BY <1>1, <2>1 DEF CollateralInfo
  <2>4. /\ d.unredeemedBasePrincipal
              <= d.baseCollateral + d.releasedProtectedBase + d.releasedBaseCollateral
        /\ d.lockedAt <= now /\ d.lastEventTimestamp <= now
    BY <2>1 DEF TypeOK, PrincipalAccounted
  <2> QED
    BY <1>1, <1>2, <2>1, <2>2, <2>3, <2>4
<1>3. CASE dueE + dueP > 0 /\ TotalCollateral(coll) = 0
  <2>1. d = [EmptyCollateral EXCEPT !.earningsBuffer = dueE, !.protocolBuffer = dueP,
                                    !.isLocked = TRUE, !.lockedAt = now,
                                    !.lastEventTimestamp = now]
    BY <1>3 DEF FundedCollateral
  <2>2. EmptyCollateral \in CollateralInfo
    BY DEF EmptyCollateral, CollateralInfo
  <2>3. d \in CollateralInfo
    BY <1>1, <2>1, <2>2 DEF CollateralInfo
  <2>4. /\ d.baseCollateral = 0 /\ d.earningsBuffer = dueE /\ d.protocolBuffer = dueP
        /\ d.reservedForLiquidation = 0 /\ d.unredeemedBasePrincipal = 0
        /\ d.lockedAt = now /\ d.lastEventTimestamp = now
    BY <2>1 DEF EmptyCollateral
  <2>5. coll.baseCollateral = 0 /\ coll.reservedForLiquidation \in Nat
    BY <1>1, <1>3 DEF TotalCollateral, CollateralInfo
  <2>6. TotalCollateral(d) = TotalCollateral(coll) + dueE + dueP
    BY <1>3, <2>4 DEF TotalCollateral
  <2>7. 0 <= d.baseCollateral + d.releasedProtectedBase + d.releasedBaseCollateral
    BY <2>3 DEF CollateralInfo
  <2> QED
    BY <1>1, <1>3, <2>3, <2>4, <2>5, <2>6, <2>7
<1>4. CASE dueE + dueP > 0 /\ TotalCollateral(coll) # 0
  <2> DEFINE at == IF coll.lockedAt = 0 THEN now ELSE coll.lockedAt
  <2>1. d = [coll EXCEPT !.earningsBuffer = coll.earningsBuffer + dueE,
                         !.protocolBuffer = coll.protocolBuffer + dueP,
                         !.isLocked = TRUE, !.lockedAt = at,
                         !.lastEventTimestamp = now]
    BY <1>1, <1>4 DEF FundedCollateral, CollateralInfo
  <2>2. /\ coll.earningsBuffer + dueE \in Nat /\ coll.protocolBuffer + dueP \in Nat
        /\ at \in Nat /\ at > 0 /\ at <= now
    BY <1>1 DEF CollateralInfo, TypeOK
  <2> HIDE DEF at
  <2>3. d \in CollateralInfo
    BY <1>1, <2>1, <2>2 DEF CollateralInfo
  <2>4. /\ d.baseCollateral = coll.baseCollateral
        /\ d.earningsBuffer = coll.earningsBuffer + dueE
        /\ d.protocolBuffer = coll.protocolBuffer + dueP
        /\ d.reservedForLiquidation = coll.reservedForLiquidation
        /\ d.unredeemedBasePrincipal = coll.unredeemedBasePrincipal
        /\ d.releasedProtectedBase = coll.releasedProtectedBase
        /\ d.releasedBaseCollateral = coll.releasedBaseCollateral
        /\ d.lockedAt = at /\ d.lastEventTimestamp = now
    BY <1>1, <2>1 DEF CollateralInfo
  <2> QED
    BY <1>1, <1>4, <2>2, <2>3, <2>4 DEF TotalCollateral, CollateralInfo,
       PrincipalAccounted
<1>5. dueE + dueP = 0 \/ dueE + dueP > 0
  OBVIOUS
<1> QED
  BY <1>2, <1>3, <1>4, <1>5

\* enableProceeds turns base into a credit of the partner, never more of it
\* than there is.
LEMMA EnableProceedsPreserves ==
    ASSUME IInv, EnableProceeds
    PROVE  IInv'
<1> DEFINE due == DueEarningsBuffer + DueProtocolBuffer
           c == FundedCollateral(DueEarningsBuffer, DueProtocolBuffer)
           released == Proceeds(c)
<1>1. TypeOK /\ PrincipalAccounted /\ DueEarningsBuffer \in Nat /\ DueProtocolBuffer \in Nat
      /\ due \in Nat
  BY DueNat DEF IInv
<1>2. /\ c \in CollateralInfo
      /\ c.baseCollateral = coll.baseCollateral
      /\ TotalCollateral(c) = TotalCollateral(coll) + DueEarningsBuffer + DueProtocolBuffer
      /\ c.reservedForLiquidation <= coll.reservedForLiquidation
      /\ c.unredeemedBasePrincipal
            <= c.baseCollateral + c.releasedProtectedBase + c.releasedBaseCollateral
      /\ c.lockedAt <= now /\ c.lastEventTimestamp <= now
      /\ due > 0 => c.lockedAt > 0
      /\ due = 0 => c = coll
  BY <1>1, FundedCollateralFacts
<1>3. released \in 0 .. c.baseCollateral
  <2>1. policy \in Policy
    BY <1>1 DEF TypeOK
  <2>2. /\ CalculateCoverableBaseCollateral(c, policy) \in Nat
        /\ CalculateCoverableBaseCollateral(c, policy) <= c.baseCollateral
    BY <1>2, <2>1, CoverableBaseBound
  <2>3. c.baseCollateral \in Nat
    BY <1>2 DEF CollateralInfo
  <2> QED
    BY <2>2, <2>3 DEF Proceeds
<1>4. /\ ProtectedExposure(coll, policy) > 0
      /\ paidIn' = paidIn + due /\ cash' = cash + due
      /\ coll' = [c EXCEPT !.baseCollateral = @ - released,
                           !.releasedProtectedBase = @ + released]
      /\ totalCollateralDeposited' = totalCollateralDeposited + due - released
      /\ pending' = [pending EXCEPT !.partner = @ + released]
      /\ status' = PromotedStatus(c)
      /\ earnings' = IF due > 0 /\ earnings.lastEventTimestamp = 0
                     THEN [earnings EXCEPT !.lastEventTimestamp = now] ELSE earnings
      /\ IF released > 0 /\ backed > 0
         THEN RollEpochIfExhausted(cur, Monus(backed, released))
         ELSE UNCHANGED tokenVars
      /\ UNCHANGED <<now, pool, policy, maturityDate, settlement, earningsOwed>>
  BY DEF EnableProceeds, Enable, InitializedClock, PayIn
<1> HIDE DEF due, c, released
<1>5. /\ coll' \in CollateralInfo
      /\ coll'.baseCollateral = c.baseCollateral - released
      /\ coll'.releasedProtectedBase = c.releasedProtectedBase + released
      /\ coll'.earningsBuffer = c.earningsBuffer
      /\ coll'.protocolBuffer = c.protocolBuffer
      /\ coll'.reservedForLiquidation = c.reservedForLiquidation
      /\ coll'.unredeemedBasePrincipal = c.unredeemedBasePrincipal
      /\ coll'.releasedBaseCollateral = c.releasedBaseCollateral
      /\ coll'.isLocked = c.isLocked /\ coll'.lockedAt = c.lockedAt
      /\ coll'.lastEventTimestamp = c.lastEventTimestamp
  <2>1. c.baseCollateral - released \in Nat /\ c.releasedProtectedBase + released \in Nat
    BY <1>2, <1>3 DEF CollateralInfo
  <2> QED
    BY <1>2, <1>4, <2>1 DEF CollateralInfo
<1>6. TotalCollateral(coll') = TotalCollateral(coll) + due - released
  BY <1>1, <1>2, <1>3, <1>5 DEF TotalCollateral, CollateralInfo, due, TypeOK
<1>7. cur' \in [Class -> Nat] /\ old' \in [Class -> Nat] /\ backed' \in Nat
  <2>1. CASE released > 0 /\ backed > 0
    <3>1. cur \in [Class -> Nat] /\ Monus(backed, released) \in Nat
      BY <1>1, <1>2, <1>3 DEF TypeOK, Monus, CollateralInfo
    <3> QED
      BY <1>1, <1>4, <2>1, <3>1, RollKeepsTokens
  <2>2. CASE ~(released > 0 /\ backed > 0)
    BY <1>1, <1>4, <2>2 DEF TypeOK, tokenVars
  <2> QED
    BY <2>1, <2>2
<1>8. /\ TotalCollateral(coll) + coll.reservedForLiquidation <= totalCollateralDeposited
      /\ TotalCollateral(coll) \in Nat /\ released <= TotalCollateral(coll)
      /\ TotalCollateral(coll') \in Nat
      /\ coll'.reservedForLiquidation <= coll.reservedForLiquidation
      /\ coll.reservedForLiquidation \in Nat /\ coll'.reservedForLiquidation \in Nat
  BY <1>1, <1>2, <1>3, <1>5 DEF IInv, TotalCoversCollateral, TypeOK, CollateralInfo,
     TotalCollateral
<1>9. TypeOK'
  <2>1. totalCollateralDeposited' \in Nat /\ cash' \in Nat /\ paidIn' \in Nat
    BY <1>1, <1>2, <1>3, <1>4, <1>8 DEF TypeOK, CollateralInfo
  <2>2. pending' \in [partner : Nat, holders : Nat, fee : Nat]
    <3>1. pending.partner + released \in Nat
      BY <1>1, <1>2, <1>3 DEF TypeOK, CollateralInfo
    <3> QED
      BY <1>1, <1>4, <3>1 DEF TypeOK
  <2>3. status' \in Status
    BY <1>1, <1>4 DEF TypeOK, PromotedStatus, Status
  <2>4. /\ earnings' \in [currentPeriod : Nat, lastEventTimestamp : Nat,
                          unprocessed : Nat, hasUnprocessed : BOOLEAN]
        /\ earnings'.lastEventTimestamp <= now
    BY <1>1, <1>4 DEF TypeOK
  <2> QED
    BY <1>1, <1>2, <1>4, <1>5, <1>7, <2>1, <2>2, <2>3, <2>4 DEF TypeOK
<1>10. ~settlement.isConfigured /\ settlement.settlementPerToken = 0
       /\ settlement.claimedPayout = 0
  BY <1>1, <1>4 DEF IInv, SettledIsFinal, SettledHasNoExposure, ProtectedExposure,
     TotalCollateral, TypeOK, CollateralInfo
<1>11. SettlementOwed = 0 /\ SettlementOwed' = 0
  <2>1. Supply \in Nat /\ Supply' \in Nat
    BY <1>1, <1>9 DEF TypeOK, Supply, Tokens, Class
  <2> QED
    BY <1>4, <1>10, <2>1 DEF SettlementOwed
<1>12. Solvent'
  <2>1. Obligations' <= Obligations + due
    <3>1. pending'.partner = pending.partner + released
          /\ pending'.holders = pending.holders /\ pending'.fee = pending.fee
      BY <1>1, <1>4 DEF TypeOK
    <3> QED
      BY <1>1, <1>2, <1>3, <1>4, <1>6, <1>8, <1>11, <3>1 DEF Obligations, TypeOK,
         CollateralInfo
  <2>2. Obligations \in Nat /\ Obligations' \in Nat
    BY <1>1, <1>4, <1>8, <1>9, <1>11 DEF Obligations, TypeOK
  <2> QED
    BY <1>1, <1>4, <2>1, <2>2 DEF IInv, Solvent, TypeOK
<1>13. SettlementFunded'
  BY <1>1, <1>4, <1>10, <1>11 DEF SettlementFunded, TypeOK
<1>14. TotalCoversCollateral'
  BY <1>1, <1>2, <1>3, <1>4, <1>6, <1>8 DEF TotalCoversCollateral, TypeOK, CollateralInfo
<1>15. PrincipalAccounted'
  BY <1>2, <1>3, <1>5 DEF PrincipalAccounted, CollateralInfo
<1>16. LockedHasClocks'
  <2>1. CASE due > 0
    BY <1>1, <1>2, <1>4, <1>5, <2>1 DEF LockedHasClocks, TypeOK
  <2>2. CASE ~(due > 0)
    BY <1>1, <1>2, <1>4, <1>5, <2>2 DEF IInv, LockedHasClocks
  <2> QED
    BY <2>1, <2>2
<1>17. SettledIsFinal' /\ SettledHasNoExposure' /\ UnprocessedOnlyIfFlagged'
  BY <1>1, <1>4, <1>10 DEF IInv, SettledIsFinal, SettledHasNoExposure,
     UnprocessedOnlyIfFlagged, TypeOK
<1> QED
  BY <1>9, <1>12, <1>13, <1>14, <1>15, <1>16, <1>17 DEF IInv

-----------------------------------------------------------------------------
(* Earnings and releases.                                                    *)

\* `d` holds the same money as the asset's collateral on the same principal,
\* whatever was moved into or out of the liquidation reserve.
SameValue(d) ==
    /\ d \in CollateralInfo
    /\ d.baseCollateral = coll.baseCollateral
    /\ d.protocolBuffer = coll.protocolBuffer
    /\ d.earningsBuffer + d.reservedForLiquidation
          = coll.earningsBuffer + coll.reservedForLiquidation
    /\ d.unredeemedBasePrincipal = coll.unredeemedBasePrincipal
    /\ d.releasedProtectedBase = coll.releasedProtectedBase
    /\ d.releasedBaseCollateral = coll.releasedBaseCollateral
    /\ d.isLocked = coll.isLocked /\ d.lockedAt = coll.lockedAt

LEMMA AfterEarningsSameValue ==
    ASSUME TypeOK, NEW realized \in Nat, NEW elapsed \in Nat
    PROVE  /\ SameValue(AfterEarnings(coll, policy, realized, elapsed))
           /\ AfterEarnings(coll, policy, realized, elapsed).lastEventTimestamp
                 = coll.lastEventTimestamp
<1> DEFINE d == AfterEarnings(coll, policy, realized, elapsed)
<1>1. coll \in CollateralInfo /\ policy \in Policy
  BY DEF TypeOK
<1>2. OnlyReserves(coll, d)
  BY <1>1, AfterEarningsConserves
<1> HIDE DEF d
<1>3. d = [coll EXCEPT !.earningsBuffer = d.earningsBuffer,
                       !.reservedForLiquidation = d.reservedForLiquidation]
  BY <1>2 DEF OnlyReserves
<1>4. /\ d.baseCollateral = coll.baseCollateral /\ d.protocolBuffer = coll.protocolBuffer
      /\ d.unredeemedBasePrincipal = coll.unredeemedBasePrincipal
      /\ d.releasedProtectedBase = coll.releasedProtectedBase
      /\ d.releasedBaseCollateral = coll.releasedBaseCollateral
      /\ d.isLocked = coll.isLocked /\ d.lockedAt = coll.lockedAt
      /\ d.lastEventTimestamp = coll.lastEventTimestamp
  BY <1>1, <1>3 DEF CollateralInfo
<1> QED
  BY <1>2, <1>4 DEF OnlyReserves, SameValue, d

\* A release moves at most the base, from the collateral to the partner and
\* the fee recipient.
LEMMA ApplyReleaseFacts ==
    ASSUME TypeOK, TotalCoversCollateral, PrincipalAccounted,
           NEW period \in Nat, NEW realized \in Nat, NEW paid \in Nat,
           ApplyRelease(period, realized, paid)
    PROVE  /\ coll' \in CollateralInfo
           /\ pending' \in [partner : Nat, holders : Nat, fee : Nat]
           /\ totalCollateralDeposited' \in Nat
           /\ TotalCollateral(coll') + coll'.reservedForLiquidation
                 <= totalCollateralDeposited'
           /\ pending'.partner + pending'.holders + pending'.fee
              + (TotalCollateral(coll') + coll'.reservedForLiquidation)
                 = pending.partner + pending.holders + pending.fee + paid
                   + (TotalCollateral(coll) + coll.reservedForLiquidation)
           /\ coll'.unredeemedBasePrincipal
                 <= coll'.baseCollateral + coll'.releasedProtectedBase
                    + coll'.releasedBaseCollateral
           /\ coll'.isLocked = coll.isLocked /\ coll'.lockedAt = coll.lockedAt
           /\ coll'.lastEventTimestamp = now
           /\ coll'.releasedProtectedBase = coll.releasedProtectedBase
           /\ earnings' = [currentPeriod |-> period, lastEventTimestamp |-> now,
                           unprocessed |-> 0, hasUnprocessed |-> FALSE]
<1> DEFINE c == AfterEarnings(coll, policy, realized, now - coll.lastEventTimestamp)
           gross == GrossRelease(c, policy, now)
           fee == ReleaseFee(gross)
<1>1. /\ now \in Nat /\ coll \in CollateralInfo /\ policy \in Policy
      /\ now - coll.lastEventTimestamp \in Nat /\ coll.lockedAt <= now
  BY DEF TypeOK, CollateralInfo
<1>2. SameValue(c) /\ c.lastEventTimestamp = coll.lastEventTimestamp
  BY <1>1, AfterEarningsSameValue
<1>3. c \in CollateralInfo /\ c.lockedAt <= now
  BY <1>1, <1>2 DEF SameValue
<1>4. gross \in Nat /\ gross <= c.baseCollateral
  BY <1>1, <1>3, GrossReleaseBound
<1>5. fee \in Nat /\ fee <= gross
  BY <1>4, ReleaseFeeBound
<1>6. /\ coll' = [c EXCEPT !.baseCollateral = @ - gross,
                           !.releasedBaseCollateral = @ + gross,
                           !.lastEventTimestamp = now]
      /\ totalCollateralDeposited' = totalCollateralDeposited - gross
      /\ pending' = [pending EXCEPT !.partner = @ + (gross - fee),
                                    !.fee = @ + paid + fee]
      /\ earnings' = [currentPeriod |-> period, lastEventTimestamp |-> now,
                      unprocessed |-> 0, hasUnprocessed |-> FALSE]
  BY DEF ApplyRelease
<1> HIDE DEF c, gross, fee
<1>7. /\ coll' \in CollateralInfo
      /\ coll'.baseCollateral = coll.baseCollateral - gross
      /\ coll'.releasedBaseCollateral = coll.releasedBaseCollateral + gross
      /\ coll'.protocolBuffer = coll.protocolBuffer
      /\ coll'.earningsBuffer + coll'.reservedForLiquidation
            = coll.earningsBuffer + coll.reservedForLiquidation
      /\ coll'.unredeemedBasePrincipal = coll.unredeemedBasePrincipal
      /\ coll'.releasedProtectedBase = coll.releasedProtectedBase
      /\ coll'.isLocked = coll.isLocked /\ coll'.lockedAt = coll.lockedAt
      /\ coll'.lastEventTimestamp = now
  <2>1. c.baseCollateral - gross \in Nat /\ c.releasedBaseCollateral + gross \in Nat
    BY <1>3, <1>4 DEF CollateralInfo
  <2>2. coll' \in CollateralInfo
    BY <1>1, <1>3, <1>6, <2>1 DEF CollateralInfo
  <2>3. /\ coll'.baseCollateral = c.baseCollateral - gross
        /\ coll'.releasedBaseCollateral = c.releasedBaseCollateral + gross
        /\ coll'.protocolBuffer = c.protocolBuffer
        /\ coll'.earningsBuffer = c.earningsBuffer
        /\ coll'.reservedForLiquidation = c.reservedForLiquidation
        /\ coll'.unredeemedBasePrincipal = c.unredeemedBasePrincipal
        /\ coll'.releasedProtectedBase = c.releasedProtectedBase
        /\ coll'.isLocked = c.isLocked /\ coll'.lockedAt = c.lockedAt
        /\ coll'.lastEventTimestamp = now
    BY <1>3, <1>6 DEF CollateralInfo
  <2> QED
    BY <1>2, <2>2, <2>3 DEF SameValue
<1>8. TotalCollateral(coll') + coll'.reservedForLiquidation
         = TotalCollateral(coll) + coll.reservedForLiquidation - gross
  BY <1>1, <1>4, <1>7 DEF TotalCollateral, CollateralInfo
<1>9. /\ TotalCollateral(coll) + coll.reservedForLiquidation \in Nat
      /\ gross <= TotalCollateral(coll) + coll.reservedForLiquidation
      /\ TotalCollateral(coll) \in Nat /\ coll.reservedForLiquidation \in Nat
      /\ TotalCollateral(coll') \in Nat /\ coll'.reservedForLiquidation \in Nat
  BY <1>1, <1>2, <1>4, <1>7 DEF TotalCollateral, CollateralInfo, SameValue
<1>10. /\ totalCollateralDeposited' \in Nat
       /\ TotalCollateral(coll') + coll'.reservedForLiquidation
             <= totalCollateralDeposited'
  BY <1>4, <1>6, <1>8, <1>9 DEF TotalCoversCollateral, TypeOK
<1>11. /\ pending' \in [partner : Nat, holders : Nat, fee : Nat]
       /\ pending'.partner = pending.partner + (gross - fee)
       /\ pending'.holders = pending.holders
       /\ pending'.fee = pending.fee + paid + fee
  <2>1. pending.partner + (gross - fee) \in Nat /\ pending.fee + paid + fee \in Nat
    BY <1>4, <1>5 DEF TypeOK
  <2> QED
    BY <1>6, <2>1 DEF TypeOK
<1>12. pending'.partner + pending'.holders + pending'.fee
       + (TotalCollateral(coll') + coll'.reservedForLiquidation)
          = pending.partner + pending.holders + pending.fee + paid
            + (TotalCollateral(coll) + coll.reservedForLiquidation)
  BY <1>4, <1>5, <1>8, <1>9, <1>11 DEF TypeOK
<1>13. coll'.unredeemedBasePrincipal
          <= coll'.baseCollateral + coll'.releasedProtectedBase
             + coll'.releasedBaseCollateral
  BY <1>1, <1>4, <1>7 DEF PrincipalAccounted, CollateralInfo
<1> QED
  BY <1>6, <1>7, <1>10, <1>11, <1>12, <1>13

\* A release of collateral, alone or at the end of a distribution that brings
\* `amount` of cash, `paid` of it as fee and `owed` of it for the investors.
LEMMA ReleaseStepPreserves ==
    ASSUME IInv, coll.isLocked,
           NEW period \in Nat, NEW realized \in Nat, NEW paid \in Nat,
           NEW owed \in Nat, NEW amount \in Nat, paid + owed <= amount,
           ApplyRelease(period, realized, paid),
           cash' = cash + amount, paidIn' \in Nat,
           earningsOwed' = earningsOwed + owed,
           UNCHANGED <<now, assetVars, tokenVars, settlement>>
    PROVE  IInv'
<1>1. TypeOK /\ TotalCoversCollateral /\ PrincipalAccounted
  BY DEF IInv
<1>2. /\ coll' \in CollateralInfo
      /\ pending' \in [partner : Nat, holders : Nat, fee : Nat]
      /\ totalCollateralDeposited' \in Nat
      /\ TotalCollateral(coll') + coll'.reservedForLiquidation
            <= totalCollateralDeposited'
      /\ pending'.partner + pending'.holders + pending'.fee
         + (TotalCollateral(coll') + coll'.reservedForLiquidation)
            = pending.partner + pending.holders + pending.fee + paid
              + (TotalCollateral(coll) + coll.reservedForLiquidation)
      /\ coll'.unredeemedBasePrincipal
            <= coll'.baseCollateral + coll'.releasedProtectedBase
               + coll'.releasedBaseCollateral
      /\ coll'.isLocked = coll.isLocked /\ coll'.lockedAt = coll.lockedAt
      /\ coll'.lastEventTimestamp = now
      /\ coll'.releasedProtectedBase = coll.releasedProtectedBase
      /\ earnings' = [currentPeriod |-> period, lastEventTimestamp |-> now,
                      unprocessed |-> 0, hasUnprocessed |-> FALSE]
  BY <1>1, ApplyReleaseFacts
<1>3. TypeOK'
  BY <1>1, <1>2 DEF TypeOK, assetVars, tokenVars
<1>4. SettlementOwed' = SettlementOwed /\ SettlementOwed \in Nat
  BY <1>1, SupplyNat DEF SettlementOwed, Supply, Tokens, tokenVars
<1>5. Solvent'
  <2>1. /\ TotalCollateral(coll) + coll.reservedForLiquidation \in Nat
        /\ TotalCollateral(coll') + coll'.reservedForLiquidation \in Nat
    BY <1>1, <1>2 DEF TypeOK, TotalCollateral, CollateralInfo
  <2>2. /\ Obligations = pending.partner + pending.holders + pending.fee
                         + (TotalCollateral(coll) + coll.reservedForLiquidation)
                         + SettlementOwed + earningsOwed
        /\ Obligations' = pending'.partner + pending'.holders + pending'.fee
                          + (TotalCollateral(coll') + coll'.reservedForLiquidation)
                          + SettlementOwed' + earningsOwed'
    BY <1>1, <1>2, <1>3, <1>4 DEF Obligations, TypeOK, TotalCollateral, CollateralInfo
  <2>3. Obligations' = Obligations + paid + owed
    BY <1>1, <1>2, <1>3, <1>4, <2>1, <2>2 DEF TypeOK
  <2>4. Obligations <= cash /\ Obligations \in Nat
    BY <1>1, <1>4, <2>1, <2>2 DEF IInv, Solvent, TypeOK
  <2> QED
    BY <1>1, <2>3, <2>4 DEF Solvent, TypeOK
<1>6. SettlementFunded' /\ TotalCoversCollateral' /\ PrincipalAccounted'
  BY <1>2, <1>4 DEF IInv, SettlementFunded, TotalCoversCollateral, PrincipalAccounted
<1>7. /\ LockedHasClocks' /\ SettledIsFinal' /\ SettledHasNoExposure'
      /\ UnprocessedOnlyIfFlagged'
  BY <1>1, <1>2 DEF IInv, LockedHasClocks, SettledIsFinal, SettledHasNoExposure,
     UnprocessedOnlyIfFlagged, TypeOK, assetVars
<1> QED
  BY <1>3, <1>5, <1>6, <1>7 DEF IInv

LEMMA ReleasePartialCollateralPreserves ==
    ASSUME IInv, ReleasePartialCollateral
    PROVE  IInv'
<1>1. /\ coll.isLocked
      /\ ApplyRelease(earnings.currentPeriod, earnings.unprocessed, 0)
      /\ cash' = cash /\ paidIn' = paidIn /\ earningsOwed' = earningsOwed
      /\ UNCHANGED <<now, assetVars, tokenVars, settlement>>
  BY DEF ReleasePartialCollateral, ReleaseEligible, cashVars
<1>2. /\ earnings.currentPeriod \in Nat /\ earnings.unprocessed \in Nat
      /\ cash \in Nat /\ paidIn \in Nat /\ earningsOwed \in Nat
  BY DEF IInv, TypeOK
<1>3. cash' = cash + 0 /\ earningsOwed' = earningsOwed + 0 /\ paidIn' \in Nat
      /\ 0 + 0 <= 0
  BY <1>1, <1>2
<1> QED
  BY <1>1, <1>2, <1>3, ReleaseStepPreserves

\* What a distribution brings covers its fee and what it owes the investors.
LEMMA DistributionAmounts ==
    ASSUME TypeOK, NEW revenue \in Nat, InvestorAmount(revenue) >= MIN_PROTOCOL_FEE,
           Tokens("investor") > 0
    PROVE  /\ InvestorAmount(revenue) \in Nat
           /\ CalculateProtocolFee(InvestorAmount(revenue)) \in Nat
           /\ NetEarnings(revenue) \in Nat
           /\ CalculateProtocolFee(InvestorAmount(revenue)) + NetEarnings(revenue)
                 = InvestorAmount(revenue)
           /\ Tokens("investor") * (NetEarnings(revenue) \div Tokens("investor")) \in Nat
           /\ Tokens("investor") * (NetEarnings(revenue) \div Tokens("investor"))
                 <= NetEarnings(revenue)
<1>1. Tokens("investor") \in Nat \ {0} /\ MaxSupply \in Nat \ {0} /\ RevenueShareBP \in Nat
  BY SupplyNat, TreasuryAssumption DEF Class, BP_PRECISION
<1>2. /\ (revenue * RevenueShareBP) \div BP_PRECISION \in Nat
      /\ (revenue * Tokens("investor")) \div MaxSupply \in Nat
  <2>1. revenue * RevenueShareBP \in Nat /\ revenue * Tokens("investor") \in Nat
    BY <1>1, ProductNat
  <2>2. BP_PRECISION \in Nat \ {0}
    BY DEF BP_PRECISION
  <2> QED
    BY <1>1, <2>1, <2>2, DivisionTruncates
<1>3. InvestorAmount(revenue) \in Nat
  BY <1>2 DEF InvestorAmount, Lesser
<1>4. /\ CalculateProtocolFee(InvestorAmount(revenue)) \in Nat
      /\ CalculateProtocolFee(InvestorAmount(revenue)) <= InvestorAmount(revenue)
  BY <1>3, CalculateProtocolFeeBound
<1>5. /\ NetEarnings(revenue) \in Nat
      /\ CalculateProtocolFee(InvestorAmount(revenue)) + NetEarnings(revenue)
            = InvestorAmount(revenue)
  BY <1>3, <1>4 DEF NetEarnings
<1>6. NetEarnings(revenue) \div Tokens("investor") \in Nat
  BY <1>1, <1>5, DivisionTruncates
<1> QED
  BY <1>1, <1>3, <1>4, <1>5, <1>6, DivisionTruncates, ProductNat

LEMMA DistributeEarningsPreserves ==
    ASSUME IInv, NEW revenue \in Revenues, NEW auto \in BOOLEAN,
           DistributeEarnings(revenue, auto)
    PROVE  IInv'
<1> DEFINE amount == InvestorAmount(revenue)
           fee == CalculateProtocolFee(amount)
           net == NetEarnings(revenue)
           owed == Tokens("investor") * (net \div Tokens("investor"))
<1>1. TypeOK /\ revenue \in Nat
  BY TreasuryAssumption DEF IInv
<1>2. amount >= MIN_PROTOCOL_FEE /\ Tokens("investor") > 0
  BY DEF DistributeEarnings
<1>3. /\ amount \in Nat /\ fee \in Nat /\ net \in Nat /\ owed \in Nat
      /\ fee + net = amount /\ owed <= net
  BY <1>1, <1>2, DistributionAmounts
<1>4. /\ status = "Earning"
      /\ paidIn' = paidIn + amount /\ cash' = cash + amount
      /\ earningsOwed' = earningsOwed + owed
      /\ UNCHANGED <<now, assetVars, tokenVars, settlement>>
      /\ IF auto /\ coll.isLocked
         THEN ApplyRelease(earnings.currentPeriod + 1, earnings.unprocessed + net, fee)
         ELSE /\ pending' = [pending EXCEPT !.fee = @ + fee]
              /\ earnings' = [currentPeriod |-> earnings.currentPeriod + 1,
                              lastEventTimestamp |-> now,
                              unprocessed |-> earnings.unprocessed + net,
                              hasUnprocessed |-> TRUE]
              /\ UNCHANGED <<coll, totalCollateralDeposited>>
  BY DEF DistributeEarnings, UnprocessedEarnings, PayIn
<1> HIDE DEF amount, fee, net, owed
<1>5. CASE auto /\ coll.isLocked
  <2>1. /\ earnings.currentPeriod + 1 \in Nat /\ earnings.unprocessed + net \in Nat
        /\ paidIn' \in Nat /\ fee + owed <= amount
    BY <1>1, <1>3, <1>4 DEF TypeOK
  <2>2. ApplyRelease(earnings.currentPeriod + 1, earnings.unprocessed + net, fee)
    BY <1>4, <1>5
  <2> QED
    BY <1>3, <1>4, <1>5, <2>1, <2>2, ReleaseStepPreserves
<1>6. CASE ~(auto /\ coll.isLocked)
  <2>1. /\ pending' = [pending EXCEPT !.fee = @ + fee]
        /\ earnings' = [currentPeriod |-> earnings.currentPeriod + 1,
                        lastEventTimestamp |-> now,
                        unprocessed |-> earnings.unprocessed + net,
                        hasUnprocessed |-> TRUE]
        /\ UNCHANGED <<coll, totalCollateralDeposited>>
    BY <1>4, <1>6
  <2>2. TypeOK'
    <3>1. /\ pending.fee + fee \in Nat /\ earnings.currentPeriod + 1 \in Nat
          /\ earnings.unprocessed + net \in Nat
      BY <1>1, <1>3 DEF TypeOK
    <3> QED
      BY <1>1, <1>3, <1>4, <2>1, <3>1 DEF TypeOK, assetVars, tokenVars
  <2>3. SettlementOwed' = SettlementOwed /\ SettlementOwed \in Nat
    BY <1>1, <1>4, SupplyNat DEF SettlementOwed, Supply, Tokens, tokenVars
  <2>4. Obligations' = Obligations + fee + owed
    <3>1. /\ pending'.partner = pending.partner /\ pending'.holders = pending.holders
          /\ pending'.fee = pending.fee + fee
      BY <1>1, <2>1 DEF TypeOK
    <3>2. TotalCollateral(coll) \in Nat /\ coll.reservedForLiquidation \in Nat
      BY <1>1 DEF TypeOK, TotalCollateral, CollateralInfo
    <3> QED
      BY <1>1, <1>3, <1>4, <2>1, <2>3, <3>1, <3>2 DEF Obligations, TypeOK
  <2>5. Solvent'
    <3>1. Obligations \in Nat
      BY <1>1, <2>3 DEF Obligations, TypeOK, TotalCollateral, CollateralInfo
    <3> QED
      BY <1>1, <1>3, <1>4, <2>4, <3>1 DEF IInv, Solvent, TypeOK
  <2>6. SettlementFunded' /\ TotalCoversCollateral' /\ PrincipalAccounted'
    BY <1>4, <2>1, <2>3 DEF IInv, SettlementFunded, TotalCoversCollateral,
       PrincipalAccounted
  <2>7. /\ LockedHasClocks' /\ SettledIsFinal' /\ SettledHasNoExposure'
        /\ UnprocessedOnlyIfFlagged'
    BY <1>1, <1>4, <2>1 DEF IInv, LockedHasClocks, SettledIsFinal,
       SettledHasNoExposure, UnprocessedOnlyIfFlagged, TypeOK, assetVars
  <2> QED
    BY <2>2, <2>5, <2>6, <2>7 DEF IInv
<1> QED
  BY <1>5, <1>6

-----------------------------------------------------------------------------
(* Retirement.                                                               *)

\* Freeing the collateral credits the partner with no more than was held.
\* Tokens may be burned in the same call, and the asset may retire.
LEMMA FreeCollateralPreserves ==
    ASSUME IInv, FreeCollateral, ~settlement.isConfigured, status' \in Status,
           cur' \in [Class -> Nat], old' \in [Class -> Nat],
           UNCHANGED <<now, pool, policy, maturityDate, backed, settlement, earnings,
                       earningsOwed, cashVars>>
    PROVE  IInv'
<1> DEFINE freed == ReleasedTotal(coll)
           held == TotalCollateral(coll)
<1>1. TypeOK /\ coll \in CollateralInfo /\ held \in Nat /\ totalCollateralDeposited \in Nat
      /\ coll.reservedForLiquidation \in Nat
  BY DEF IInv, TypeOK, CollateralInfo, TotalCollateral
<1>2. freed \in 0 .. held
  BY <1>1 DEF ReleasedTotal, Lesser
<1>3. /\ coll' = Cleared(coll)
      /\ totalCollateralDeposited' \in Nat
      /\ pending' = [pending EXCEPT !.partner = @ + freed]
  BY <1>1 DEF FreeCollateral, ClearedTotal, Monus
<1>4. /\ TotalCollateral(coll') = 0 /\ coll'.reservedForLiquidation = 0
      /\ coll'.unredeemedBasePrincipal = 0 /\ coll'.isLocked = FALSE
      /\ coll'.releasedProtectedBase = 0 /\ coll' \in CollateralInfo
      /\ coll'.lockedAt = coll.lockedAt
      /\ coll'.lastEventTimestamp = coll.lastEventTimestamp
  BY <1>1, <1>3, ClearedFacts
<1>5. SettlementOwed \in Nat
  BY <1>1, SupplyNat
<1> HIDE DEF freed, held
<1>6. TypeOK'
  <2>1. pending' \in [partner : Nat, holders : Nat, fee : Nat]
    <3>1. pending.partner + freed \in Nat
      BY <1>1, <1>2 DEF TypeOK
    <3> QED
      BY <1>1, <1>3, <3>1 DEF TypeOK
  <2> QED
    BY <1>1, <1>3, <1>4, <2>1 DEF TypeOK, cashVars
<1>7. SettlementOwed' = 0
  <2>1. settlement.settlementPerToken = 0
    BY DEF IInv, SettledIsFinal
  <2>2. Supply' \in Nat
    BY <1>6 DEF TypeOK, Supply, Tokens, Class
  <2>3. SettlementOwed' = 0 * Supply'
    BY <2>1 DEF SettlementOwed
  <2> QED
    BY <2>2, <2>3, NothingTimes
<1>8. Solvent'
  <2>1. /\ pending'.partner = pending.partner + freed
        /\ pending'.holders = pending.holders /\ pending'.fee = pending.fee
    BY <1>1, <1>3 DEF TypeOK
  <2>2. Obligations' = pending.partner + freed + pending.holders + pending.fee + earningsOwed
    BY <1>1, <1>2, <1>4, <1>7, <2>1 DEF Obligations, TypeOK
  <2>3. Obligations = pending.partner + pending.holders + pending.fee + held
                      + coll.reservedForLiquidation + SettlementOwed + earningsOwed
    BY DEF Obligations, held
  <2>4. Obligations' <= Obligations
    BY <1>1, <1>2, <1>5, <2>2, <2>3 DEF TypeOK
  <2> QED
    BY <1>1, <1>2, <1>5, <2>2, <2>3, <2>4 DEF IInv, Solvent, TypeOK, cashVars
<1>9. SettlementFunded' /\ TotalCoversCollateral' /\ PrincipalAccounted'
  <2>1. settlement.claimedPayout = 0 /\ settlement.settlementAmount \in Nat
    BY <1>1 DEF IInv, SettledIsFinal, TypeOK
  <2>2. SettlementFunded'
    BY <1>7, <2>1 DEF SettlementFunded
  <2>3. TotalCoversCollateral'
    BY <1>3, <1>4 DEF TotalCoversCollateral
  <2>4. PrincipalAccounted'
    BY <1>4 DEF PrincipalAccounted, CollateralInfo
  <2> QED
    BY <2>2, <2>3, <2>4
<1>10. /\ LockedHasClocks' /\ SettledIsFinal' /\ SettledHasNoExposure'
      /\ UnprocessedOnlyIfFlagged'
  BY <1>4 DEF IInv, LockedHasClocks, SettledIsFinal, SettledHasNoExposure,
     UnprocessedOnlyIfFlagged
<1> QED
  BY <1>6, <1>8, <1>9, <1>10 DEF IInv


LEMMA ReleaseCollateralPreserves ==
    ASSUME IInv, ReleaseCollateral
    PROVE  IInv'
<1>1. ~settlement.isConfigured
  BY DEF IInv, SettledIsFinal, ReleaseCollateral
<1>2. /\ status' \in Status /\ cur' \in [Class -> Nat] /\ old' \in [Class -> Nat]
  BY DEF IInv, TypeOK, ReleaseCollateral, assetVars, tokenVars
<1> QED
  BY <1>1, <1>2, FreeCollateralPreserves DEF ReleaseCollateral, assetVars, tokenVars

\* A retirement leaves unlocked collateral where it is.
LEMMA RetireUnlockedPreserves ==
    ASSUME IInv, ~coll.isLocked, ~settlement.isConfigured, status' \in Terminal,
           cur' \in [Class -> Nat], old' \in [Class -> Nat],
           UNCHANGED <<now, pool, policy, maturityDate, coll, backed, settlement,
                       earnings, earningsOwed, moneyVars>>
    PROVE  IInv'
<1>1. TypeOK /\ TypeOK'
  BY DEF IInv, TypeOK, moneyVars, cashVars, Terminal, Status
<1>2. settlement.settlementPerToken = 0 /\ settlement.claimedPayout = 0
  BY DEF IInv, SettledIsFinal
<1>3. SettlementOwed = 0 /\ SettlementOwed' = 0
  <2>1. Supply \in Nat /\ Supply' \in Nat
    BY <1>1 DEF TypeOK, Supply, Tokens, Class
  <2>2. SettlementOwed = 0 * Supply /\ SettlementOwed' = 0 * Supply'
    BY <1>2 DEF SettlementOwed
  <2> QED
    BY <2>1, <2>2, NothingTimes
<1> QED
  BY <1>1, <1>2, <1>3 DEF IInv, Solvent, Obligations, SettlementFunded,
     TotalCoversCollateral, TotalCollateral, PrincipalAccounted, LockedHasClocks,
     SettledIsFinal, SettledHasNoExposure, UnprocessedOnlyIfFlagged, moneyVars, cashVars

LEMMA RetireAssetPreserves ==
    ASSUME IInv, RetireAsset
    PROVE  IInv'
<1>1. ~settlement.isConfigured
  BY DEF IInv, SettledIsFinal, RetireAsset, Operational, Terminal
<1>2. /\ status' \in Terminal /\ status' \in Status
      /\ cur' \in [Class -> Nat] /\ old' \in [Class -> Nat]
      /\ UNCHANGED <<now, pool, policy, maturityDate, backed, settlement, earnings,
                     earningsOwed, cashVars>>
  BY DEF IInv, TypeOK, RetireAsset, Terminal, Status, tokenVars
<1>3. CASE coll.isLocked
  BY <1>1, <1>2, <1>3, FreeCollateralPreserves DEF RetireAsset
<1>4. CASE ~coll.isLocked
  BY <1>1, <1>2, <1>4, RetireUnlockedPreserves DEF RetireAsset, moneyVars
<1> QED
  BY <1>3, <1>4

LEMMA RetireAssetAndBurnTokensPreserves ==
    ASSUME IInv, RetireAssetAndBurnTokens
    PROVE  IInv'
<1>1. ~settlement.isConfigured
  BY DEF IInv, SettledIsFinal, RetireAssetAndBurnTokens, Operational, Terminal
<1>2. /\ status' \in Terminal /\ status' \in Status
      /\ cur' \in [Class -> Nat] /\ old' \in [Class -> Nat]
      /\ UNCHANGED <<now, pool, policy, maturityDate, backed, settlement, earnings,
                     earningsOwed, cashVars>>
  BY DEF RetireAssetAndBurnTokens, Terminal, Status
<1>3. CASE coll.isLocked
  BY <1>1, <1>2, <1>3, FreeCollateralPreserves DEF RetireAssetAndBurnTokens
<1>4. CASE ~coll.isLocked
  BY <1>1, <1>2, <1>4, RetireUnlockedPreserves DEF RetireAssetAndBurnTokens, moneyVars
<1> QED
  BY <1>3, <1>4

-----------------------------------------------------------------------------
(* Settlement, liquidation and claims.                                       *)

\* Missed earnings only fill the reserve from the earnings buffer.
LEMMA AfterMissedEarningsSameValue ==
    ASSUME TypeOK
    PROVE  SameValue(AfterMissedEarnings) /\ AfterMissedEarnings.lastEventTimestamp <= now
<1>1. coll \in CollateralInfo /\ now \in Nat /\ coll.lastEventTimestamp <= now
  BY DEF TypeOK
<1>2. CASE MissedWindow /\ now > earnings.lastEventTimestamp
  <2> DEFINE c == AfterEarnings(coll, policy, 0, now - earnings.lastEventTimestamp)
  <2>1. now - earnings.lastEventTimestamp \in Nat
    BY <1>1, <1>2 DEF TypeOK
  <2>2. SameValue(c)
    BY <2>1, AfterEarningsSameValue
  <2>3. AfterMissedEarnings = [c EXCEPT !.lastEventTimestamp = now]
    BY <1>2 DEF AfterMissedEarnings
  <2> HIDE DEF c
  <2>4. c \in CollateralInfo
    BY <2>2 DEF SameValue
  <2>5. AfterMissedEarnings \in CollateralInfo
    BY <1>1, <2>3, <2>4 DEF CollateralInfo
  <2>6. /\ AfterMissedEarnings.baseCollateral = c.baseCollateral
        /\ AfterMissedEarnings.protocolBuffer = c.protocolBuffer
        /\ AfterMissedEarnings.earningsBuffer = c.earningsBuffer
        /\ AfterMissedEarnings.reservedForLiquidation = c.reservedForLiquidation
        /\ AfterMissedEarnings.unredeemedBasePrincipal = c.unredeemedBasePrincipal
        /\ AfterMissedEarnings.releasedProtectedBase = c.releasedProtectedBase
        /\ AfterMissedEarnings.releasedBaseCollateral = c.releasedBaseCollateral
        /\ AfterMissedEarnings.isLocked = c.isLocked
        /\ AfterMissedEarnings.lockedAt = c.lockedAt
        /\ AfterMissedEarnings.lastEventTimestamp = now
    BY <2>3, <2>4 DEF CollateralInfo
  <2> QED
    BY <1>1, <2>2, <2>5, <2>6 DEF SameValue
<1>3. CASE ~(MissedWindow /\ now > earnings.lastEventTimestamp)
  BY <1>1, <1>3 DEF AfterMissedEarnings, SameValue
<1> QED
  BY <1>2, <1>3

\* A settlement divides what the collateral and the top-up bring: the pool of
\* the holders, and `gain` for the partner and the fee recipient.
LEMMA SettlePreserves ==
    ASSUME IInv, ~settlement.isConfigured, NEW c, SameValue(c),
           c.lastEventTimestamp <= now,
           NEW amount \in Nat, NEW topUp \in Nat, NEW gain \in Nat,
           amount + gain
              <= TotalCollateral(coll) + coll.reservedForLiquidation + topUp,
           NEW st \in Terminal, Settle(c, amount, st),
           cash' = cash + topUp, paidIn' \in Nat,
           pending' \in [partner : Nat, holders : Nat, fee : Nat],
           pending'.partner + pending'.holders + pending'.fee
              = pending.partner + pending.holders + pending.fee + gain
    PROVE  IInv'
<1> DEFINE perToken == IF Supply > 0 THEN amount \div Supply ELSE 0
<1>1. /\ TypeOK /\ Supply \in Nat /\ SettlementOwed \in Nat
      /\ c \in CollateralInfo /\ c.lockedAt <= now
  BY SupplyNat DEF IInv, SameValue, TypeOK
<1>2. perToken \in Nat /\ perToken * Supply \in Nat /\ perToken * Supply <= amount
  <2>1. CASE Supply > 0
    <3>1. amount \div Supply \in Nat /\ (amount \div Supply) * Supply <= amount
      BY <1>1, <2>1, DivisionTruncates
    <3> QED
      BY <1>1, <2>1, <3>1, ProductNat
  <2>2. CASE ~(Supply > 0)
    BY <1>1, <2>2, NothingTimes
  <2> QED
    BY <2>1, <2>2
<1>3. /\ coll' = Cleared(c)
      /\ totalCollateralDeposited' = ClearedTotal(c)
      /\ settlement' = [isConfigured |-> TRUE, settlementAmount |-> amount,
                        settlementPerToken |-> perToken, claimedPayout |-> 0]
      /\ earnings' = IF MissedWindow /\ now > earnings.lastEventTimestamp
                     THEN [earnings EXCEPT !.lastEventTimestamp = now] ELSE earnings
      /\ status' = st /\ pool' = ClosedPool
      /\ now' = now /\ policy' = policy /\ maturityDate' = maturityDate
      /\ cur' = cur /\ old' = old /\ backed' = backed /\ earningsOwed' = earningsOwed
  BY DEF Settle, PerToken, tokenVars
<1> HIDE DEF perToken
<1>4. /\ coll' \in CollateralInfo
      /\ TotalCollateral(coll') = 0 /\ coll'.reservedForLiquidation = 0
      /\ coll'.releasedProtectedBase = 0 /\ coll'.unredeemedBasePrincipal = 0
      /\ coll'.isLocked = FALSE /\ coll'.lockedAt = c.lockedAt
      /\ coll'.lastEventTimestamp = c.lastEventTimestamp
  BY <1>1, <1>3, ClearedFacts
<1>5. totalCollateralDeposited' \in Nat
  BY <1>1, <1>3 DEF ClearedTotal, Monus, TypeOK, TotalCollateral, CollateralInfo
<1>6. TypeOK'
  <2>1. pool' \in {"none", "open", "paused", "closed"} /\ status' \in Status
    BY <1>3 DEF ClosedPool, Terminal, Status
  <2>2. /\ earnings' \in [currentPeriod : Nat, lastEventTimestamp : Nat,
                          unprocessed : Nat, hasUnprocessed : BOOLEAN]
        /\ earnings'.lastEventTimestamp <= now
    BY <1>1, <1>3 DEF TypeOK
  <2>3. cash' \in Nat
    BY <1>1 DEF TypeOK
  <2>4. settlement' \in [isConfigured : BOOLEAN, settlementAmount : Nat,
                         settlementPerToken : Nat, claimedPayout : Nat]
    BY <1>2, <1>3
  <2> QED
    BY <1>1, <1>3, <1>4, <1>5, <2>1, <2>2, <2>3, <2>4 DEF TypeOK
<1>7. SettlementOwed' = perToken * Supply
  BY <1>3 DEF SettlementOwed, Supply, Tokens
<1>8. Solvent'
  <2>1. TotalCollateral(coll) \in Nat /\ coll.reservedForLiquidation \in Nat
    BY <1>1 DEF TypeOK, TotalCollateral, CollateralInfo
  <2>2. Obligations' = pending.partner + pending.holders + pending.fee + gain
                       + perToken * Supply + earningsOwed
    BY <1>1, <1>2, <1>3, <1>4, <1>6, <1>7 DEF Obligations, TypeOK
  <2>3. Obligations = pending.partner + pending.holders + pending.fee
                      + (TotalCollateral(coll) + coll.reservedForLiquidation)
                      + SettlementOwed + earningsOwed
    BY <1>1, <2>1 DEF Obligations, TypeOK
  <2>4. Obligations' <= Obligations + topUp
    BY <1>1, <1>2, <2>1, <2>2, <2>3 DEF TypeOK
  <2> QED
    BY <1>1, <1>2, <2>1, <2>2, <2>3, <2>4 DEF IInv, Solvent, TypeOK
<1>9. SettlementFunded' /\ TotalCoversCollateral' /\ PrincipalAccounted'
  <2>1. SettlementFunded'
    BY <1>2, <1>3, <1>7 DEF SettlementFunded
  <2>2. TotalCoversCollateral'
    BY <1>4, <1>5 DEF TotalCoversCollateral
  <2>3. PrincipalAccounted'
    BY <1>4 DEF PrincipalAccounted, CollateralInfo
  <2> QED
    BY <2>1, <2>2, <2>3
<1>10. /\ LockedHasClocks' /\ SettledIsFinal' /\ SettledHasNoExposure'
       /\ UnprocessedOnlyIfFlagged'
  <2>1. UnprocessedOnlyIfFlagged'
    BY <1>1, <1>3 DEF IInv, UnprocessedOnlyIfFlagged, TypeOK
  <2> QED
    BY <1>3, <1>4, <2>1 DEF LockedHasClocks, SettledIsFinal, SettledHasNoExposure
<1> QED
  BY <1>6, <1>8, <1>9, <1>10 DEF IInv

LEMMA SettleAssetPreserves ==
    ASSUME IInv, NEW extra \in ExtraTopUps, SettleAsset(extra)
    PROVE  IInv'
<1> DEFINE c == AfterMissedEarnings
           topUp == RequiredTopUp(c) + extra
           claimable == c.baseCollateral + c.reservedForLiquidation + topUp
<1>1. /\ TypeOK /\ SameValue(c) /\ c.lastEventTimestamp <= now
      /\ ~settlement.isConfigured
  BY AfterMissedEarningsSameValue DEF IInv, SettleAsset
<1>2. topUp \in Nat
  <2>1. c \in CollateralInfo /\ now \in Nat /\ c.lockedAt <= now
    BY <1>1 DEF SameValue, TypeOK
  <2>2. ResidualBaseValue(c, now) \in Nat /\ c.baseCollateral \in Nat
    BY <2>1, ResidualBaseValueNat DEF CollateralInfo
  <2>3. RequiredTopUp(c) \in Nat
    BY <2>2 DEF RequiredTopUp, Monus
  <2> QED
    BY <2>3, TreasuryAssumption
<1>3. /\ paidIn' = paidIn + topUp /\ cash' = cash + topUp
      /\ IF Matured
         THEN /\ Settle(c, claimable, "Retired")
              /\ pending' = [pending EXCEPT
                               !.partner = @ + c.earningsBuffer + c.protocolBuffer]
         ELSE /\ Settle(c, claimable + c.earningsBuffer, "Retired")
              /\ pending' = [pending EXCEPT !.fee = @ + c.protocolBuffer]
  BY DEF SettleAsset, PayIn
<1> HIDE DEF c, topUp
<1>4. /\ c.baseCollateral \in Nat /\ c.reservedForLiquidation \in Nat
      /\ c.earningsBuffer \in Nat /\ c.protocolBuffer \in Nat
      /\ c.baseCollateral + c.reservedForLiquidation + c.earningsBuffer + c.protocolBuffer
            = TotalCollateral(coll) + coll.reservedForLiquidation
  BY <1>1 DEF SameValue, CollateralInfo, TotalCollateral, TypeOK
<1>5. paidIn' \in Nat /\ "Retired" \in Terminal
  BY <1>1, <1>2, <1>3 DEF TypeOK, Terminal
<1>6. CASE Matured
  <2> DEFINE gain == c.earningsBuffer + c.protocolBuffer
  <2>1. pending' = [pending EXCEPT !.partner = @ + c.earningsBuffer + c.protocolBuffer]
        /\ Settle(c, claimable, "Retired")
    BY <1>3, <1>6
  <2>2. /\ pending' \in [partner : Nat, holders : Nat, fee : Nat]
        /\ pending'.partner + pending'.holders + pending'.fee
              = pending.partner + pending.holders + pending.fee + gain
    BY <1>1, <1>4, <2>1 DEF TypeOK
  <2>3. /\ claimable \in Nat /\ gain \in Nat
        /\ claimable + gain
              <= TotalCollateral(coll) + coll.reservedForLiquidation + topUp
    BY <1>1, <1>2, <1>4 DEF TypeOK, TotalCollateral, CollateralInfo
  <2> QED
    BY <1>1, <1>2, <1>3, <1>5, <2>1, <2>2, <2>3, SettlePreserves
<1>7. CASE ~Matured
  <2> DEFINE gain == c.protocolBuffer
             amount == claimable + c.earningsBuffer
  <2>1. pending' = [pending EXCEPT !.fee = @ + c.protocolBuffer]
        /\ Settle(c, amount, "Retired")
    BY <1>3, <1>7
  <2>2. /\ pending' \in [partner : Nat, holders : Nat, fee : Nat]
        /\ pending'.partner + pending'.holders + pending'.fee
              = pending.partner + pending.holders + pending.fee + gain
    BY <1>1, <1>4, <2>1 DEF TypeOK
  <2>3. /\ amount \in Nat /\ gain \in Nat
        /\ amount + gain
              <= TotalCollateral(coll) + coll.reservedForLiquidation + topUp
    BY <1>1, <1>2, <1>4 DEF TypeOK, TotalCollateral, CollateralInfo
  <2> QED
    BY <1>1, <1>2, <1>3, <1>5, <2>1, <2>2, <2>3, SettlePreserves
<1> QED
  BY <1>6, <1>7

LEMMA LiquidateAssetPreserves ==
    ASSUME IInv, LiquidateAsset
    PROVE  IInv'
<1> DEFINE c == AfterMissedEarnings
           claimable == c.baseCollateral + c.reservedForLiquidation
           amount == IF Matured THEN claimable ELSE claimable + c.earningsBuffer
<1>1. /\ TypeOK /\ SameValue(c) /\ c.lastEventTimestamp <= now
      /\ ~settlement.isConfigured
  BY AfterMissedEarningsSameValue DEF IInv, LiquidateAsset
<1>2. /\ Settle(c, amount, "Expired")
      /\ pending' = [pending EXCEPT !.fee = @ + c.protocolBuffer]
      /\ cash' = cash /\ paidIn' = paidIn
  BY DEF LiquidateAsset, cashVars
<1> HIDE DEF c
<1>3. /\ c.baseCollateral \in Nat /\ c.reservedForLiquidation \in Nat
      /\ c.earningsBuffer \in Nat /\ c.protocolBuffer \in Nat
      /\ c.baseCollateral + c.reservedForLiquidation + c.earningsBuffer + c.protocolBuffer
            = TotalCollateral(coll) + coll.reservedForLiquidation
  BY <1>1 DEF SameValue, CollateralInfo, TotalCollateral, TypeOK
<1>4. /\ amount \in Nat /\ amount <= claimable + c.earningsBuffer
  BY <1>3
<1> HIDE DEF amount
<1>5. /\ pending' \in [partner : Nat, holders : Nat, fee : Nat]
      /\ pending'.partner + pending'.holders + pending'.fee
            = pending.partner + pending.holders + pending.fee + c.protocolBuffer
  BY <1>1, <1>2, <1>3 DEF TypeOK
<1>6. amount + c.protocolBuffer
         <= TotalCollateral(coll) + coll.reservedForLiquidation + 0
  <2>1. TotalCollateral(coll) + coll.reservedForLiquidation \in Nat
    BY <1>1 DEF TypeOK, TotalCollateral, CollateralInfo
  <2> QED
    BY <1>3, <1>4, <2>1
<1>7. cash' = cash + 0 /\ paidIn' \in Nat /\ "Expired" \in Terminal /\ 0 \in Nat
  BY <1>1, <1>2 DEF TypeOK, Terminal
<1> QED
  BY <1>1, <1>2, <1>3, <1>4, <1>5, <1>6, <1>7, SettlePreserves

\* Tokens that leave a class leave the supply.
LEMMA TokensTaken ==
    ASSUME TypeOK, NEW k \in Class, NEW c \in Nat, NEW o \in Nat,
           c <= cur[k], o <= old[k],
           cur' = [cur EXCEPT ![k] = @ - c], old' = [old EXCEPT ![k] = @ - o]
    PROVE  /\ cur' \in [Class -> Nat] /\ old' \in [Class -> Nat]
           /\ c + o \in 0 .. Supply /\ Supply' = Supply - (c + o)
<1>1. /\ cur \in [Class -> Nat] /\ old \in [Class -> Nat]
  BY DEF TypeOK
<1>2. /\ cur["partner"] \in Nat /\ cur["investor"] \in Nat
      /\ old["partner"] \in Nat /\ old["investor"] \in Nat
  BY <1>1 DEF Class
<1>3. cur' \in [Class -> Nat] /\ old' \in [Class -> Nat]
  BY <1>1
<1>4. CASE k = "partner"
  <2>1. /\ cur'["partner"] = cur["partner"] - c /\ cur'["investor"] = cur["investor"]
        /\ old'["partner"] = old["partner"] - o /\ old'["investor"] = old["investor"]
    BY <1>1, <1>4 DEF Class
  <2> QED
    BY <1>2, <1>3, <1>4, <2>1 DEF Supply, Tokens
<1>5. CASE k = "investor"
  <2>1. /\ cur'["investor"] = cur["investor"] - c /\ cur'["partner"] = cur["partner"]
        /\ old'["investor"] = old["investor"] - o /\ old'["partner"] = old["partner"]
    BY <1>1, <1>5 DEF Class
  <2> QED
    BY <1>2, <1>3, <1>5, <2>1 DEF Supply, Tokens
<1> QED
  BY <1>4, <1>5 DEF Class

\* A claim turns the settlement of the burned tokens into a credit.
LEMMA ClaimSettlementPreserves ==
    ASSUME IInv, NEW k \in Class, NEW c \in 0 .. MaxSupply, NEW o \in 0 .. MaxSupply,
           NEW credit \in {0} \cup PartOf(earningsOwed), ClaimSettlement(k, c, o, credit)
    PROVE  IInv'
<1> DEFINE payout == (c + o) * settlement.settlementPerToken
<1>1. /\ TypeOK /\ c \in Nat /\ o \in Nat /\ credit \in Nat /\ credit <= earningsOwed
      /\ Supply \in Nat /\ SettlementOwed \in Nat
  BY SupplyNat, TreasuryAssumption DEF IInv, PartOf, TypeOK
<1>2. /\ settlement.isConfigured /\ c <= cur[k] /\ o <= old[k]
      /\ settlement' = [settlement EXCEPT !.claimedPayout = @ + payout]
      /\ pending' = [pending EXCEPT ![PayoutAccount(k)] = @ + payout + credit]
      /\ earningsOwed' = earningsOwed - credit
      /\ cur' = [cur EXCEPT ![k] = @ - c] /\ old' = [old EXCEPT ![k] = @ - o]
      /\ now' = now /\ status' = status /\ pool' = pool /\ policy' = policy
      /\ maturityDate' = maturityDate /\ coll' = coll /\ backed' = backed
      /\ earnings' = earnings /\ totalCollateralDeposited' = totalCollateralDeposited
      /\ cash' = cash /\ paidIn' = paidIn
  BY DEF ClaimSettlement, assetVars, cashVars
<1>3. /\ cur' \in [Class -> Nat] /\ old' \in [Class -> Nat]
      /\ c + o \in 0 .. Supply /\ Supply' = Supply - (c + o)
  BY <1>1, <1>2, TokensTaken
<1>4. /\ payout \in Nat /\ SettlementOwed = payout + SettlementOwed'
      /\ SettlementOwed' \in Nat
  <2>1. settlement.settlementPerToken \in Nat
    BY <1>1 DEF TypeOK
  <2>2. settlement'.settlementPerToken = settlement.settlementPerToken
    BY <1>1, <1>2 DEF TypeOK
  <2>3. SettlementOwed' = settlement.settlementPerToken * (Supply - (c + o))
    BY <1>3, <2>2 DEF SettlementOwed
  <2> QED
    BY <1>1, <1>3, <2>1, <2>3, SharesSplit DEF SettlementOwed
<1> HIDE DEF payout
<1>5. /\ settlement' \in [isConfigured : BOOLEAN, settlementAmount : Nat,
                          settlementPerToken : Nat, claimedPayout : Nat]
      /\ settlement'.claimedPayout = settlement.claimedPayout + payout
      /\ settlement'.isConfigured = settlement.isConfigured
      /\ settlement'.settlementAmount = settlement.settlementAmount
  <2>1. settlement.claimedPayout + payout \in Nat
    BY <1>1, <1>4 DEF TypeOK
  <2> QED
    BY <1>1, <1>2, <2>1 DEF TypeOK
<1>6. /\ pending' \in [partner : Nat, holders : Nat, fee : Nat]
      /\ pending'.partner + pending'.holders + pending'.fee
            = pending.partner + pending.holders + pending.fee + payout + credit
  <2>1. /\ pending \in [partner : Nat, holders : Nat, fee : Nat]
        /\ pending.partner + payout + credit \in Nat
        /\ pending.holders + payout + credit \in Nat
    BY <1>1, <1>4 DEF TypeOK
  <2>2. CASE k = "partner"
    <3>1. pending' = [pending EXCEPT !.partner = @ + payout + credit]
      BY <1>2, <2>2 DEF PayoutAccount
    <3> QED
      BY <1>1, <1>4, <2>1, <3>1
  <2>3. CASE k # "partner"
    <3>1. pending' = [pending EXCEPT !.holders = @ + payout + credit]
      BY <1>2, <2>3 DEF PayoutAccount
    <3> QED
      BY <1>1, <1>4, <2>1, <3>1
  <2> QED
    BY <2>2, <2>3
<1>7. earningsOwed' \in Nat
  BY <1>1, <1>2 DEF TypeOK
<1>8. TypeOK'
  BY <1>1, <1>2, <1>3, <1>5, <1>6, <1>7 DEF TypeOK
<1>9. Solvent'
  <2>1. TotalCollateral(coll) \in Nat /\ coll.reservedForLiquidation \in Nat
    BY <1>1 DEF TypeOK, TotalCollateral, CollateralInfo
  <2>2. Obligations' = Obligations
    BY <1>1, <1>2, <1>4, <1>6, <1>8, <2>1 DEF Obligations, TypeOK
  <2> QED
    BY <1>2, <2>2 DEF IInv, Solvent
<1>10. SettlementFunded' /\ TotalCoversCollateral' /\ PrincipalAccounted'
  BY <1>1, <1>2, <1>4, <1>5 DEF IInv, SettlementFunded, TotalCoversCollateral,
     PrincipalAccounted, TypeOK
<1>11. /\ LockedHasClocks' /\ SettledIsFinal' /\ SettledHasNoExposure'
       /\ UnprocessedOnlyIfFlagged'
  BY <1>2, <1>5 DEF IInv, LockedHasClocks, SettledIsFinal, SettledHasNoExposure,
     UnprocessedOnlyIfFlagged
<1> QED
  BY <1>8, <1>9, <1>10, <1>11 DEF IInv

-----------------------------------------------------------------------------
(* Tokens and money that move without the collateral.                        *)

\* Tokens that move or burn never raise what the settlement owes.
LEMMA TokenMovePreserves ==
    ASSUME IInv, cur' \in [Class -> Nat], old' \in [Class -> Nat], Supply' <= Supply,
           NEW fee \in Nat, cash' = cash + fee, paidIn' \in Nat,
           pending' = [pending EXCEPT !.fee = @ + fee],
           UNCHANGED <<now, status, pool, policy, maturityDate, coll, backed, settlement,
                       earnings, earningsOwed, totalCollateralDeposited>>
    PROVE  IInv'
<1>1. TypeOK /\ Supply \in Nat /\ SettlementOwed \in Nat
  BY SupplyNat DEF IInv
<1>2. /\ pending' \in [partner : Nat, holders : Nat, fee : Nat]
      /\ pending'.partner = pending.partner /\ pending'.holders = pending.holders
      /\ pending'.fee = pending.fee + fee
  <2>1. pending.fee + fee \in Nat
    BY <1>1 DEF TypeOK
  <2> QED
    BY <1>1, <2>1 DEF TypeOK
<1>3. TypeOK'
  BY <1>1, <1>2 DEF TypeOK
<1>4. SettlementOwed' \in Nat /\ SettlementOwed' <= SettlementOwed
  <2>1. Supply' \in Nat /\ settlement.settlementPerToken \in Nat
    BY <1>1, <1>3 DEF TypeOK, Supply, Tokens, Class
  <2>2. Supply - Supply' \in 0 .. Supply /\ Supply - (Supply - Supply') = Supply'
    BY <1>1, <2>1
  <2>3. settlement.settlementPerToken * Supply' <= settlement.settlementPerToken * Supply
        /\ settlement.settlementPerToken * Supply' \in Nat
    BY <1>1, <2>1, <2>2, SharesSplit
  <2> QED
    BY <2>3 DEF SettlementOwed
<1>5. Solvent'
  <2>1. TotalCollateral(coll) \in Nat /\ coll.reservedForLiquidation \in Nat
    BY <1>1 DEF TypeOK, TotalCollateral, CollateralInfo
  <2>2. Obligations' <= Obligations + fee /\ Obligations \in Nat /\ Obligations' \in Nat
    BY <1>1, <1>2, <1>4, <2>1 DEF Obligations, TypeOK
  <2> QED
    BY <1>1, <2>2 DEF IInv, Solvent, TypeOK
<1>6. SettlementFunded' /\ TotalCoversCollateral' /\ PrincipalAccounted'
  BY <1>1, <1>4 DEF IInv, SettlementFunded, TotalCoversCollateral, PrincipalAccounted,
     TypeOK
<1>7. /\ LockedHasClocks' /\ SettledIsFinal' /\ SettledHasNoExposure'
      /\ UnprocessedOnlyIfFlagged'
  BY DEF IInv, LockedHasClocks, SettledIsFinal, SettledHasNoExposure,
     UnprocessedOnlyIfFlagged
<1> QED
  BY <1>3, <1>5, <1>6, <1>7 DEF IInv

\* Moving tokens between the classes keeps the supply.
LEMMA MovedKeepsSupply ==
    ASSUME TypeOK, NEW from \in Class, NEW to \in Class, from # to,
           NEW c \in Nat, NEW o \in Nat, c <= cur[from], o <= old[from],
           cur' = Moved(cur, from, to, c), old' = Moved(old, from, to, o)
    PROVE  /\ cur' \in [Class -> Nat] /\ old' \in [Class -> Nat]
           /\ Supply' <= Supply
<1>1. cur \in [Class -> Nat] /\ old \in [Class -> Nat]
  BY DEF TypeOK
<1>2. /\ cur["partner"] \in Nat /\ cur["investor"] \in Nat
      /\ old["partner"] \in Nat /\ old["investor"] \in Nat
  BY <1>1 DEF Class
<1>3. cur' \in [Class -> Nat] /\ old' \in [Class -> Nat]
  BY <1>1 DEF Moved
<1>4. CASE from = "partner"
  <2>1. /\ to = "investor"
        /\ cur'["partner"] = cur["partner"] - c /\ cur'["investor"] = cur["investor"] + c
        /\ old'["partner"] = old["partner"] - o /\ old'["investor"] = old["investor"] + o
    BY <1>1, <1>4 DEF Moved, Class
  <2> QED
    BY <1>2, <1>3, <2>1 DEF Supply, Tokens
<1>5. CASE from = "investor"
  <2>1. /\ to = "partner"
        /\ cur'["investor"] = cur["investor"] - c /\ cur'["partner"] = cur["partner"] + c
        /\ old'["investor"] = old["investor"] - o /\ old'["partner"] = old["partner"] + o
    BY <1>1, <1>5 DEF Moved, Class
  <2> QED
    BY <1>2, <1>3, <2>1 DEF Supply, Tokens
<1> QED
  BY <1>3, <1>4, <1>5 DEF Class

LEMMA BurnRevenueTokensPreserves ==
    ASSUME IInv, NEW k \in Class, NEW c \in 0 .. MaxSupply, NEW o \in 0 .. MaxSupply,
           BurnRevenueTokens(k, c, o)
    PROVE  IInv'
<1>1. TypeOK /\ c \in Nat /\ o \in Nat /\ Supply \in Nat
  BY SupplyNat, TreasuryAssumption DEF IInv
<1>2. cur' \in [Class -> Nat] /\ old' \in [Class -> Nat] /\ Supply' <= Supply
  <2>1. /\ c <= cur[k] /\ o <= old[k]
        /\ cur' = [cur EXCEPT ![k] = @ - c] /\ old' = [old EXCEPT ![k] = @ - o]
    BY DEF BurnRevenueTokens
  <2>2. /\ cur' \in [Class -> Nat] /\ old' \in [Class -> Nat]
        /\ c + o \in 0 .. Supply /\ Supply' = Supply - (c + o)
    BY <1>1, <2>1, TokensTaken
  <2> QED
    BY <1>1, <2>2
<1>3. pending' = [pending EXCEPT !.fee = @ + 0]
  BY <1>1 DEF BurnRevenueTokens, moneyVars, TypeOK
<1>4. cash' = cash + 0 /\ paidIn' \in Nat /\ 0 \in Nat
  BY <1>1 DEF BurnRevenueTokens, moneyVars, cashVars, TypeOK
<1> QED
  BY <1>2, <1>3, <1>4, TokenMovePreserves DEF BurnRevenueTokens, assetVars, moneyVars

LEMMA TransferTokensPreserves ==
    ASSUME IInv, NEW from \in Class, NEW to \in Class, NEW c \in 0 .. MaxSupply,
           NEW o \in 0 .. MaxSupply, TransferTokens(from, to, c, o)
    PROVE  IInv'
<1>1. TypeOK /\ c \in Nat /\ o \in Nat
  BY TreasuryAssumption DEF IInv
<1>2. cur' \in [Class -> Nat] /\ old' \in [Class -> Nat] /\ Supply' <= Supply
  BY <1>1, MovedKeepsSupply DEF TransferTokens
<1>3. pending' = [pending EXCEPT !.fee = @ + 0]
  BY <1>1 DEF TransferTokens, moneyVars, TypeOK
<1>4. cash' = cash + 0 /\ paidIn' \in Nat /\ 0 \in Nat
  BY <1>1 DEF TransferTokens, moneyVars, cashVars, TypeOK
<1> QED
  BY <1>2, <1>3, <1>4, TokenMovePreserves DEF TransferTokens, assetVars, moneyVars

LEMMA BuyFromSecondaryListingPreserves ==
    ASSUME IInv, NEW from \in Class, NEW to \in Class, NEW c \in 0 .. MaxSupply,
           NEW o \in 0 .. MaxSupply, BuyFromSecondaryListing(from, to, c, o)
    PROVE  IInv'
<1> DEFINE fee == CalculateProtocolFee((c + o) * TokenPrice)
<1>1. TypeOK /\ c \in Nat /\ o \in Nat /\ Supply \in Nat
  BY SupplyNat, TreasuryAssumption DEF IInv
<1>2. fee \in Nat
  BY <1>1, TreasuryAssumption, ProductNat, CalculateProtocolFeeBound
<1>3. /\ c <= cur[from] /\ o <= old[from]
      /\ cur' = IF from = to THEN cur ELSE Moved(cur, from, to, c)
      /\ old' = IF from = to THEN old ELSE Moved(old, from, to, o)
      /\ cash' = cash + fee /\ paidIn' = paidIn + fee
      /\ pending' = [pending EXCEPT !.fee = @ + fee]
      /\ UNCHANGED <<now, status, pool, policy, maturityDate, coll, backed, settlement,
                     earnings, earningsOwed, totalCollateralDeposited>>
  BY DEF BuyFromSecondaryListing, PayIn, assetVars
<1> HIDE DEF fee
<1>4. cur' \in [Class -> Nat] /\ old' \in [Class -> Nat] /\ Supply' <= Supply
  <2>1. CASE from = to
    BY <1>1, <1>3, <2>1 DEF TypeOK, Supply, Tokens
  <2>2. CASE from # to
    BY <1>1, <1>3, <2>2, MovedKeepsSupply
  <2> QED
    BY <2>1, <2>2
<1>5. paidIn' \in Nat
  BY <1>1, <1>2, <1>3 DEF TypeOK
<1> QED
  BY <1>2, <1>3, <1>4, <1>5, TokenMovePreserves

\* Credits and withdrawals keep what the treasury owes within its cash.
LEMMA CreditEarningsWithdrawalPreserves ==
    ASSUME IInv, NEW amount \in PartOf(earningsOwed), CreditEarningsWithdrawal(amount)
    PROVE  IInv'
<1>1. TypeOK /\ amount \in Nat /\ amount <= earningsOwed
  BY TreasuryAssumption DEF IInv, PartOf, TypeOK
<1>2. /\ pending' = [pending EXCEPT !.holders = @ + amount]
      /\ earningsOwed' = earningsOwed - amount
      /\ UNCHANGED <<now, status, pool, policy, maturityDate, coll, cur, old, backed,
                     settlement, earnings, totalCollateralDeposited, cash, paidIn>>
  BY DEF CreditEarningsWithdrawal, assetVars, tokenVars, cashVars
<1>3. /\ pending' \in [partner : Nat, holders : Nat, fee : Nat]
      /\ pending'.partner = pending.partner /\ pending'.fee = pending.fee
      /\ pending'.holders = pending.holders + amount
  <2>1. pending.holders + amount \in Nat
    BY <1>1 DEF TypeOK
  <2> QED
    BY <1>1, <1>2, <2>1 DEF TypeOK
<1>4. TypeOK'
  BY <1>1, <1>2, <1>3 DEF TypeOK
<1>5. SettlementOwed' = SettlementOwed /\ SettlementOwed \in Nat
  BY <1>1, <1>2, SupplyNat DEF SettlementOwed, Supply, Tokens
<1>6. Solvent'
  <2>1. TotalCollateral(coll) \in Nat /\ coll.reservedForLiquidation \in Nat
    BY <1>1 DEF TypeOK, TotalCollateral, CollateralInfo
  <2>2. Obligations' = Obligations
    BY <1>1, <1>2, <1>3, <1>5, <2>1 DEF Obligations, TypeOK
  <2> QED
    BY <1>2, <2>2 DEF IInv, Solvent
<1> QED
  BY <1>2, <1>4, <1>5, <1>6 DEF IInv, SettlementFunded, TotalCoversCollateral,
     PrincipalAccounted, LockedHasClocks, SettledIsFinal, SettledHasNoExposure,
     UnprocessedOnlyIfFlagged

LEMMA ProcessWithdrawalPreserves ==
    ASSUME IInv, NEW account \in {"partner", "holders", "fee"},
           NEW amount \in PartOf(pending[account]), ProcessWithdrawal(account, amount)
    PROVE  IInv'
<1>1. TypeOK /\ amount \in Nat /\ amount <= pending[account]
  <2>1. TypeOK /\ pending[account] \in Nat
    BY DEF IInv, TypeOK
  <2> QED
    BY <2>1, TreasuryAssumption DEF PartOf
<1>2. /\ pending' = [pending EXCEPT ![account] = @ - amount]
      /\ amount <= cash /\ cash' = cash - amount /\ paidIn' = paidIn
      /\ UNCHANGED <<now, status, pool, policy, maturityDate, coll, cur, old, backed,
                     settlement, earnings, earningsOwed, totalCollateralDeposited>>
  BY DEF ProcessWithdrawal, PayOut, assetVars, tokenVars
<1>3. /\ pending' \in [partner : Nat, holders : Nat, fee : Nat]
      /\ pending'.partner + pending'.holders + pending'.fee
            = pending.partner + pending.holders + pending.fee - amount
  <2>1. /\ pending \in [partner : Nat, holders : Nat, fee : Nat]
        /\ pending[account] - amount \in Nat
    BY <1>1 DEF TypeOK
  <2>2. CASE account = "partner"
    <3>1. pending' = [pending EXCEPT !.partner = @ - amount]
      BY <1>2, <2>2
    <3> QED
      BY <1>1, <2>1, <2>2, <3>1
  <2>3. CASE account = "holders"
    <3>1. pending' = [pending EXCEPT !.holders = @ - amount]
      BY <1>2, <2>3
    <3> QED
      BY <1>1, <2>1, <2>3, <3>1
  <2>4. CASE account = "fee"
    <3>1. pending' = [pending EXCEPT !.fee = @ - amount]
      BY <1>2, <2>4
    <3> QED
      BY <1>1, <2>1, <2>4, <3>1
  <2> QED
    BY <2>2, <2>3, <2>4
<1>4. TypeOK'
  BY <1>1, <1>2, <1>3 DEF TypeOK
<1>5. SettlementOwed' = SettlementOwed /\ SettlementOwed \in Nat
  BY <1>1, <1>2, SupplyNat DEF SettlementOwed, Supply, Tokens
<1>6. Solvent'
  <2>1. TotalCollateral(coll) \in Nat /\ coll.reservedForLiquidation \in Nat
    BY <1>1 DEF TypeOK, TotalCollateral, CollateralInfo
  <2>2. Obligations' = Obligations - amount /\ Obligations \in Nat
    BY <1>1, <1>2, <1>3, <1>4, <1>5, <2>1 DEF Obligations, TypeOK
  <2> QED
    BY <1>1, <1>2, <2>2 DEF IInv, Solvent, TypeOK
<1> QED
  BY <1>2, <1>4, <1>5, <1>6 DEF IInv, SettlementFunded, TotalCoversCollateral,
     PrincipalAccounted, LockedHasClocks, SettledIsFinal, SettledHasNoExposure,
     UnprocessedOnlyIfFlagged

LEMMA TickPreserves ==
    ASSUME IInv, Tick
    PROVE  IInv'
<1>1. TypeOK'
  <2>1. /\ TypeOK /\ now' = now + 1
        /\ UNCHANGED <<assetVars, coll, tokenVars, settlement, earnings, earningsOwed,
                       moneyVars>>
    BY DEF IInv, Tick
  <2>2. /\ now' \in Nat \ {0}
        /\ coll'.lockedAt <= now' /\ coll'.lastEventTimestamp <= now'
        /\ earnings'.lastEventTimestamp <= now'
    BY <2>1 DEF TypeOK, CollateralInfo
  <2> QED
    BY <2>1, <2>2 DEF TypeOK, assetVars, tokenVars, moneyVars, cashVars
<1> QED
  BY <1>1 DEF IInv, Tick, Solvent, Obligations, SettlementOwed, Supply, Tokens,
     SettlementFunded, TotalCoversCollateral, PrincipalAccounted, LockedHasClocks,
     SettledIsFinal, SettledHasNoExposure, UnprocessedOnlyIfFlagged, TotalCollateral,
     assetVars, tokenVars, moneyVars, cashVars

LEMMA StutterPreserves ==
    ASSUME IInv, UNCHANGED vars
    PROVE  IInv'
BY DEF IInv, vars, TypeOK, Solvent, Obligations, SettlementOwed, Supply, Tokens,
   SettlementFunded, TotalCoversCollateral, PrincipalAccounted, LockedHasClocks,
   SettledIsFinal, SettledHasNoExposure, UnprocessedOnlyIfFlagged, TotalCollateral,
   assetVars, tokenVars, moneyVars, cashVars

-----------------------------------------------------------------------------
(* The inductive invariant and what follows from it.                         *)

LEMMA NextPreserves ==
    ASSUME IInv, [Next]_vars
    PROVE  IInv'
<1>1. CASE PoolStep
  <2>1. ASSUME NEW p \in Policies, NEW m \in MaturityDates, CreatePool(p, m) PROVE IInv'
    BY <2>1, CreatePoolPreserves
  <2>2. CASE PausePool \/ UnpausePool \/ ClosePool
    BY <2>2, SetPoolStatePreserves
  <2>3. ASSUME NEW k \in Buyers, NEW n \in 1 .. MaxSupply, BuyFromPrimaryPool(k, n)
        PROVE  IInv'
    <3>1. k \in Class
      BY TreasuryAssumption DEF Class
    <3> QED
      BY <2>3, <3>1, BuyFromPrimaryPoolPreserves
  <2>4. ASSUME NEW k \in Class, NEW n \in 1 .. MaxSupply, RedeemPrimaryPool(k, n)
        PROVE  IInv'
    BY <2>4, RedeemPrimaryPoolPreserves
  <2> QED
    BY <1>1, <2>1, <2>2, <2>3, <2>4 DEF PoolStep
<1>2. CASE CollateralStep
  BY <1>2, EnableProceedsPreserves, DistributeEarningsPreserves,
     ReleasePartialCollateralPreserves, ReleaseCollateralPreserves DEF CollateralStep
<1>3. CASE EndStep
  BY <1>3, SettleAssetPreserves, LiquidateAssetPreserves, ClaimSettlementPreserves,
     RetireAssetPreserves, RetireAssetAndBurnTokensPreserves DEF EndStep
<1>4. CASE TokenStep
  <2>1. ASSUME NEW t \in Transfers, NEW c \in 0 .. MaxSupply, NEW o \in 0 .. MaxSupply,
               TransferTokens(t[1], t[2], c, o)
        PROVE  IInv'
    <3>1. t[1] \in Class /\ t[2] \in Class
      BY TreasuryAssumption DEF Class
    <3> QED
      BY <2>1, <3>1, TransferTokensPreserves
  <2> QED
    BY <1>4, <2>1, BurnRevenueTokensPreserves, BuyFromSecondaryListingPreserves
       DEF TokenStep
<1>5. CASE CashStep
  <2>1. ASSUME NEW account \in Withdrawers, NEW a \in PartOf(pending[account]),
               ProcessWithdrawal(account, a)
        PROVE  IInv'
    <3>1. account \in {"partner", "holders", "fee"}
      BY TreasuryAssumption
    <3> QED
      BY <2>1, <3>1, ProcessWithdrawalPreserves
  <2> QED
    BY <1>5, <2>1, CreditEarningsWithdrawalPreserves DEF CashStep
<1>6. CASE Tick
  BY <1>6, TickPreserves
<1>7. CASE UNCHANGED vars
  BY <1>7, StutterPreserves
<1> QED
  BY <1>1, <1>2, <1>3, <1>4, <1>5, <1>6, <1>7 DEF Next

THEOREM Invariance == Spec => []IInv
<1>1. Init => IInv
  BY InitIInv
<1>2. IInv /\ [Next]_vars => IInv'
  BY NextPreserves
<1> QED
  BY <1>1, <1>2, PTL DEF Spec

\* Every variable of the treasury keeps its type: in particular none of the
\* unchecked subtractions of the contracts goes below zero.
THEOREM TypeCorrect == Spec => []TypeOK
<1>1. IInv => TypeOK
  BY DEF IInv
<1> QED
  BY <1>1, Invariance, PTL

\* The treasury's cash covers credits, collateral, settlements and earnings.
THEOREM TreasurySolvent == Spec => []Solvent
<1>1. IInv => Solvent
  BY DEF IInv
<1> QED
  BY <1>1, Invariance, PTL

\* Settlement claims never exceed the pool set aside for them.
THEOREM SettlementAlwaysFunded == Spec => []SettlementFunded
<1>1. IInv => SettlementFunded
  BY DEF IInv
<1> QED
  BY <1>1, Invariance, PTL

\* The global collateral total never falls below what the asset holds.
THEOREM TotalAlwaysCovers == Spec => []TotalCoversCollateral
<1>1. IInv => TotalCoversCollateral
  BY DEF IInv
<1> QED
  BY <1>1, Invariance, PTL

\* No unit of unredeemed principal is lost track of.
THEOREM PrincipalAlwaysAccounted == Spec => []PrincipalAccounted
<1>1. IInv => PrincipalAccounted
  BY DEF IInv
<1> QED
  BY <1>1, Invariance, PTL

\* Locked collateral has its clocks, and a settlement stays final.
THEOREM ClocksAndFinality == Spec => [](LockedHasClocks /\ SettledIsFinal)
<1>1. IInv => LockedHasClocks /\ SettledIsFinal
  BY DEF IInv
<1> QED
  BY <1>1, Invariance, PTL

=============================================================================
