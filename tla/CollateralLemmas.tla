--------------------------- MODULE CollateralLemmas ---------------------------
(* What the operators of Collateral return and preserve, for every value of  *)
(* the constants.  TreasuryProofs cites these facts instead of expanding the *)
(* formulas of protocols/evm/contracts/Libraries.sol.                        *)
EXTENDS Collateral, TLAPS

\* A quotient of naturals is a natural, and multiplying back loses at most
\* the remainder: Solidity's truncating division.
LEMMA DivisionTruncates ==
    ASSUME NEW a \in Nat, NEW d \in Nat \ {0}
    PROVE  a \div d \in Nat /\ d * (a \div d) <= a /\ (a \div d) * d <= a
BY SMT

\* Products and sums of naturals stay natural.
LEMMA ProductNat ==
    ASSUME NEW a \in Nat, NEW b \in Nat
    PROVE  a * b \in Nat
BY SMT

\* CalculateEarnings never goes below zero.
LEMMA CalculateEarningsNat ==
    ASSUME NEW principal \in Nat, NEW elapsed \in Nat, NEW yield \in Nat
    PROVE  CalculateEarnings(principal, elapsed, yield) \in Nat
<1>1. principal * elapsed \in Nat
  BY ProductNat
<1>2. (principal * elapsed) * yield \in Nat
  BY <1>1, ProductNat
<1>3. YEARLY_INTERVAL * BP_PRECISION \in Nat \ {0}
  BY CollateralAssumption DEF BP_PRECISION
<1> QED
  BY <1>2, <1>3, DivisionTruncates DEF CalculateEarnings

\* Depreciation never goes below zero.
LEMMA CalculateDepreciationNat ==
    ASSUME NEW base \in Nat, NEW elapsed \in Nat
    PROVE  CalculateDepreciation(base, elapsed) \in Nat
<1>1. (base * DEPRECIATION_RATE_BP) * elapsed \in Nat
  <2>1. base * DEPRECIATION_RATE_BP \in Nat
    BY ProductNat DEF DEPRECIATION_RATE_BP
  <2> QED
    BY <2>1, ProductNat
<1>2. BP_PRECISION * YEARLY_INTERVAL \in Nat \ {0}
  BY CollateralAssumption DEF BP_PRECISION
<1> QED
  BY <1>1, <1>2, DivisionTruncates DEF CalculateDepreciation

\* The protocol fee is a natural, and no larger than an amount of at least
\* the minimum fee.
LEMMA CalculateProtocolFeeBound ==
    ASSUME NEW amount \in Nat
    PROVE  /\ CalculateProtocolFee(amount) \in Nat
           /\ amount >= MIN_PROTOCOL_FEE => CalculateProtocolFee(amount) <= amount
BY CollateralAssumption DEF CalculateProtocolFee, BP_PRECISION, PROTOCOL_FEE_BP

\* A release never costs more in fees than it frees.
LEMMA ReleaseFeeBound ==
    ASSUME NEW gross \in Nat
    PROVE  ReleaseFee(gross) \in Nat /\ ReleaseFee(gross) <= gross
BY CalculateProtocolFeeBound DEF ReleaseFee, Lesser

\* The protected exposure and the benchmark buffers are naturals.
LEMMA RequirementsNat ==
    ASSUME NEW base \in Nat
    PROVE  RequiredEarningsBuffer(base) \in Nat /\ RequiredProtocolBuffer(base) \in Nat
<1>1. QUARTERLY_INTERVAL \in Nat /\ TargetYieldBP \in Nat /\ PROTOCOL_FEE_BP \in Nat
  BY CollateralAssumption DEF PROTOCOL_FEE_BP
<1> QED
  BY <1>1, CalculateEarningsNat DEF RequiredEarningsBuffer, RequiredProtocolBuffer

LEMMA ProtectedExposureNat ==
    ASSUME NEW c \in CollateralInfo, NEW p \in Policy
    PROVE  ProtectedExposure(c, p) \in Nat
BY DEF CollateralInfo, Policy, ProtectedExposure

\* Coverage is a natural that never exceeds the exposure.
LEMMA CoverCapacityBound ==
    ASSUME NEW buffer \in Nat, NEW exposure \in Nat, NEW required \in Nat
    PROVE  CoverCapacity(buffer, exposure, required) \in 0 .. exposure
<1>1. CASE required = 0
  BY <1>1 DEF CoverCapacity
<1>2. CASE required # 0
  <2>1. (buffer * exposure) \div required \in Nat
    BY <1>2, ProductNat, DivisionTruncates
  <2> QED
    BY <1>2, <2>1 DEF CoverCapacity, Lesser
<1> QED
  BY <1>1, <1>2

LEMMA CoverableExposureBound ==
    ASSUME NEW c \in CollateralInfo, NEW p \in Policy
    PROVE  /\ CalculateCoverableProtectedExposure(c, p) \in Nat
           /\ CalculateCoverableProtectedExposure(c, p) <= ProtectedExposure(c, p)
<1> DEFINE e == ProtectedExposure(c, p)
<1>1. e \in Nat
  BY ProtectedExposureNat
<1>2. c.protocolBuffer \in Nat /\ c.earningsBuffer \in Nat
  BY DEF CollateralInfo
<1>3. RequiredProtocolBuffer(e) \in Nat /\ RequiredEarningsBuffer(e) \in Nat
  BY <1>1, RequirementsNat
<1> HIDE DEF e
<1>4. CoverCapacity(c.protocolBuffer, e, RequiredProtocolBuffer(e)) \in 0 .. e
  BY <1>1, <1>2, <1>3, CoverCapacityBound
<1>5. CoverCapacity(c.earningsBuffer, e, RequiredEarningsBuffer(e)) \in 0 .. e
  BY <1>1, <1>2, <1>3, CoverCapacityBound
<1> QED
  BY <1>1, <1>4, <1>5 DEF CalculateCoverableProtectedExposure, Lesser, e

\* What immediate proceeds or a release may take is at most the escrowed base.
LEMMA CoverableBaseBound ==
    ASSUME NEW c \in CollateralInfo, NEW p \in Policy
    PROVE  /\ CalculateCoverableBaseCollateral(c, p) \in Nat
           /\ CalculateCoverableBaseCollateral(c, p) <= c.baseCollateral
<1>1. CalculateCoverableProtectedExposure(c, p) \in Nat
  BY CoverableExposureBound
<1>2. c.baseCollateral \in Nat /\ c.releasedProtectedBase \in Nat
  BY DEF CollateralInfo
<1> QED
  BY <1>1, <1>2 DEF CalculateCoverableBaseCollateral, Lesser, Monus

LEMMA BenchmarkPrincipalNat ==
    ASSUME NEW c \in CollateralInfo, NEW p \in Policy
    PROVE  CalculateBenchmarkEarningsPrincipal(c, p) \in Nat
<1>1. ProtectedExposure(c, p) \in Nat /\ c.protocolBuffer \in Nat
  BY ProtectedExposureNat DEF CollateralInfo
<1>2. RequiredProtocolBuffer(ProtectedExposure(c, p)) \in Nat
  BY <1>1, RequirementsNat
<1>3. CoverCapacity(c.protocolBuffer, ProtectedExposure(c, p),
                    RequiredProtocolBuffer(ProtectedExposure(c, p)))
        \in 0 .. ProtectedExposure(c, p)
  BY <1>1, <1>2, CoverCapacityBound
<1> QED
  BY <1>1, <1>3 DEF CalculateBenchmarkEarningsPrincipal

\* `d` differs from `c` only in how the same money is split between the
\* earnings buffer and the liquidation reserve.
OnlyReserves(c, d) ==
    /\ d \in CollateralInfo
    /\ d = [c EXCEPT !.earningsBuffer = d.earningsBuffer,
                     !.reservedForLiquidation = d.reservedForLiquidation]
    /\ d.earningsBuffer + d.reservedForLiquidation
          = c.earningsBuffer + c.reservedForLiquidation

\* A call over a window of earnings creates and loses nothing.
LEMMA ApplyRealizedConserves ==
    ASSUME NEW c \in CollateralInfo, NEW realized \in Nat, NEW benchmark \in Nat,
           NEW principal \in Nat
    PROVE  OnlyReserves(c, ApplyRealizedVsBenchmarkToCollateral(c, realized, benchmark,
                                                                principal))
<1> DEFINE deficit == Monus(CalculateEarnings(principal, QUARTERLY_INTERVAL,
                                              BENCHMARK_YIELD_BP), c.earningsBuffer)
           shortfall == Lesser(c.earningsBuffer, Monus(benchmark, realized))
           replenish == Lesser(Lesser(deficit, c.reservedForLiquidation),
                               Monus(realized, benchmark))
<1>1. c.earningsBuffer \in Nat /\ c.reservedForLiquidation \in Nat
  BY DEF CollateralInfo
<1>2. CalculateEarnings(principal, QUARTERLY_INTERVAL, BENCHMARK_YIELD_BP) \in Nat
  BY CalculateEarningsNat, CollateralAssumption DEF BENCHMARK_YIELD_BP
<1>3. deficit \in Nat
  BY <1>1, <1>2 DEF Monus
<1>4. shortfall \in 0 .. c.earningsBuffer
  BY <1>1 DEF Lesser, Monus
<1>5. replenish \in 0 .. c.reservedForLiquidation
  BY <1>1, <1>3 DEF Lesser, Monus
<1>6. ApplyRealizedVsBenchmarkToCollateral(c, realized, benchmark, principal)
        = [c EXCEPT !.earningsBuffer = @ - shortfall + replenish,
                    !.reservedForLiquidation = @ + shortfall - replenish]
  BY DEF ApplyRealizedVsBenchmarkToCollateral
<1> DEFINE d == ApplyRealizedVsBenchmarkToCollateral(c, realized, benchmark, principal)
<1> HIDE DEF deficit, shortfall, replenish, d
<1>7. /\ d.earningsBuffer = c.earningsBuffer - shortfall + replenish
      /\ d.reservedForLiquidation = c.reservedForLiquidation + shortfall - replenish
      /\ d = [c EXCEPT !.earningsBuffer = d.earningsBuffer,
                       !.reservedForLiquidation = d.reservedForLiquidation]
  BY <1>6 DEF CollateralInfo, d
<1>8. d.earningsBuffer \in Nat /\ d.reservedForLiquidation \in Nat
  BY <1>1, <1>4, <1>5, <1>7
<1>9. d \in CollateralInfo
  BY <1>7, <1>8 DEF CollateralInfo
<1>10. d.earningsBuffer + d.reservedForLiquidation
          = c.earningsBuffer + c.reservedForLiquidation
  BY <1>1, <1>4, <1>5, <1>7
<1> QED
  BY <1>7, <1>9, <1>10 DEF OnlyReserves, d

LEMMA AfterEarningsConserves ==
    ASSUME NEW c \in CollateralInfo, NEW p \in Policy, NEW realized \in Nat,
           NEW elapsed \in Nat
    PROVE  OnlyReserves(c, AfterEarnings(c, p, realized, elapsed))
<1> DEFINE principal == CalculateBenchmarkEarningsPrincipal(c, p)
           benchmark == CalculateEarnings(principal, elapsed, TargetYieldBP)
<1>1. principal \in Nat
  BY BenchmarkPrincipalNat
<1>2. benchmark \in Nat
  BY <1>1, CalculateEarningsNat, CollateralAssumption
<1>3. AfterEarnings(c, p, realized, elapsed)
        = ApplyRealizedVsBenchmarkToCollateral(c, realized, benchmark, principal)
  BY DEF AfterEarnings
<1> HIDE DEF principal, benchmark
<1> QED
  BY <1>1, <1>2, <1>3, ApplyRealizedConserves

\* A gross release never exceeds the escrowed base.
LEMMA GrossReleaseBound ==
    ASSUME NEW c \in CollateralInfo, NEW p \in Policy, NEW time \in Nat,
           c.lockedAt <= time
    PROVE  GrossRelease(c, p, time) \in Nat /\ GrossRelease(c, p, time) <= c.baseCollateral
<1>1. /\ c.baseCollateral \in Nat /\ c.earningsBuffer \in Nat /\ c.protocolBuffer \in Nat
      /\ c.releasedBaseCollateral \in Nat /\ c.unredeemedBasePrincipal \in Nat
      /\ time - c.lockedAt \in Nat
  BY DEF CollateralInfo
<1>2. CalculateDepreciation(c.unredeemedBasePrincipal, time - c.lockedAt) \in Nat
  BY <1>1, CalculateDepreciationNat
<1>3. CalculateCollateralRelease(c, time) \in 0 .. c.baseCollateral
  BY <1>1, <1>2 DEF CalculateCollateralRelease, Lesser, Monus
<1>4. CalculateCoverableBaseCollateral(c, p) \in 0 .. c.baseCollateral
  BY <1>1, CoverableBaseBound
<1> QED
  BY <1>1, <1>3, <1>4 DEF GrossRelease, Lesser, TotalCollateral

\* The depreciated principal never goes below zero.
LEMMA ResidualBaseValueNat ==
    ASSUME NEW c \in CollateralInfo, NEW time \in Nat, c.lockedAt <= time
    PROVE  ResidualBaseValue(c, time) \in Nat
<1>1. c.unredeemedBasePrincipal \in Nat /\ c.lockedAt \in Nat
  BY DEF CollateralInfo
<1>2. (IF c.lockedAt = 0 THEN 0 ELSE time - c.lockedAt) \in Nat
  BY <1>1
<1>3. CalculateDepreciation(c.unredeemedBasePrincipal,
                            IF c.lockedAt = 0 THEN 0 ELSE time - c.lockedAt) \in Nat
  BY <1>1, <1>2, CalculateDepreciationNat
<1> QED
  BY <1>1, <1>3 DEF ResidualBaseValue, Monus

\* An all-zero collateral that only keeps its clocks.
LEMMA ClearedFacts ==
    ASSUME NEW c \in CollateralInfo
    PROVE  /\ Cleared(c) \in CollateralInfo
           /\ TotalCollateral(Cleared(c)) = 0
           /\ Cleared(c).reservedForLiquidation = 0
           /\ Cleared(c).releasedProtectedBase = 0
           /\ Cleared(c).baseCollateral = 0
           /\ Cleared(c).unredeemedBasePrincipal = 0
           /\ Cleared(c).isLocked = FALSE
           /\ Cleared(c).lockedAt = c.lockedAt
           /\ Cleared(c).lastEventTimestamp = c.lastEventTimestamp
<1>1. /\ c.lockedAt \in Nat /\ c.lastEventTimestamp \in Nat
      /\ EmptyCollateral \in CollateralInfo
  BY DEF CollateralInfo, EmptyCollateral
<1>2. Cleared(c) = [EmptyCollateral EXCEPT !.lockedAt = c.lockedAt,
                                          !.lastEventTimestamp = c.lastEventTimestamp]
  BY DEF Cleared
<1>3. Cleared(c) \in CollateralInfo
  BY <1>1, <1>2 DEF CollateralInfo
<1>4. /\ Cleared(c).lockedAt = c.lockedAt
      /\ Cleared(c).lastEventTimestamp = c.lastEventTimestamp
      /\ Cleared(c).baseCollateral = 0 /\ Cleared(c).earningsBuffer = 0
      /\ Cleared(c).protocolBuffer = 0 /\ Cleared(c).unredeemedBasePrincipal = 0
      /\ Cleared(c).reservedForLiquidation = 0 /\ Cleared(c).releasedProtectedBase = 0
      /\ Cleared(c).releasedBaseCollateral = 0 /\ Cleared(c).isLocked = FALSE
  BY <1>1, <1>2 DEF EmptyCollateral
<1> QED
  BY <1>3, <1>4 DEF TotalCollateral
=============================================================================
