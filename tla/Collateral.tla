----------------------------- MODULE Collateral -----------------------------
(* The pure arithmetic of protocols/evm/contracts/Libraries.sol: ProtocolLib *)
(* (fees), EarningsLib (benchmark earnings) and CollateralLib (buffers,      *)
(* coverage, depreciation, releases).  Amounts are USDC units, times are     *)
(* units of the clock of the module that uses this one.  `c` is a            *)
(* CollateralLib.CollateralInfo, `p` the two policy bits of a revenue token. *)
(* Solidity's checked uint256 arithmetic reverts below zero; Monus is used   *)
(* exactly where the code tests before it subtracts.                         *)
EXTENDS Integers

CONSTANTS YEARLY_INTERVAL,      \* the clock's units in 365 days
          QUARTERLY_INTERVAL,   \* the clock's units in 90 days
          MIN_PROTOCOL_FEE,     \* the smallest fee (1 USDC in the code)
          TargetYieldBP         \* the token's benchmark yield, clamped below

BP_PRECISION         == 10000
BENCHMARK_YIELD_BP   == 1000
PROTOCOL_FEE_BP      == 250
DEPRECIATION_RATE_BP == 1200

ASSUME CollateralAssumption ==
    /\ YEARLY_INTERVAL \in Nat \ {0}
    /\ QUARTERLY_INTERVAL \in Nat \ {0}
    /\ MIN_PROTOCOL_FEE \in Nat \ {0}
    /\ TargetYieldBP \in Nat /\ TargetYieldBP >= BENCHMARK_YIELD_BP

Lesser(a, b) == IF a < b THEN a ELSE b
Monus(a, b)  == IF a > b THEN a - b ELSE 0

CollateralInfo ==
    [unredeemedBasePrincipal : Nat, baseCollateral : Nat,
     earningsBuffer : Nat, protocolBuffer : Nat,
     isLocked : BOOLEAN, lockedAt : Nat, lastEventTimestamp : Nat,
     reservedForLiquidation : Nat,
     releasedProtectedBase : Nat, releasedBaseCollateral : Nat]

Policy == [immediateProceeds : BOOLEAN, protectionEnabled : BOOLEAN]

EmptyCollateral ==
    [unredeemedBasePrincipal |-> 0, baseCollateral |-> 0,
     earningsBuffer |-> 0, protocolBuffer |-> 0,
     isLocked |-> FALSE, lockedAt |-> 0, lastEventTimestamp |-> 0,
     reservedForLiquidation |-> 0,
     releasedProtectedBase |-> 0, releasedBaseCollateral |-> 0]

TotalCollateral(c) == c.baseCollateral + c.earningsBuffer + c.protocolBuffer

-----------------------------------------------------------------------------
(* Fees and benchmark amounts.                                               *)

CalculateProtocolFee(amount) ==
    LET fee == (amount * PROTOCOL_FEE_BP) \div BP_PRECISION
    IN  IF amount > 0 /\ fee < MIN_PROTOCOL_FEE THEN MIN_PROTOCOL_FEE ELSE fee

ReleaseFee(gross) == Lesser(CalculateProtocolFee(gross), gross)

CalculateEarnings(principal, elapsed, yieldBP) ==
    (principal * elapsed * yieldBP) \div (YEARLY_INTERVAL * BP_PRECISION)

RequiredEarningsBuffer(base) ==
    CalculateEarnings(base, QUARTERLY_INTERVAL, TargetYieldBP)

RequiredProtocolBuffer(base) ==
    CalculateEarnings(base, QUARTERLY_INTERVAL, PROTOCOL_FEE_BP)

CalculateDepreciation(base, elapsed) ==
    (base * DEPRECIATION_RATE_BP * elapsed) \div (BP_PRECISION * YEARLY_INTERVAL)

-----------------------------------------------------------------------------
(* Coverage: how much principal the funded buffers protect.                  *)

ProtectedExposure(c, p) ==
    c.baseCollateral + (IF p.immediateProceeds THEN c.releasedProtectedBase ELSE 0)

\* mulDiv(buffer, exposure, required); a zero requirement covers everything,
\* which the callers clamp to the exposure.
CoverCapacity(buffer, exposure, required) ==
    IF required = 0 THEN exposure
    ELSE Lesser(exposure, (buffer * exposure) \div required)

CalculateCoverableProtectedExposure(c, p) ==
    LET e == ProtectedExposure(c, p)
        protocolCover   == CoverCapacity(c.protocolBuffer, e, RequiredProtocolBuffer(e))
        protectionCover == CoverCapacity(c.earningsBuffer, e, RequiredEarningsBuffer(e))
    IN  IF p.protectionEnabled THEN Lesser(protocolCover, protectionCover)
                               ELSE protocolCover

CalculateCoverableBaseCollateral(c, p) ==
    LET exposure == CalculateCoverableProtectedExposure(c, p)
    IN  Lesser(c.baseCollateral,
               IF p.immediateProceeds THEN Monus(exposure, c.releasedProtectedBase)
                                      ELSE exposure)

CalculateBenchmarkEarningsPrincipal(c, p) ==
    LET e == ProtectedExposure(c, p)
    IN  IF p.protectionEnabled
        THEN CoverCapacity(c.protocolBuffer, e, RequiredProtocolBuffer(e))
        ELSE 0

HasSufficientBuffers(c, p) ==
    /\ c.protocolBuffer >= RequiredProtocolBuffer(c.baseCollateral)
    /\ p.protectionEnabled =>
          c.earningsBuffer >= RequiredEarningsBuffer(c.baseCollateral)

IsSolvent(c) == c.earningsBuffer > 0 \/ c.reservedForLiquidation = 0

-----------------------------------------------------------------------------
(* Buffer movements and releases.                                            *)

\* Mutant: the shortfall is not limited to the buffer that is there.
UnlimitedShortfall(c, realized, benchmark, principal) ==
    [c EXCEPT !.earningsBuffer = @ - Monus(benchmark, realized),
              !.reservedForLiquidation = @ + Monus(benchmark, realized)]

\* A shortfall moves earnings buffer into the liquidation reserve, an excess
\* moves the reserve back, up to the benchmark buffer and the excess itself.
ApplyRealizedVsBenchmarkToCollateral(c, realized, benchmark, principal) ==
    LET shortfall == Lesser(c.earningsBuffer, Monus(benchmark, realized))
        deficit   == Monus(CalculateEarnings(principal, QUARTERLY_INTERVAL,
                                             BENCHMARK_YIELD_BP),
                           c.earningsBuffer)
        replenish == Lesser(Lesser(deficit, c.reservedForLiquidation),
                            Monus(realized, benchmark))
    IN  [c EXCEPT !.earningsBuffer = @ - shortfall + replenish,
                  !.reservedForLiquidation = @ + shortfall - replenish]

\* One call over a window of `elapsed` time units with `realized` earnings.
AfterEarnings(c, p, realized, elapsed) ==
    LET principal == CalculateBenchmarkEarningsPrincipal(c, p)
    IN  ApplyRealizedVsBenchmarkToCollateral(
            c, realized, CalculateEarnings(principal, elapsed, TargetYieldBP), principal)

\* Mutant: what depreciation already released is released again.
RepeatedRelease(c, time) ==
    IF c.earningsBuffer = 0 /\ c.reservedForLiquidation > 0 THEN 0
    ELSE Lesser(c.baseCollateral,
                CalculateDepreciation(c.unredeemedBasePrincipal, time - c.lockedAt))

CalculateCollateralRelease(c, time) ==
    IF c.earningsBuffer = 0 /\ c.reservedForLiquidation > 0 THEN 0
    ELSE Lesser(c.baseCollateral,
                Monus(CalculateDepreciation(c.unredeemedBasePrincipal, time - c.lockedAt),
                      c.releasedBaseCollateral))

\* The gross release of an eligible preview: the depreciation release clamped
\* to the covered base and to the total, on the collateral after the earnings.
GrossRelease(c, p, time) ==
    Lesser(Lesser(CalculateCollateralRelease(c, time),
                  CalculateCoverableBaseCollateral(c, p)),
           TotalCollateral(c))

\* Treasury._calculateResidualBaseValue: the depreciated principal a
\* settlement before maturity has to make good.
ResidualBaseValue(c, time) ==
    Monus(c.unredeemedBasePrincipal,
          CalculateDepreciation(c.unredeemedBasePrincipal,
                                IF c.lockedAt = 0 THEN 0 ELSE time - c.lockedAt))

\* Mutant: a redemption leaves the released base as it is.
UnreconciledReleasedBase(c) == c.releasedBaseCollateral

ReconciledReleasedBase(c) ==
    Monus(c.unredeemedBasePrincipal, c.baseCollateral + c.releasedProtectedBase)

\* What _clearCollateral leaves: lockedAt and lastEventTimestamp survive.
Cleared(c) ==
    [EmptyCollateral EXCEPT !.lockedAt = c.lockedAt,
                            !.lastEventTimestamp = c.lastEventTimestamp]
=============================================================================
