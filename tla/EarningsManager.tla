---------------------------- MODULE EarningsManager ----------------------------
(* The earnings of one asset: EarningsManager.sol with the positions that    *)
(* PositionManager.sol keeps for it and the calls of Treasury, RegistryRouter *)
(* and VehicleRegistry that end a position.                                  *)
(*                                                                           *)
(* A position is split exactly whenever part of it moves, so the unit token  *)
(* is the unit of the model: each token carries the position it lies in.      *)
(* Which tokens an operation takes is left open: the code takes the oldest    *)
(* positions first, or those of the current redemption epoch.  An amount of   *)
(* earnings is the set of the shares it is made of: <<token, period>> stands  *)
(* for the period's earningsPerToken.  What an operation adds to a balance is *)
(* disjoint from it (DueOnce), so the union of sets is the sum of amounts.    *)
EXTENDS Integers

CONSTANTS
    Token,              \* unit revenue tokens
    Holder,             \* accounts
    AssetOwner,         \* the partner that holds the asset NFT
    AuthorizedPartner,  \* the accounts PartnerManager authorises
    Nobody,             \* the holder of a token that is not in circulation
    SameBlockPurchases, \* whether a block may hold a distribution, then a purchase
    MaxPeriod,          \* bound: distributions
    MaxTime             \* bound: the clock

ASSUME HolderAssumption ==
    /\ AssetOwner \in AuthorizedPartner
    /\ AuthorizedPartner \subseteq Holder
    /\ Nobody \notin Holder
    /\ SameBlockPurchases \in BOOLEAN
ASSUME BoundAssumption == MaxPeriod \in Nat /\ MaxTime \in Nat

Period   == 1 .. MaxPeriod
Share    == Token \X Period
Investor == Holder \ {AssetOwner}
Status   == {"Active", "Earning", "Settled"}    \* Settled: Retired or Expired

\* The holder, the acquiredAt and the positionsLastClaimedPeriod of a position.
Position ==
    [holder : Holder \cup {Nobody}, acquiredAt : 0 .. MaxTime, lastClaimed : 0 .. MaxPeriod]
NoPosition == [holder |-> Nobody, acquiredAt |-> 0, lastClaimed |-> 0]

VARIABLES
    now,            \* block.timestamp
    status,         \* the asset's status
    position,       \* position[t]: the position token t lies in
    currentPeriod,  \* distributions so far
    stamp,          \* stamp[p]: periods[p].timestamp
    transferred,    \* transferredEarningsCredit
    snapshot,       \* settledEarningsSnapshot
    hasClaimed,     \* hasClaimedSettledEarnings
    credited,       \* what Treasury.creditEarningsWithdrawal was called for
    earned          \* history: the shares a distribution was divided over

periods  == <<currentPeriod, stamp, earned>>
balances == <<transferred, snapshot, hasClaimed, credited>>
vars     == <<now, status, position, periods, balances>>

TypeOK ==
    /\ now \in 0 .. MaxTime
    /\ status \in Status
    /\ position \in [Token -> Position]
    /\ currentPeriod \in 0 .. MaxPeriod
    /\ stamp \in [Period -> 0 .. MaxTime]
    /\ transferred \in [Holder -> SUBSET Share]
    /\ snapshot \in [Holder -> SUBSET Share]
    /\ hasClaimed \in [Holder -> BOOLEAN]
    /\ credited \in [Holder -> SUBSET Share]
    /\ earned \in [Holder -> SUBSET Share]

Init ==
    /\ now = 0
    /\ status = "Active"
    /\ position = [t \in Token |-> NoPosition]
    /\ currentPeriod = 0
    /\ stamp = [p \in Period |-> 0]
    /\ transferred = [h \in Holder |-> {}]
    /\ snapshot = [h \in Holder |-> {}]
    /\ hasClaimed = [h \in Holder |-> FALSE]
    /\ credited = [h \in Holder |-> {}]
    /\ earned = [h \in Holder |-> {}]

-----------------------------------------------------------------------------
(* Positions and what they have earned.                                      *)

\* The tokens S leave their positions for p, a fresh one or none.
Move(S, p) == [t \in Token |-> IF t \in S THEN p ELSE position[t]]
Credit(f, h, shares) == [f EXCEPT ![h] = @ \cup shares]

Held(h) == {t \in Token : position[t].holder = h}
Circulating == {t \in Token : position[t].holder # Nobody}

\* Mutant: a position earns every period after its last claim, held or not.
AllUnclaimedPeriods(S) ==
    {share \in Share :
        /\ share[1] \in S
        /\ position[share[1]].lastClaimed < share[2] /\ share[2] <= currentPeriod}

\* calculateEarningsForPositions over the positions of the tokens in S: the
\* periods after the last claim that the position was held in.
PositionEarnings(S) ==
    {share \in Share :
        /\ share[1] \in S
        /\ position[share[1]].lastClaimed < share[2] /\ share[2] <= currentPeriod
        /\ position[share[1]].acquiredAt <= stamp[share[2]]}

PreviewSettledEarnings(h) == IF hasClaimed[h] THEN {} ELSE snapshot[h]

\* Mutant: the claim is recorded one period too far.
ClaimThroughNextPeriod(h, S) ==
    position' = [t \in Token |->
        IF t \in S THEN NoPosition
        ELSE IF t \in Held(h) THEN [position[t] EXCEPT !.lastClaimed = currentPeriod + 1]
        ELSE position[t]]

\* Mutant: what is left of the holder's positions is not marked as claimed.
OnlyBurn(h, S) == position' = Move(S, NoPosition)

\* updateClaimPeriods for the positions of h, of which the tokens S are burned.
UpdateClaimPeriods(h, S) ==
    position' = [t \in Token |->
        IF t \in S THEN NoPosition
        ELSE IF t \in Held(h) THEN [position[t] EXCEPT !.lastClaimed = currentPeriod]
        ELSE position[t]]

\* Mutant: a repeated snapshot replaces the one before.
LatestSnapshot(h) == [snapshot EXCEPT ![h] = PositionEarnings(Held(h))]

\* snapshotHolderEarnings: what the positions of h have earned is added to its
\* snapshot.
SnapshotHolderEarnings(h) == Credit(snapshot, h, PositionEarnings(Held(h)))

\* Mutant: the recipient's claims start from nothing.
UnclaimedPosition(to) == [holder |-> to, acquiredAt |-> now, lastClaimed |-> 0]

\* transferPositionClaimState: the recipient's position starts after the last
\* distribution.
TransferredPosition(to) ==
    [holder |-> to, acquiredAt |-> now, lastClaimed |-> currentPeriod]

Operational == status \in {"Active", "Earning"}

\* _maybePromoteToEarning: whether the buffers suffice is left open.
Promoted == IF status = "Active" THEN {"Active", "Earning"} ELSE {status}

-----------------------------------------------------------------------------
(* Tokens.                                                                   *)

\* buyFromPrimaryPool: the tokens S become a fresh position of the buyer, taken
\* to be held since the start of the block: bought in the block of a
\* distribution, but after it, it would share in what was divided without it.
BuyFromPrimaryPool(h, S) ==
    /\ Operational
    /\ S # {} /\ S \subseteq Token \ Circulating
    /\ SameBlockPurchases \/ \A p \in 1 .. currentPeriod : stamp[p] < now
    /\ status' \in Promoted
    /\ position' = Move(S, [holder |-> h, acquiredAt |-> now, lastClaimed |-> 0])
    /\ UNCHANGED <<now, periods, balances>>

\* _transferPositionsFifo: the sender keeps what the tokens have earned it, as
\* a credit, and the recipient's positions start with the next period.
Transfer(from, to, S) ==
    /\ S # {} /\ S \subseteq Held(from)
    /\ transferred' = IF from = AssetOwner THEN transferred
                      ELSE Credit(transferred, from, PositionEarnings(S))
    /\ position' = Move(S, TransferredPosition(to))
    /\ UNCHANGED <<now, status, periods, snapshot, hasClaimed, credited>>

\* burnRevenueTokens: any authorised partner burns tokens of its own.
BurnRevenueTokens(h, S) ==
    /\ h \in AuthorizedPartner
    /\ S # {} /\ S \subseteq Held(h)
    /\ position' = Move(S, NoPosition)
    /\ UNCHANGED <<now, status, periods, balances>>

\* processPrimaryRedemptionFor: the holder's earnings are preserved in its
\* snapshot and the redeemed tokens are burned.
RedeemPrimary(h, S) ==
    /\ Operational
    /\ S # {} /\ S \subseteq Held(h)
    /\ snapshot' = SnapshotHolderEarnings(h)
    /\ UpdateClaimPeriods(h, S)
    /\ UNCHANGED <<now, status, periods, transferred, hasClaimed, credited>>

-----------------------------------------------------------------------------
(* Earnings.                                                                 *)

\* distributeEarnings: the net earnings are divided over the tokens that the
\* asset's owner does not hold.
DistributeEarnings ==
    /\ status = "Earning"
    /\ Circulating \ Held(AssetOwner) # {}
    /\ currentPeriod < MaxPeriod
    /\ currentPeriod' = currentPeriod + 1
    /\ stamp' = [stamp EXCEPT ![currentPeriod + 1] = now]
    /\ earned' = [h \in Holder |->
                     IF h = AssetOwner THEN earned[h]
                     ELSE earned[h] \cup {<<t, currentPeriod + 1>> : t \in Held(h)}]
    /\ UNCHANGED <<now, status, position, balances>>

\* What claimEarnings takes from the snapshot, from live positions and from
\* the credits of earlier transfers.
SnapshotPart(h) == IF status = "Settled" THEN PreviewSettledEarnings(h) ELSE {}
PositionPart(h) == IF h = AssetOwner THEN {} ELSE PositionEarnings(Held(h))
ClaimAmount(h)  == SnapshotPart(h) \cup PositionPart(h) \cup transferred[h]

ClaimEarnings(h) ==
    /\ ClaimAmount(h) # {}
    /\ hasClaimed' = [hasClaimed EXCEPT ![h] = @ \/ SnapshotPart(h) # {}]
    /\ IF PositionPart(h) # {} THEN UpdateClaimPeriods(h, {}) ELSE UNCHANGED position
    /\ transferred' = [transferred EXCEPT ![h] = {}]
    /\ credited' = Credit(credited, h, ClaimAmount(h))
    /\ UNCHANGED <<now, status, periods, snapshot>>

-----------------------------------------------------------------------------
(* The asset.                                                                *)

\* enableProceeds, when it funds the buffers that the asset needs to earn.
EnableProceeds ==
    /\ status = "Active"
    /\ status' = "Earning"
    /\ UNCHANGED <<now, position, periods, balances>>

\* settleAsset, liquidateAsset, and retireAsset without a token left: tokens
\* stay with their holders.
SettleAsset ==
    /\ Operational
    /\ status' = "Settled"
    /\ UNCHANGED <<now, position, periods, balances>>

\* retireAssetAndBurnTokens: only when nobody but the owner holds tokens.
RetireAssetAndBurnTokens ==
    /\ Operational
    /\ Circulating \subseteq Held(AssetOwner)
    /\ status' = "Settled"
    /\ position' = Move(Token, NoPosition)
    /\ UNCHANGED <<now, periods, balances>>

\* claimSettlement: snapshotAndClaimEarnings, then the whole balance is burned.
SnapshotAmount(h, autoClaim) ==
    PositionEarnings(Held(h)) \cup (IF autoClaim THEN transferred[h] ELSE {})

ClaimSettlement(h, autoClaim) ==
    /\ status = "Settled"
    /\ Held(h) # {}
    /\ snapshot' = SnapshotHolderEarnings(h)
    /\ UpdateClaimPeriods(h, Held(h))
    /\ IF autoClaim /\ SnapshotAmount(h, TRUE) # {}
       THEN /\ transferred' = [transferred EXCEPT ![h] = {}]
            /\ hasClaimed' = [hasClaimed EXCEPT ![h] = TRUE]
            /\ credited' = Credit(credited, h, SnapshotAmount(h, TRUE))
       ELSE UNCHANGED <<transferred, hasClaimed, credited>>
    /\ UNCHANGED <<now, status, periods>>

\* The next block.
Tick ==
    /\ now < MaxTime
    /\ now' = now + 1
    /\ UNCHANGED <<status, position, periods, balances>>

TradeStep == \E S \in SUBSET Token : \E h \in Holder :
    \/ BuyFromPrimaryPool(h, S)
    \/ \E to \in Holder : Transfer(h, to, S)
    \/ BurnRevenueTokens(h, S)
    \/ RedeemPrimary(h, S)

ClaimStep == \E h \in Holder :
    \/ ClaimEarnings(h)
    \/ \E autoClaim \in BOOLEAN : ClaimSettlement(h, autoClaim)

AssetStep == EnableProceeds \/ SettleAsset \/ RetireAssetAndBurnTokens

Next == TradeStep \/ DistributeEarnings \/ ClaimStep \/ AssetStep \/ Tick

Spec == Init /\ [][Next]_vars

-----------------------------------------------------------------------------
(* Properties.                                                               *)

\* What investor h still has coming and the code still counts for it.
Outstanding(h) ==
    PositionPart(h) \cup transferred[h] \cup PreviewSettledEarnings(h)

\* A share is counted in one place only: in a live position, in the credits of
\* transfers, in the unclaimed snapshot, or as credited.  No order of trades,
\* redemptions and claims counts it a second time.
DueOnce == \A h \in Investor :
    /\ PositionPart(h) \cap (transferred[h] \cup PreviewSettledEarnings(h) \cup credited[h]) = {}
    /\ transferred[h] \cap (PreviewSettledEarnings(h) \cup credited[h]) = {}
    /\ PreviewSettledEarnings(h) \cap credited[h] = {}

\* An investor is only counted, and credited, shares that a distribution was
\* divided over while it held the token: never for a period before it bought,
\* never for a period the seller already has.
OnlyEarned == \A h \in Investor : Outstanding(h) \cup credited[h] \subseteq earned[h]

\* Nothing an investor has earned is forgotten when it sells, redeems, claims
\* or is settled.  A partner that burns tokens it invested in gives up what
\* they had earned.
NothingForgotten == \A h \in Investor \ AuthorizedPartner :
    earned[h] \subseteq PositionPart(h) \cup transferred[h] \cup snapshot[h] \cup credited[h]

\* What a redemption preserved in the snapshot is paid when the snapshot is
\* marked as claimed ("claims any unclaimed earnings").
PreservedEarningsPaid == \A h \in Investor : hasClaimed[h] => snapshot[h] \subseteq credited[h]

\* What an investor has earned and no balance of the code counts any more.
Forfeited(h) == earned[h] \ (Outstanding(h) \cup credited[h])

\* Earnings that were preserved are only ever lost by the claim that comes with
\* a settlement, and then it is the unclaimed snapshot, all of it: every other
\* step, and every other order of redemptions, settlements and claims, leaves
\* an investor what it has coming.
OnlyAutoClaimForfeits ==
    [][\A h \in Investor \ AuthorizedPartner :
          Forfeited(h)' # Forfeited(h) =>
              /\ ClaimSettlement(h, TRUE)
              /\ Forfeited(h)' = Forfeited(h) \cup PreviewSettledEarnings(h)]_vars

\* The manager implements the ledger: what is due to an investor is what it has
\* earned and was not credited.
Ledger == INSTANCE EarningsLedger WITH
    Investor <- Investor,
    period <- currentPeriod,
    due <- [h \in Investor |-> earned[h] \ credited[h]],
    paid <- [h \in Investor |-> credited[h]]

ImplementsLedger == Ledger!Spec
=============================================================================
