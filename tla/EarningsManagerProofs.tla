------------------------- MODULE EarningsManagerProofs -------------------------
(* EarningsManager is correct for any tokens, holders, partners, periods and *)
(* clocks, and implements EarningsLedger, as long as no block holds a        *)
(* purchase after a distribution.  The argument is one inductive invariant,  *)
(* IInv: what the runs check, and three facts it leans on.                   *)
EXTENDS EarningsManager, TLAPS

\* A position neither starts after the present nor was claimed beyond it.
PositionsUpToDate == \A t \in Token :
    position[t].acquiredAt <= now /\ position[t].lastClaimed <= currentPeriod

\* Shares are earned in periods that were distributed, each by one investor.
EarnedOnce == \A h \in Investor :
    /\ \A share \in earned[h] : share[2] <= currentPeriod
    /\ \A g \in Investor : g # h => earned[g] \cap earned[h] = {}

\* OnlyEarned, DueOnce and NothingForgotten, for one investor.
BooksOf(h) ==
    /\ Outstanding(h) \cup credited[h] \subseteq earned[h]
    /\ PositionPart(h) \cap (transferred[h] \cup PreviewSettledEarnings(h) \cup credited[h]) = {}
    /\ transferred[h] \cap (PreviewSettledEarnings(h) \cup credited[h]) = {}
    /\ PreviewSettledEarnings(h) \cap credited[h] = {}
    /\ h \notin AuthorizedPartner =>
           earned[h] \subseteq PositionPart(h) \cup transferred[h] \cup snapshot[h] \cup credited[h]

IInv == TypeOK /\ PositionsUpToDate /\ EarnedOnce /\ \A h \in Investor : BooksOf(h)

-----------------------------------------------------------------------------
(* Positions.                                                                *)

\* The period p counts for the position of t.
Open(t, p) ==
    /\ position[t].lastClaimed < p /\ p <= currentPeriod
    /\ position[t].acquiredAt <= stamp[p]

LEMMA OpenShares ==
    ASSUME NEW h \in Investor, NEW share \in Share
    PROVE  share \in PositionPart(h) <=>
               position[share[1]].holder = h /\ Open(share[1], share[2])
BY DEF PositionPart, PositionEarnings, Held, Open, Share, Investor

LEMMA PartsAreShares ==
    ASSUME TypeOK, NEW h \in Investor
    PROVE  /\ h \in Holder /\ h # AssetOwner /\ h # Nobody
           /\ PositionPart(h) \subseteq Share
           /\ PositionPart(h) = PositionEarnings(Held(h))
           /\ transferred[h] \subseteq Share /\ snapshot[h] \subseteq Share
           /\ credited[h] \subseteq Share /\ earned[h] \subseteq Share
BY HolderAssumption DEF TypeOK, PositionPart, PositionEarnings, Investor

-----------------------------------------------------------------------------
(* Types.                                                                    *)

LEMMA MoveTyped ==
    ASSUME TypeOK, NEW S, NEW p \in Position
    PROVE  Move(S, p) \in [Token -> Position]
BY DEF TypeOK, Move

LEMMA NoPositionTyped == NoPosition \in Position
BY BoundAssumption DEF NoPosition, Position

LEMMA UpdateTyped ==
    ASSUME TypeOK, NEW h, NEW S, UpdateClaimPeriods(h, S)
    PROVE  position' \in [Token -> Position]
<1> SUFFICES ASSUME NEW t \in Token
             PROVE  [position[t] EXCEPT !.lastClaimed = currentPeriod] \in Position
  BY NoPositionTyped DEF UpdateClaimPeriods, TypeOK
<1>1. position[t] \in Position /\ currentPeriod \in 0 .. MaxPeriod
  BY DEF TypeOK
<1> QED
  BY <1>1 DEF Position

LEMMA CreditTyped ==
    ASSUME NEW f \in [Holder -> SUBSET Share], NEW h \in Holder, NEW shares \in SUBSET Share
    PROVE  Credit(f, h, shares) \in [Holder -> SUBSET Share]
BY DEF Credit

LEMMA PositionEarningsTyped ==
    ASSUME NEW S PROVE PositionEarnings(S) \in SUBSET Share
BY DEF PositionEarnings

LEMMA TypeStep == TypeOK /\ [Next]_vars => TypeOK'
<1> SUFFICES ASSUME TypeOK, [Next]_vars PROVE TypeOK'
  OBVIOUS
<1> USE BoundAssumption
<1>1. CASE UNCHANGED vars
  BY <1>1 DEF TypeOK, vars, periods, balances, Status
<1>2. ASSUME NEW S \in SUBSET Token, NEW h \in Holder, BuyFromPrimaryPool(h, S)
      PROVE  TypeOK'
  <2>1. [holder |-> h, acquiredAt |-> now, lastClaimed |-> 0] \in Position
    BY DEF TypeOK, Position
  <2>2. position' \in [Token -> Position]
    BY <1>2, <2>1, MoveTyped DEF BuyFromPrimaryPool
  <2> QED
    BY <1>2, <2>2 DEF BuyFromPrimaryPool, Promoted, TypeOK, Status, periods, balances
<1>3. ASSUME NEW S \in SUBSET Token, NEW h \in Holder, NEW to \in Holder, Transfer(h, to, S)
      PROVE  TypeOK'
  <2>1. TransferredPosition(to) \in Position
    BY DEF TypeOK, Position, TransferredPosition
  <2>2. position' \in [Token -> Position]
    BY <1>3, <2>1, MoveTyped DEF Transfer
  <2>3. transferred' \in [Holder -> SUBSET Share]
    BY <1>3, CreditTyped, PositionEarningsTyped DEF Transfer, TypeOK
  <2> QED
    BY <1>3, <2>2, <2>3 DEF Transfer, TypeOK, periods
<1>4. ASSUME NEW S \in SUBSET Token, NEW h \in Holder, BurnRevenueTokens(h, S)
      PROVE  TypeOK'
  <2>1. position' \in [Token -> Position]
    BY <1>4, NoPositionTyped, MoveTyped DEF BurnRevenueTokens
  <2> QED
    BY <1>4, <2>1 DEF BurnRevenueTokens, TypeOK, periods, balances
<1>5. ASSUME NEW S \in SUBSET Token, NEW h \in Holder, RedeemPrimary(h, S)
      PROVE  TypeOK'
  <2>1. position' \in [Token -> Position]
    BY <1>5, UpdateTyped DEF RedeemPrimary
  <2>2. snapshot' \in [Holder -> SUBSET Share]
    BY <1>5, CreditTyped, PositionEarningsTyped
       DEF RedeemPrimary, SnapshotHolderEarnings, TypeOK
  <2> QED
    BY <1>5, <2>1, <2>2 DEF RedeemPrimary, TypeOK, periods
<1>6. CASE DistributeEarnings
  <2>1. currentPeriod + 1 \in Period /\ now \in 0 .. MaxTime
    BY <1>6 DEF DistributeEarnings, TypeOK, Period
  <2>2. stamp' \in [Period -> 0 .. MaxTime]
    BY <1>6, <2>1 DEF DistributeEarnings, TypeOK
  <2>3. earned' \in [Holder -> SUBSET Share]
    BY <1>6, <2>1 DEF DistributeEarnings, TypeOK, Share, Held
  <2>4. currentPeriod' \in 0 .. MaxPeriod
    BY <1>6, <2>1 DEF DistributeEarnings, Period
  <2> QED
    BY <1>6, <2>2, <2>3, <2>4 DEF DistributeEarnings, TypeOK, balances
<1>7. ASSUME NEW h \in Holder, ClaimEarnings(h)
      PROVE  TypeOK'
  <2>1. position' \in [Token -> Position]
    BY <1>7, UpdateTyped DEF ClaimEarnings, TypeOK
  <2>2. ClaimAmount(h) \in SUBSET Share
    BY PositionEarningsTyped
       DEF ClaimAmount, SnapshotPart, PreviewSettledEarnings, PositionPart, TypeOK
  <2>3. credited' \in [Holder -> SUBSET Share]
    BY <1>7, <2>2, CreditTyped DEF ClaimEarnings, TypeOK
  <2>4. hasClaimed' \in [Holder -> BOOLEAN] /\ transferred' \in [Holder -> SUBSET Share]
    BY <1>7 DEF ClaimEarnings, TypeOK
  <2> QED
    BY <1>7, <2>1, <2>3, <2>4 DEF ClaimEarnings, TypeOK, periods
<1>8. ASSUME NEW h \in Holder, NEW autoClaim \in BOOLEAN, ClaimSettlement(h, autoClaim)
      PROVE  TypeOK'
  <2>1. position' \in [Token -> Position]
    BY <1>8, UpdateTyped DEF ClaimSettlement
  <2>2. SnapshotAmount(h, TRUE) \in SUBSET Share
    BY PositionEarningsTyped DEF SnapshotAmount, TypeOK
  <2>3. snapshot' \in [Holder -> SUBSET Share]
    BY <1>8, CreditTyped, PositionEarningsTyped
       DEF ClaimSettlement, SnapshotHolderEarnings, TypeOK
  <2>4. credited' \in [Holder -> SUBSET Share]
    <3>1. credited' = credited \/ credited' = Credit(credited, h, SnapshotAmount(h, TRUE))
      BY <1>8 DEF ClaimSettlement
    <3>2. credited \in [Holder -> SUBSET Share]
      BY DEF TypeOK
    <3>3. Credit(credited, h, SnapshotAmount(h, TRUE)) \in [Holder -> SUBSET Share]
      BY <2>2, <3>2, CreditTyped
    <3> QED
      BY <3>1, <3>2, <3>3
  <2>5. hasClaimed' \in [Holder -> BOOLEAN] /\ transferred' \in [Holder -> SUBSET Share]
    BY <1>8 DEF ClaimSettlement, TypeOK
  <2> QED
    BY <1>8, <2>1, <2>3, <2>4, <2>5 DEF ClaimSettlement, TypeOK, periods
<1>9. CASE EnableProceeds
  BY <1>9 DEF EnableProceeds, TypeOK, Status, periods, balances
<1>10. CASE SettleAsset
  BY <1>10 DEF SettleAsset, TypeOK, Status, periods, balances
<1>11. CASE RetireAssetAndBurnTokens
  <2>1. position' \in [Token -> Position]
    BY <1>11, NoPositionTyped, MoveTyped DEF RetireAssetAndBurnTokens
  <2> QED
    BY <1>11, <2>1 DEF RetireAssetAndBurnTokens, TypeOK, Status, periods, balances
<1>12. CASE Tick
  BY <1>12 DEF Tick, TypeOK, periods, balances
<1> QED
  BY <1>1, <1>2, <1>3, <1>4, <1>5, <1>6, <1>7, <1>8, <1>9, <1>10, <1>11, <1>12
     DEF Next, TradeStep, ClaimStep, AssetStep

LEMMA TypeInit == Init => TypeOK
BY BoundAssumption, NoPositionTyped DEF Init, TypeOK, Status

\* Every variable keeps its type: balances only ever hold shares of periods
\* that exist.
THEOREM TypeCorrect == Spec => []TypeOK
BY TypeInit, TypeStep, PTL DEF Spec

-----------------------------------------------------------------------------
(* What each step does to the shares that live positions hold.               *)

LEMMA UpToDateStep ==
    ASSUME TypeOK, PositionsUpToDate, [Next]_vars
    PROVE  PositionsUpToDate'
<1> SUFFICES ASSUME NEW t \in Token
             PROVE  (position[t].acquiredAt <= now /\ position[t].lastClaimed <= currentPeriod)'
  BY DEF PositionsUpToDate
<1>1. /\ position[t] \in Position /\ position[t].acquiredAt <= now
      /\ position[t].lastClaimed <= currentPeriod
      /\ now \in Nat /\ currentPeriod \in Nat
      /\ position[t].acquiredAt \in Nat /\ position[t].lastClaimed \in Nat
  BY DEF PositionsUpToDate, TypeOK, Position
<1>2. /\ position'[t] = position[t] /\ now' = now /\ currentPeriod' = currentPeriod
      \/ /\ position'[t] = position[t] /\ now' = now + 1 /\ currentPeriod' = currentPeriod
      \/ /\ position'[t] = position[t] /\ now' = now /\ currentPeriod' = currentPeriod + 1
      \/ /\ position'[t] = NoPosition /\ now' = now /\ currentPeriod' = currentPeriod
      \/ /\ position'[t] = [position[t] EXCEPT !.lastClaimed = currentPeriod]
         /\ now' = now /\ currentPeriod' = currentPeriod
      \/ /\ position'[t].acquiredAt = now /\ position'[t].lastClaimed \in {0, currentPeriod}
         /\ now' = now /\ currentPeriod' = currentPeriod
  <2>1. CASE DistributeEarnings \/ Tick \/ EnableProceeds \/ SettleAsset \/ UNCHANGED vars
    BY <2>1 DEF vars, periods, balances, DistributeEarnings, Tick, EnableProceeds, SettleAsset
  <2>2. CASE RetireAssetAndBurnTokens
    BY <2>2 DEF RetireAssetAndBurnTokens, Move, periods
  <2>3. CASE TradeStep
    <3>1. PICK S \in SUBSET Token, h \in Holder :
              \/ BuyFromPrimaryPool(h, S)
              \/ \E to \in Holder : Transfer(h, to, S)
              \/ BurnRevenueTokens(h, S)
              \/ RedeemPrimary(h, S)
      BY <2>3 DEF TradeStep
    <3>2. CASE BuyFromPrimaryPool(h, S)
      BY <3>2 DEF BuyFromPrimaryPool, Move, periods
    <3>3. CASE \E to \in Holder : Transfer(h, to, S)
      BY <3>3 DEF Transfer, TransferredPosition, Move, periods
    <3>4. CASE BurnRevenueTokens(h, S)
      BY <3>4 DEF BurnRevenueTokens, Move, periods
    <3>5. CASE RedeemPrimary(h, S)
      BY <3>5 DEF RedeemPrimary, UpdateClaimPeriods, periods
    <3> QED
      BY <3>1, <3>2, <3>3, <3>4, <3>5
  <2>4. CASE ClaimStep
    <3>1. PICK h \in Holder :
              ClaimEarnings(h) \/ \E autoClaim \in BOOLEAN : ClaimSettlement(h, autoClaim)
      BY <2>4 DEF ClaimStep
    <3>2. CASE ClaimEarnings(h)
      BY <3>2 DEF ClaimEarnings, UpdateClaimPeriods, periods
    <3>3. CASE \E autoClaim \in BOOLEAN : ClaimSettlement(h, autoClaim)
      BY <3>3 DEF ClaimSettlement, UpdateClaimPeriods, periods
    <3> QED
      BY <3>1, <3>2, <3>3
  <2> QED
    BY <2>1, <2>2, <2>3, <2>4 DEF Next, AssetStep
<1> QED
  BY <1>1, <1>2 DEF NoPosition, Position

\* Positions that stay as they are hold the same shares.
LEMMA SamePositions ==
    ASSUME NEW h \in Investor, UNCHANGED <<position, currentPeriod, stamp>>
    PROVE  PositionPart(h)' = PositionPart(h)
BY DEF PositionPart, PositionEarnings, Held

\* Tokens that leave h, or reach anyone, in a position that starts with the
\* next period take their shares with them.
LEMMA MovedPositions ==
    ASSUME TypeOK, NEW h \in Investor, NEW S \in SUBSET Token, NEW p,
           position' = Move(S, p),
           p.lastClaimed = currentPeriod \/ p.holder \notin Holder,
           UNCHANGED <<currentPeriod, stamp>>
    PROVE  /\ PositionPart(h)' = PositionPart(h) \ PositionEarnings(S)
           /\ S \cap Held(h) = {} => PositionPart(h)' = PositionPart(h)
<1>1. h \in Holder
  BY DEF Investor
<1>2. \A t \in Token : position'[t] = IF t \in S THEN p ELSE position[t]
  BY DEF Move
<1>3. currentPeriod \in Nat
  BY DEF TypeOK
<1> SUFFICES ASSUME NEW share \in Share
             PROVE  /\ share \in PositionPart(h)' <=>
                            share \in PositionPart(h) /\ share[1] \notin S
                    /\ share \in PositionPart(h) => (share \in PositionEarnings(S) <=> share[1] \in S)
                    /\ share \in PositionPart(h) => share[1] \in Held(h)
  BY DEF PositionPart, PositionEarnings
<1>4. share[1] \in Token /\ share[2] \in Nat
  BY DEF Share, Period
<1> QED
  BY <1>1, <1>2, <1>3, <1>4 DEF PositionPart, PositionEarnings, Held, Investor

\* After updateClaimPeriods a holder has no open share; the others keep theirs.
LEMMA UpdatedPositions ==
    ASSUME TypeOK, NEW g \in Holder, NEW h \in Investor, NEW S \in SUBSET Held(g),
           UpdateClaimPeriods(g, S), UNCHANGED <<currentPeriod, stamp>>
    PROVE  PositionPart(h)' = IF h = g THEN {} ELSE PositionPart(h)
<1>1. h \in Holder /\ Nobody \notin Holder
  BY HolderAssumption DEF Investor
<1>2. \A t \in Token :
          position'[t] = IF t \in S THEN NoPosition
                         ELSE IF t \in Held(g)
                              THEN [position[t] EXCEPT !.lastClaimed = currentPeriod]
                              ELSE position[t]
  BY DEF UpdateClaimPeriods
<1>3. currentPeriod \in Nat
  BY DEF TypeOK
<1> SUFFICES ASSUME NEW share \in Share
             PROVE  share \in PositionPart(h)' <=> h # g /\ share \in PositionPart(h)
  BY DEF PositionPart, PositionEarnings
<1>4. share[1] \in Token /\ share[2] \in Nat /\ position[share[1]] \in Position
  BY DEF Share, Period, TypeOK
<1>5. CASE share[1] \in S
  <2>1. share[1] \in Held(g) /\ position'[share[1]] = NoPosition
    BY <1>2, <1>4, <1>5
  <2>2. position'[share[1]].holder = Nobody /\ position[share[1]].holder = g
    BY <2>1 DEF Held, NoPosition
  <2> QED
    BY <1>1, <1>4, <2>2 DEF PositionPart, PositionEarnings, Held, Investor
<1>6. CASE share[1] \notin S /\ share[1] \in Held(g)
  <2>1. /\ position'[share[1]].holder = g /\ position[share[1]].holder = g
        /\ position'[share[1]].lastClaimed = currentPeriod
    BY <1>2, <1>4, <1>6 DEF Held, Position
  <2> QED
    BY <1>1, <1>3, <1>4, <2>1 DEF PositionPart, PositionEarnings, Held, Investor
<1>7. CASE share[1] \notin S /\ share[1] \notin Held(g)
  BY <1>1, <1>2, <1>4, <1>7 DEF PositionPart, PositionEarnings, Held, Investor
<1> QED
  BY <1>5, <1>6, <1>7

\* A purchase opens no share: it starts after the last distribution.
LEMMA BoughtPositions ==
    ASSUME ~SameBlockPurchases,
           TypeOK, NEW g \in Holder, NEW h \in Investor, NEW S \in SUBSET Token,
           BuyFromPrimaryPool(g, S)
    PROVE  PositionPart(h)' = PositionPart(h)
<1>1. h \in Holder /\ Nobody \notin Holder
  BY HolderAssumption DEF Investor
<1>2. \A t \in Token : position'[t] =
          IF t \in S THEN [holder |-> g, acquiredAt |-> now, lastClaimed |-> 0] ELSE position[t]
  BY DEF BuyFromPrimaryPool, Move
<1>3. /\ UNCHANGED <<currentPeriod, stamp>>
      /\ \A t \in S : position[t].holder = Nobody
      /\ \A p \in 1 .. currentPeriod : stamp[p] < now
  BY DEF BuyFromPrimaryPool, Circulating, periods
<1> SUFFICES ASSUME NEW share \in Share
             PROVE  share \in PositionPart(h)' <=> share \in PositionPart(h)
  BY DEF PositionPart, PositionEarnings
<1>4. /\ share[1] \in Token /\ share[2] \in 1 .. MaxPeriod /\ stamp[share[2]] \in Int
      /\ currentPeriod \in Nat /\ now \in Nat /\ MaxPeriod \in Nat
  BY BoundAssumption DEF Share, Period, TypeOK
<1>5. CASE share[1] \in S
  <2>1. share[2] <= currentPeriod => stamp[share[2]] < now
    BY <1>3, <1>4
  <2> QED
    BY <1>1, <1>2, <1>3, <1>4, <1>5, <2>1 DEF PositionPart, PositionEarnings, Held, Investor
<1>6. CASE share[1] \notin S
  BY <1>1, <1>2, <1>3, <1>4, <1>6 DEF PositionPart, PositionEarnings, Held, Investor
<1> QED
  BY <1>5, <1>6

\* A distribution opens, for every token an investor holds, the new share.
LEMMA DistributedPositions ==
    ASSUME TypeOK, PositionsUpToDate, NEW h \in Investor, DistributeEarnings
    PROVE  /\ PositionPart(h)' = PositionPart(h) \cup (Held(h) \X {currentPeriod + 1})
           /\ earned'[h] = earned[h] \cup (Held(h) \X {currentPeriod + 1})
<1>1. /\ h \in Holder /\ h # AssetOwner /\ MaxPeriod \in Nat
      /\ now \in Nat /\ currentPeriod \in Nat /\ currentPeriod < MaxPeriod
      /\ currentPeriod' = currentPeriod + 1 /\ position' = position
      /\ stamp' = [stamp EXCEPT ![currentPeriod + 1] = now]
  BY BoundAssumption DEF Investor, TypeOK, DistributeEarnings
<1>2. earned'[h] = earned[h] \cup (Held(h) \X {currentPeriod + 1})
  BY <1>1 DEF DistributeEarnings
<1>3. Held(h) \X {currentPeriod + 1} \subseteq Share
  BY <1>1 DEF Held, Share, Period
<1>4. ASSUME NEW share \in Share
      PROVE  share \in PositionPart(h)' <=>
                 share \in PositionPart(h) \cup (Held(h) \X {currentPeriod + 1})
  <2>1. /\ share = <<share[1], share[2]>> /\ share[1] \in Token
        /\ share[2] \in 1 .. MaxPeriod /\ stamp \in [Period -> 0 .. MaxTime]
        /\ position[share[1]].acquiredAt <= now
        /\ position[share[1]].lastClaimed <= currentPeriod
        /\ position[share[1]].lastClaimed \in Nat /\ position[share[1]].acquiredAt \in Nat
    BY DEF Share, Period, TypeOK, PositionsUpToDate, Position
  <2>2. CASE share[2] = currentPeriod + 1
    BY <1>1, <2>1, <2>2 DEF PositionPart, PositionEarnings, Held, Investor, Period
  <2>3. CASE share[2] # currentPeriod + 1
    <3>1. stamp'[share[2]] = stamp[share[2]]
      BY <1>1, <2>1, <2>3 DEF Period
    <3>2. share[2] <= currentPeriod + 1 <=> share[2] <= currentPeriod
      BY <1>1, <2>1, <2>3
    <3> QED
      BY <1>1, <2>1, <2>3, <3>1, <3>2 DEF PositionPart, PositionEarnings, Held, Investor
  <2> QED
    BY <2>2, <2>3
<1>5. PositionPart(h)' \subseteq Share /\ PositionPart(h) \subseteq Share
  BY DEF PositionPart, PositionEarnings
<1> QED
  BY <1>2, <1>3, <1>4, <1>5

-----------------------------------------------------------------------------
(* The books of one investor, step by step.                                  *)

LEMMA BooksAre ==
    ASSUME \A h \in Investor : BooksOf(h)
    PROVE  OnlyEarned /\ DueOnce /\ NothingForgotten
BY DEF BooksOf, OnlyEarned, DueOnce, NothingForgotten

\* Steps that leave the books' parts alone.
LEMMA SameBooks ==
    ASSUME NEW h \in Investor, BooksOf(h), PositionPart(h)' = PositionPart(h),
           transferred'[h] = transferred[h], snapshot'[h] = snapshot[h],
           hasClaimed'[h] = hasClaimed[h], credited'[h] = credited[h], earned'[h] = earned[h]
    PROVE  BooksOf(h)'
BY DEF BooksOf, Outstanding, PreviewSettledEarnings

LEMMA TradeBooks ==
    ASSUME ~SameBlockPurchases, TypeOK, NEW h \in Investor, BooksOf(h), TradeStep
    PROVE  BooksOf(h)'
<1>1. PICK S \in SUBSET Token, g \in Holder :
          \/ BuyFromPrimaryPool(g, S)
          \/ \E to \in Holder : Transfer(g, to, S)
          \/ BurnRevenueTokens(g, S)
          \/ RedeemPrimary(g, S)
  BY DEF TradeStep
<1>2. h \in Holder /\ h # AssetOwner
  BY DEF Investor
<1>3. CASE BuyFromPrimaryPool(g, S)
  BY <1>3, BoughtPositions, SameBooks DEF BuyFromPrimaryPool, periods, balances
<1>4. ASSUME NEW to \in Holder, Transfer(g, to, S)
      PROVE  BooksOf(h)'
  <2> DEFINE p == TransferredPosition(to)
  <2>1. /\ position' = Move(S, p) /\ p.lastClaimed = currentPeriod /\ S \subseteq Held(g)
        /\ UNCHANGED <<currentPeriod, stamp, earned, snapshot, hasClaimed, credited>>
        /\ transferred' = IF g = AssetOwner THEN transferred
                          ELSE Credit(transferred, g, PositionEarnings(S))
    BY <1>4 DEF Transfer, TransferredPosition, periods
  <2> HIDE DEF p
  <2>2. /\ PositionPart(h)' = PositionPart(h) \ PositionEarnings(S)
        /\ S \cap Held(h) = {} => PositionPart(h)' = PositionPart(h)
    BY <2>1, MovedPositions
  <2>3. CASE h # g
    <3>1. S \cap Held(h) = {}
      BY <2>1, <2>3 DEF Held
    <3>2. transferred'[h] = transferred[h]
      BY <1>2, <2>1, <2>3 DEF Credit, TypeOK
    <3> QED
      BY <2>1, <2>2, <3>1, <3>2, SameBooks
  <2>4. CASE h = g
    <3>1. transferred'[h] = transferred[h] \cup PositionEarnings(S)
      BY <1>2, <2>1, <2>4 DEF Credit, TypeOK
    <3>2. PositionEarnings(S) \subseteq PositionPart(h)
      BY <1>2, <2>1, <2>4 DEF PositionEarnings, PositionPart
    <3>3. PreviewSettledEarnings(h)' = PreviewSettledEarnings(h)
      BY <2>1 DEF PreviewSettledEarnings
    <3> QED
      BY <2>1, <2>2, <3>1, <3>2, <3>3 DEF BooksOf, Outstanding
  <2> QED
    BY <2>3, <2>4
<1>5. CASE BurnRevenueTokens(g, S)
  <2>1. /\ position' = Move(S, NoPosition) /\ NoPosition.holder \notin Holder
        /\ S \subseteq Held(g) /\ g \in AuthorizedPartner
        /\ UNCHANGED <<currentPeriod, stamp, earned, transferred, snapshot, hasClaimed, credited>>
    BY <1>5, HolderAssumption DEF BurnRevenueTokens, NoPosition, periods, balances
  <2>2. /\ PositionPart(h)' = PositionPart(h) \ PositionEarnings(S)
        /\ S \cap Held(h) = {} => PositionPart(h)' = PositionPart(h)
    BY <2>1, MovedPositions
  <2>3. CASE h # g
    <3>1. S \cap Held(h) = {}
      BY <2>1, <2>3 DEF Held
    <3> QED
      BY <2>1, <2>2, <3>1, SameBooks
  <2>4. CASE h = g
    <3>1. PreviewSettledEarnings(h)' = PreviewSettledEarnings(h)
      BY <2>1 DEF PreviewSettledEarnings
    <3> QED
      BY <2>1, <2>2, <2>4, <3>1 DEF BooksOf, Outstanding
  <2> QED
    BY <2>3, <2>4
<1>6. CASE RedeemPrimary(g, S)
  <2>1. /\ UpdateClaimPeriods(g, S) /\ S \in SUBSET Held(g)
        /\ snapshot' = Credit(snapshot, g, PositionEarnings(Held(g)))
        /\ UNCHANGED <<currentPeriod, stamp, earned, transferred, hasClaimed, credited>>
    BY <1>6 DEF RedeemPrimary, SnapshotHolderEarnings, periods
  <2>2. PositionPart(h)' = IF h = g THEN {} ELSE PositionPart(h)
    BY <2>1, UpdatedPositions
  <2>3. CASE h # g
    <3>1. snapshot'[h] = snapshot[h]
      BY <1>2, <2>1, <2>3 DEF Credit, TypeOK
    <3> QED
      BY <2>1, <2>2, <2>3, <3>1, SameBooks
  <2>4. CASE h = g
    <3>1. snapshot'[h] = snapshot[h] \cup PositionPart(h)
      BY <1>2, <2>1, <2>4 DEF Credit, TypeOK, PositionPart
    <3> QED
      BY <2>1, <2>2, <2>4, <3>1 DEF BooksOf, Outstanding, PreviewSettledEarnings
  <2> QED
    BY <2>3, <2>4
<1> QED
  BY <1>1, <1>3, <1>4, <1>5, <1>6

LEMMA DistributeBooks ==
    ASSUME TypeOK, PositionsUpToDate, EarnedOnce, NEW h \in Investor, BooksOf(h),
           DistributeEarnings
    PROVE  BooksOf(h)'
<1> DEFINE new == Held(h) \X {currentPeriod + 1}
<1>1. /\ PositionPart(h)' = PositionPart(h) \cup new
      /\ earned'[h] = earned[h] \cup new
      /\ UNCHANGED <<transferred, snapshot, hasClaimed, credited>>
  BY DistributedPositions DEF DistributeEarnings, balances
<1>2. new \cap earned[h] = {}
  <2>1. currentPeriod \in Nat /\ \A share \in new : share[2] = currentPeriod + 1
    BY DEF TypeOK
  <2>2. \A share \in earned[h] : share[2] <= currentPeriod
    BY DEF EarnedOnce
  <2> QED
    BY <2>1, <2>2
<1>3. PreviewSettledEarnings(h)' = PreviewSettledEarnings(h)
  BY <1>1 DEF PreviewSettledEarnings
<1> HIDE DEF new
<1> QED
  BY <1>1, <1>2, <1>3 DEF BooksOf, Outstanding

LEMMA ClaimBooks ==
    ASSUME TypeOK, NEW h \in Investor, BooksOf(h), ClaimStep
    PROVE  BooksOf(h)'
<1>1. PICK g \in Holder :
          ClaimEarnings(g) \/ \E autoClaim \in BOOLEAN : ClaimSettlement(g, autoClaim)
  BY DEF ClaimStep
<1>2. h \in Holder /\ h # AssetOwner
  BY DEF Investor
<1>3. CASE ClaimEarnings(g)
  <2>1. /\ hasClaimed' = [hasClaimed EXCEPT ![g] = @ \/ SnapshotPart(g) # {}]
        /\ IF PositionPart(g) # {} THEN UpdateClaimPeriods(g, {}) ELSE UNCHANGED position
        /\ transferred' = [transferred EXCEPT ![g] = {}]
        /\ credited' = Credit(credited, g, ClaimAmount(g))
        /\ UNCHANGED <<currentPeriod, stamp, earned, snapshot>>
    BY <1>3 DEF ClaimEarnings, periods
  <2>2. PositionPart(h)' = IF h = g THEN {} ELSE PositionPart(h)
    BY <2>1, UpdatedPositions, SamePositions
  <2>3. CASE h # g
    <3>1. /\ transferred'[h] = transferred[h] /\ hasClaimed'[h] = hasClaimed[h]
          /\ credited'[h] = credited[h]
      BY <1>2, <2>1, <2>3 DEF Credit, TypeOK
    <3> QED
      BY <2>1, <2>2, <2>3, <3>1, SameBooks
  <2>4. CASE h = g
    <3>1. /\ transferred'[h] = {}
          /\ hasClaimed'[h] = (hasClaimed[h] \/ SnapshotPart(h) # {})
          /\ credited'[h] = credited[h] \cup PositionPart(h) \cup transferred[h]
                                \cup SnapshotPart(h)
      BY <1>2, <2>1, <2>4 DEF Credit, TypeOK, ClaimAmount
    <3>2. /\ SnapshotPart(h) \in {{}, PreviewSettledEarnings(h)}
          /\ PreviewSettledEarnings(h)' = IF SnapshotPart(h) # {} THEN {}
                                          ELSE PreviewSettledEarnings(h)
      BY <2>1, <3>1 DEF SnapshotPart, PreviewSettledEarnings
    <3> QED
      BY <2>1, <2>2, <2>4, <3>1, <3>2 DEF BooksOf, Outstanding
  <2> QED
    BY <2>3, <2>4
<1>4. ASSUME NEW autoClaim \in BOOLEAN, ClaimSettlement(g, autoClaim)
      PROVE  BooksOf(h)'
  <2>1. /\ snapshot' = Credit(snapshot, g, PositionEarnings(Held(g)))
        /\ UpdateClaimPeriods(g, Held(g))
        /\ UNCHANGED <<currentPeriod, stamp, earned>>
    BY <1>4 DEF ClaimSettlement, SnapshotHolderEarnings, periods
  <2>2. \/ UNCHANGED <<transferred, hasClaimed, credited>>
        \/ /\ transferred' = [transferred EXCEPT ![g] = {}]
           /\ hasClaimed' = [hasClaimed EXCEPT ![g] = TRUE]
           /\ credited' = Credit(credited, g, PositionEarnings(Held(g)) \cup transferred[g])
    BY <1>4 DEF ClaimSettlement, SnapshotAmount
  <2>3. PositionPart(h)' = IF h = g THEN {} ELSE PositionPart(h)
    BY <2>1, UpdatedPositions
  <2>4. CASE h # g
    <3>1. /\ transferred'[h] = transferred[h] /\ hasClaimed'[h] = hasClaimed[h]
          /\ credited'[h] = credited[h] /\ snapshot'[h] = snapshot[h]
      BY <1>2, <2>1, <2>2, <2>4 DEF Credit, TypeOK
    <3> QED
      BY <2>1, <2>3, <2>4, <3>1, SameBooks
  <2>5. CASE h = g
    <3>1. snapshot'[h] = snapshot[h] \cup PositionPart(h)
      BY <1>2, <2>1, <2>5 DEF Credit, TypeOK, PositionPart
    <3>2. CASE UNCHANGED <<transferred, hasClaimed, credited>>
      BY <2>1, <2>3, <2>5, <3>1, <3>2 DEF BooksOf, Outstanding, PreviewSettledEarnings
    <3>3. CASE /\ transferred' = [transferred EXCEPT ![g] = {}]
               /\ hasClaimed' = [hasClaimed EXCEPT ![g] = TRUE]
               /\ credited' = Credit(credited, g, PositionEarnings(Held(g)) \cup transferred[g])
      <4>1. /\ transferred'[h] = {} /\ hasClaimed'[h]
            /\ credited'[h] = credited[h] \cup PositionPart(h) \cup transferred[h]
        BY <1>2, <2>5, <3>3 DEF Credit, TypeOK, PositionPart
      <4> QED
        BY <2>1, <2>3, <2>5, <3>1, <4>1 DEF BooksOf, Outstanding, PreviewSettledEarnings
    <3> QED
      BY <2>2, <3>2, <3>3
  <2> QED
    BY <2>4, <2>5
<1> QED
  BY <1>1, <1>3, <1>4

LEMMA AssetBooks ==
    ASSUME TypeOK, NEW h \in Investor, BooksOf(h), AssetStep \/ Tick \/ UNCHANGED vars
    PROVE  BooksOf(h)'
<1>1. CASE EnableProceeds \/ SettleAsset \/ Tick \/ UNCHANGED vars
  BY <1>1, SamePositions, SameBooks
     DEF EnableProceeds, SettleAsset, Tick, vars, periods, balances
<1>2. CASE RetireAssetAndBurnTokens
  <2>1. /\ position' = Move(Token, NoPosition) /\ NoPosition.holder \notin Holder
        /\ Circulating \subseteq Held(AssetOwner)
        /\ UNCHANGED <<currentPeriod, stamp, earned, transferred, snapshot, hasClaimed, credited>>
    BY <1>2, HolderAssumption DEF RetireAssetAndBurnTokens, NoPosition, periods, balances
  <2>2. Token \cap Held(h) = {}
    BY <2>1, HolderAssumption DEF Circulating, Held, Investor
  <2>3. PositionPart(h)' = PositionPart(h)
    BY <2>1, <2>2, MovedPositions
  <2> QED
    BY <2>1, <2>3, SameBooks
<1> QED
  BY <1>1, <1>2 DEF AssetStep

-----------------------------------------------------------------------------
(* The invariant.                                                            *)

LEMMA EarnedOnceStep ==
    ASSUME TypeOK, EarnedOnce, [Next]_vars
    PROVE  EarnedOnce'
<1>1. CASE DistributeEarnings
  <2>1. /\ currentPeriod \in Nat /\ currentPeriod' = currentPeriod + 1
        /\ \A h \in Investor :
              earned'[h] = earned[h] \cup (Held(h) \X {currentPeriod + 1})
    BY <1>1 DEF DistributeEarnings, TypeOK, Investor
  <2>2. ASSUME NEW h \in Investor, NEW share \in earned'[h]
        PROVE  share[2] <= currentPeriod'
    <3>1. share \in earned[h] => share[2] \in Nat /\ share[2] <= currentPeriod
      BY <2>2 DEF EarnedOnce, TypeOK, Share, Period, Investor
    <3> QED
      BY <2>1, <2>2, <3>1
  <2>3. ASSUME NEW g \in Investor, NEW h \in Investor, g # h,
               NEW share \in earned'[g], share \in earned'[h]
        PROVE  FALSE
    <3>1. /\ share \in earned[g] => share[2] <= currentPeriod
          /\ share \in earned[h] => share[2] <= currentPeriod
          /\ ~(share \in earned[g] /\ share \in earned[h])
      BY <2>3 DEF EarnedOnce
    <3>2. /\ share \notin earned[g] => share[1] \in Held(g) /\ share[2] = currentPeriod + 1
          /\ share \notin earned[h] => share[1] \in Held(h) /\ share[2] = currentPeriod + 1
      BY <2>1, <2>3
    <3> QED
      BY <2>1, <2>3, <3>1, <3>2 DEF Held
  <2> QED
    BY <2>2, <2>3 DEF EarnedOnce
<1>2. CASE ~DistributeEarnings
  <2>1. UNCHANGED <<currentPeriod, earned>>
    BY <1>2 DEF Next, TradeStep, ClaimStep, AssetStep, vars, periods,
       BuyFromPrimaryPool, Transfer, BurnRevenueTokens, RedeemPrimary, ClaimEarnings,
       EnableProceeds, SettleAsset, RetireAssetAndBurnTokens, ClaimSettlement, Tick
  <2> QED
    BY <2>1 DEF EarnedOnce
<1> QED
  BY <1>1, <1>2

LEMMA InitIInv == Init => IInv
<1> SUFFICES ASSUME Init PROVE IInv
  OBVIOUS
<1>1. TypeOK
  BY TypeInit
<1>2. PositionsUpToDate
  <2>1. NoPosition.acquiredAt = 0 /\ NoPosition.lastClaimed = 0
    BY DEF NoPosition
  <2>2. now = 0 /\ currentPeriod = 0 /\ \A t \in Token : position[t] = NoPosition
    BY DEF Init
  <2>3. ASSUME NEW t \in Token
        PROVE  position[t].acquiredAt <= now /\ position[t].lastClaimed <= currentPeriod
    <3>1. position[t].acquiredAt = 0 /\ position[t].lastClaimed = 0
      BY <2>1, <2>2
    <3> QED
      BY <2>2, <3>1
  <2> QED
    BY <2>3 DEF PositionsUpToDate
<1>3. EarnedOnce
  BY DEF Init, EarnedOnce, Investor
<1>4. ASSUME NEW h \in Investor PROVE BooksOf(h)
  <2>1. h \in Holder /\ \A t \in Token : position[t].holder # h
    BY HolderAssumption DEF Init, NoPosition, Investor
  <2>2. PositionPart(h) = {}
    BY <2>1 DEF PositionPart, PositionEarnings, Held
  <2> QED
    BY <2>1, <2>2 DEF Init, BooksOf, Outstanding, PreviewSettledEarnings
<1> QED
  BY <1>1, <1>2, <1>3, <1>4 DEF IInv

LEMMA StepIInv ==
    ASSUME ~SameBlockPurchases, IInv, [Next]_vars
    PROVE  IInv'
<1>1. TypeOK' /\ PositionsUpToDate' /\ EarnedOnce'
  BY TypeStep, UpToDateStep, EarnedOnceStep DEF IInv
<1>2. ASSUME NEW h \in Investor PROVE BooksOf(h)'
  BY TradeBooks, DistributeBooks, ClaimBooks, AssetBooks DEF IInv, Next
<1> QED
  BY <1>1, <1>2 DEF IInv

LEMMA AlwaysIInv == ASSUME ~SameBlockPurchases PROVE Spec => []IInv
<1>1. IInv /\ [Next]_vars => IInv'
  BY StepIInv
<1> QED
  BY <1>1, InitIInv, PTL DEF Spec

LEMMA IInvImplies == IInv => OnlyEarned /\ DueOnce /\ NothingForgotten
BY BooksAre DEF IInv

\* Nothing is counted twice: whatever is traded, redeemed, settled and claimed,
\* a share is in one place of an investor's books.
THEOREM SharesDueOnce == ASSUME ~SameBlockPurchases PROVE Spec => []DueOnce
<1>1. Spec => []IInv
  BY AlwaysIInv
<1> QED
  BY <1>1, IInvImplies, PTL

\* Investors are only ever counted and credited shares they earned.
THEOREM CreditsAreEarned == ASSUME ~SameBlockPurchases PROVE Spec => []OnlyEarned
<1>1. Spec => []IInv
  BY AlwaysIInv
<1> QED
  BY <1>1, IInvImplies, PTL

\* The books of an investor that is not a partner hold all it has earned.
THEOREM NothingIsForgotten == ASSUME ~SameBlockPurchases PROVE Spec => []NothingForgotten
<1>1. Spec => []IInv
  BY AlwaysIInv
<1> QED
  BY <1>1, IInvImplies, PTL

-----------------------------------------------------------------------------
(* The ledger.                                                               *)

LEMMA LedgerInit == Init => Ledger!Init
BY DEF Init, Ledger!Init, Investor

LEMMA LedgerDistribute == IInv /\ DistributeEarnings => Ledger!Distribute
<1> SUFFICES ASSUME IInv, DistributeEarnings PROVE Ledger!Distribute
  OBVIOUS
<1> DEFINE held == [h \in Investor |-> Held(h)]
<1>1. held \in [Investor -> SUBSET Token]
  BY DEF Held
<1>2. \A g, h \in Investor : g # h => held[g] \cap held[h] = {}
  BY DEF Held
<1>3. ASSUME NEW h \in Investor
      PROVE  earned'[h] \ credited'[h] =
                 (earned[h] \ credited[h]) \cup (held[h] \X {currentPeriod + 1})
  <2>1. /\ earned'[h] = earned[h] \cup (Held(h) \X {currentPeriod + 1})
        /\ credited' = credited
    BY DistributedPositions DEF IInv, DistributeEarnings, balances
  <2>2. \A share \in credited[h] : share[2] <= currentPeriod
    BY DEF IInv, BooksOf, EarnedOnce
  <2>3. (Held(h) \X {currentPeriod + 1}) \cap credited[h] = {}
    BY <2>2 DEF IInv, TypeOK
  <2> QED
    BY <2>1, <2>3
<1>4. /\ currentPeriod < MaxPeriod /\ currentPeriod' = currentPeriod + 1
      /\ credited' = credited
  BY DEF DistributeEarnings, balances
<1> HIDE DEF held
<1> QED
  BY <1>1, <1>2, <1>3, <1>4 DEF Ledger!Distribute

\* Crediting an investor shares that are due to it is a payment.
LEMMA LedgerPay ==
    ASSUME TypeOK, NEW h \in Investor, NEW shares \in SUBSET (earned[h] \ credited[h]),
           credited' = Credit(credited, h, shares), UNCHANGED <<currentPeriod, earned>>
    PROVE  Ledger!Pay(h)
<1>1. \A g \in Investor :
          credited'[g] = IF g = h THEN credited[g] \cup shares ELSE credited[g]
  BY DEF Credit, TypeOK, Investor
<1>2. [g \in Investor |-> earned'[g] \ credited'[g]] =
          [[g \in Investor |-> earned[g] \ credited[g]] EXCEPT ![h] = @ \ shares]
  BY <1>1
<1>3. [g \in Investor |-> credited'[g]] =
          [[g \in Investor |-> credited[g]] EXCEPT ![h] = @ \cup shares]
  BY <1>1
<1> QED
  BY <1>2, <1>3 DEF Ledger!Pay

\* What the asset's owner is credited is no business of the ledger.
LEMMA LedgerStutter ==
    ASSUME TypeOK, UNCHANGED <<currentPeriod, earned>>,
           UNCHANGED credited \/ \E shares : credited' = Credit(credited, AssetOwner, shares)
    PROVE  UNCHANGED Ledger!ledger
<1>1. \A h \in Investor : credited'[h] = credited[h]
  BY DEF Credit, TypeOK, Investor
<1> QED
  BY <1>1 DEF Ledger!ledger

LEMMA LedgerClaim == IInv /\ ClaimStep => [Ledger!Next]_Ledger!ledger
<1> SUFFICES ASSUME IInv, ClaimStep PROVE [Ledger!Next]_Ledger!ledger
  OBVIOUS
<1>1. PICK h \in Holder :
          ClaimEarnings(h) \/ \E autoClaim \in BOOLEAN : ClaimSettlement(h, autoClaim)
  BY DEF ClaimStep
<1>2. UNCHANGED <<currentPeriod, earned>>
  BY <1>1 DEF ClaimEarnings, ClaimSettlement, periods
<1>3. \/ UNCHANGED credited
      \/ credited' = Credit(credited, h, ClaimAmount(h))
      \/ credited' = Credit(credited, h, SnapshotAmount(h, TRUE))
  BY <1>1 DEF ClaimEarnings, ClaimSettlement
<1>4. CASE UNCHANGED credited \/ h = AssetOwner
  BY <1>2, <1>3, <1>4, LedgerStutter DEF IInv
<1>5. CASE h # AssetOwner
  <2>1. h \in Investor
    BY <1>5 DEF Investor
  <2>2. BooksOf(h) /\ TypeOK
    BY <2>1 DEF IInv
  <2>3. ClaimAmount(h) \in SUBSET (earned[h] \ credited[h])
    BY <2>2 DEF BooksOf, Outstanding, ClaimAmount, SnapshotPart
  <2>4. SnapshotAmount(h, TRUE) \in SUBSET (earned[h] \ credited[h])
    BY <1>5, <2>2 DEF BooksOf, Outstanding, SnapshotAmount, PositionPart
  <2>5. UNCHANGED credited \/ Ledger!Pay(h)
    BY <1>2, <1>3, <2>1, <2>2, <2>3, <2>4, LedgerPay
  <2> QED
    BY <1>2, <2>1, <2>2, <2>5, LedgerStutter DEF Ledger!Next
<1> QED
  BY <1>4, <1>5

LEMMA LedgerStep == IInv /\ [Next]_vars => [Ledger!Next]_Ledger!ledger
<1> SUFFICES ASSUME IInv, [Next]_vars PROVE [Ledger!Next]_Ledger!ledger
  OBVIOUS
<1>1. CASE DistributeEarnings
  BY <1>1, LedgerDistribute DEF Ledger!Next
<1>2. CASE ClaimStep
  BY <1>2, LedgerClaim
<1>3. CASE TradeStep \/ AssetStep \/ Tick \/ UNCHANGED vars
  <2>1. UNCHANGED <<currentPeriod, earned, credited>>
    BY <1>3 DEF TradeStep, AssetStep, vars, periods, balances,
       BuyFromPrimaryPool, Transfer, BurnRevenueTokens, RedeemPrimary,
       EnableProceeds, SettleAsset, RetireAssetAndBurnTokens, Tick
  <2> QED
    BY <2>1, LedgerStutter DEF IInv
<1> QED
  BY <1>1, <1>2, <1>3 DEF Next

\* EarningsManager implements the ledger: every credit is a payment of shares
\* that were due to that investor and had not been paid.
THEOREM ManagerImplementsLedger == ASSUME ~SameBlockPurchases PROVE Spec => ImplementsLedger
<1>1. Spec => []IInv
  BY AlwaysIInv
<1> QED
  BY <1>1, LedgerInit, LedgerStep, PTL DEF Spec, ImplementsLedger, Ledger!Spec

-----------------------------------------------------------------------------
(* What is forfeited.                                                        *)

\* Claiming the snapshot belongs to the end of an asset: no share is left in a
\* live position then, nor does one appear later.
ClaimedIsOver == \A h \in Investor :
    hasClaimed[h] => status = "Settled" /\ PositionPart(h) = {}

LEMMA ClaimedIsOverStep ==
    ASSUME ~SameBlockPurchases, TypeOK, ClaimedIsOver, [Next]_vars
    PROVE  ClaimedIsOver'
<1> SUFFICES ASSUME NEW h \in Investor, hasClaimed'[h]
             PROVE  status' = "Settled" /\ PositionPart(h)' = {}
  BY DEF ClaimedIsOver
<1>1. h \in Holder /\ h # AssetOwner
  BY DEF Investor
<1>2. hasClaimed[h] => status = "Settled" /\ PositionPart(h) = {}
  BY DEF ClaimedIsOver
<1>3. CASE TradeStep
  <2>1. PICK S \in SUBSET Token, g \in Holder :
            \/ BuyFromPrimaryPool(g, S)
            \/ \E to \in Holder : Transfer(g, to, S)
            \/ BurnRevenueTokens(g, S)
            \/ RedeemPrimary(g, S)
    BY <1>3 DEF TradeStep
  <2>2. hasClaimed' = hasClaimed
    BY <2>1 DEF BuyFromPrimaryPool, Transfer, BurnRevenueTokens, RedeemPrimary, balances
  <2>3. status = "Settled" /\ PositionPart(h) = {}
    BY <1>2, <2>2
  <2>4. ~BuyFromPrimaryPool(g, S) /\ ~RedeemPrimary(g, S)
    BY <2>3 DEF BuyFromPrimaryPool, RedeemPrimary, Operational
  <2>5. ASSUME NEW to \in Holder, Transfer(g, to, S)
        PROVE  status' = "Settled" /\ PositionPart(h)' = {}
    <3>1. /\ position' = Move(S, TransferredPosition(to))
          /\ TransferredPosition(to).lastClaimed = currentPeriod
          /\ UNCHANGED <<status, currentPeriod, stamp>>
      BY <2>5 DEF Transfer, TransferredPosition, periods
    <3>2. PositionPart(h)' = PositionPart(h) \ PositionEarnings(S)
      BY <3>1, MovedPositions
    <3> QED
      BY <2>3, <3>1, <3>2
  <2>6. CASE BurnRevenueTokens(g, S)
    <3>1. /\ position' = Move(S, NoPosition) /\ NoPosition.holder \notin Holder
          /\ UNCHANGED <<status, currentPeriod, stamp>>
      BY <2>6, HolderAssumption DEF BurnRevenueTokens, NoPosition, periods
    <3>2. PositionPart(h)' = PositionPart(h) \ PositionEarnings(S)
      BY <3>1, MovedPositions
    <3> QED
      BY <2>3, <3>1, <3>2
  <2> QED
    BY <2>1, <2>4, <2>5, <2>6
<1>4. CASE DistributeEarnings \/ AssetStep
  <2>1. hasClaimed' = hasClaimed /\ status # "Settled"
    BY <1>4 DEF DistributeEarnings, AssetStep, EnableProceeds, SettleAsset,
       RetireAssetAndBurnTokens, balances, Operational
  <2> QED
    BY <1>2, <2>1
<1>5. CASE ClaimStep
  <2>1. PICK g \in Holder :
            ClaimEarnings(g) \/ \E autoClaim \in BOOLEAN : ClaimSettlement(g, autoClaim)
    BY <1>5 DEF ClaimStep
  <2>2. CASE ClaimEarnings(g)
    <3>1. /\ hasClaimed' = [hasClaimed EXCEPT ![g] = @ \/ SnapshotPart(g) # {}]
          /\ IF PositionPart(g) # {} THEN UpdateClaimPeriods(g, {}) ELSE UNCHANGED position
          /\ UNCHANGED <<status, currentPeriod, stamp>>
      BY <2>2 DEF ClaimEarnings, periods
    <3>2. PositionPart(h)' = IF h = g THEN {} ELSE PositionPart(h)
      BY <3>1, UpdatedPositions, SamePositions
    <3>3. h # g => hasClaimed'[h] = hasClaimed[h]
      BY <1>1, <3>1 DEF TypeOK
    <3>4. h = g => hasClaimed[h] \/ status = "Settled"
      BY <1>1, <3>1 DEF TypeOK, SnapshotPart
    <3> QED
      BY <1>2, <3>1, <3>2, <3>3, <3>4
  <2>3. ASSUME NEW autoClaim \in BOOLEAN, ClaimSettlement(g, autoClaim)
        PROVE  status' = "Settled" /\ PositionPart(h)' = {}
    <3>1. /\ UpdateClaimPeriods(g, Held(g)) /\ status = "Settled"
          /\ UNCHANGED <<status, currentPeriod, stamp>>
          /\ hasClaimed' = hasClaimed \/ hasClaimed' = [hasClaimed EXCEPT ![g] = TRUE]
      BY <2>3 DEF ClaimSettlement, periods
    <3>2. PositionPart(h)' = IF h = g THEN {} ELSE PositionPart(h)
      BY <3>1, UpdatedPositions
    <3>3. h # g => hasClaimed'[h] = hasClaimed[h]
      BY <1>1, <3>1 DEF TypeOK
    <3> QED
      BY <1>2, <3>1, <3>2, <3>3
  <2> QED
    BY <2>1, <2>2, <2>3
<1>6. CASE Tick \/ UNCHANGED vars
  <2>1. UNCHANGED <<hasClaimed, status, position, currentPeriod, stamp>>
    BY <1>6 DEF Tick, vars, periods, balances
  <2> QED
    BY <1>2, <2>1, SamePositions
<1> QED
  BY <1>3, <1>4, <1>5, <1>6 DEF Next

LEMMA ClaimedIsOverAlways == ASSUME ~SameBlockPurchases PROVE Spec => [](IInv /\ ClaimedIsOver)
<1>1. Init => IInv /\ ClaimedIsOver
  BY InitIInv DEF Init, ClaimedIsOver, Investor
<1>2. IInv /\ ClaimedIsOver /\ [Next]_vars => (IInv /\ ClaimedIsOver)'
  BY StepIInv, ClaimedIsOverStep DEF IInv
<1> QED
  BY <1>1, <1>2, PTL DEF Spec

\* Steps that keep what is counted.
LEMMA SameForfeits ==
    ASSUME NEW h \in Investor, earned'[h] = earned[h],
           Outstanding(h)' \cup credited'[h] = Outstanding(h) \cup credited[h]
    PROVE  Forfeited(h)' = Forfeited(h)
BY DEF Forfeited

LEMMA SameCounted ==
    ASSUME NEW h \in Investor, earned'[h] = earned[h], PositionPart(h)' = PositionPart(h),
           transferred'[h] = transferred[h], snapshot'[h] = snapshot[h],
           hasClaimed'[h] = hasClaimed[h], credited'[h] = credited[h]
    PROVE  Forfeited(h)' = Forfeited(h)
BY DEF Forfeited, Outstanding, PreviewSettledEarnings

LEMMA TradeForfeitsNothing ==
    ASSUME ~SameBlockPurchases, TypeOK, ClaimedIsOver, TradeStep,
           NEW h \in Investor \ AuthorizedPartner
    PROVE  Forfeited(h)' = Forfeited(h)
<1>1. PICK S \in SUBSET Token, g \in Holder :
          \/ BuyFromPrimaryPool(g, S)
          \/ \E to \in Holder : Transfer(g, to, S)
          \/ BurnRevenueTokens(g, S)
          \/ RedeemPrimary(g, S)
  BY DEF TradeStep
<1>2. h \in Holder /\ h # AssetOwner /\ h \in Investor
  BY DEF Investor
<1>3. CASE BuyFromPrimaryPool(g, S)
  BY <1>2, <1>3, BoughtPositions, SameCounted DEF BuyFromPrimaryPool, periods, balances
<1>4. ASSUME NEW to \in Holder, Transfer(g, to, S)
      PROVE  Forfeited(h)' = Forfeited(h)
  <2> DEFINE p == TransferredPosition(to)
  <2>1. /\ position' = Move(S, p) /\ p.lastClaimed = currentPeriod /\ S \subseteq Held(g)
        /\ UNCHANGED <<currentPeriod, stamp, earned, snapshot, hasClaimed, credited>>
        /\ transferred' = IF g = AssetOwner THEN transferred
                          ELSE Credit(transferred, g, PositionEarnings(S))
    BY <1>4 DEF Transfer, TransferredPosition, periods
  <2> HIDE DEF p
  <2>2. /\ PositionPart(h)' = PositionPart(h) \ PositionEarnings(S)
        /\ S \cap Held(h) = {} => PositionPart(h)' = PositionPart(h)
    BY <1>2, <2>1, MovedPositions
  <2>3. CASE h # g
    <3>1. S \cap Held(h) = {}
      BY <2>1, <2>3 DEF Held
    <3>2. transferred'[h] = transferred[h]
      BY <1>2, <2>1, <2>3 DEF Credit, TypeOK
    <3> QED
      BY <1>2, <2>1, <2>2, <3>1, <3>2, SameCounted
  <2>4. CASE h = g
    <3>1. transferred'[h] = transferred[h] \cup PositionEarnings(S)
      BY <1>2, <2>1, <2>4 DEF Credit, TypeOK
    <3>2. PositionEarnings(S) \subseteq PositionPart(h)
      BY <1>2, <2>1, <2>4 DEF PositionEarnings, PositionPart
    <3>3. Outstanding(h)' = Outstanding(h)
      BY <2>1, <2>2, <3>1, <3>2 DEF Outstanding, PreviewSettledEarnings
    <3> QED
      BY <1>2, <2>1, <3>3, SameForfeits
  <2> QED
    BY <2>3, <2>4
<1>5. CASE BurnRevenueTokens(g, S)
  <2>1. /\ position' = Move(S, NoPosition) /\ NoPosition.holder \notin Holder
        /\ S \subseteq Held(g) /\ g # h
        /\ UNCHANGED <<currentPeriod, stamp, earned, transferred, snapshot, hasClaimed, credited>>
    BY <1>5, HolderAssumption DEF BurnRevenueTokens, NoPosition, periods, balances
  <2>2. S \cap Held(h) = {}
    BY <2>1 DEF Held
  <2>3. PositionPart(h)' = PositionPart(h)
    BY <1>2, <2>1, <2>2, MovedPositions
  <2> QED
    BY <1>2, <2>1, <2>3, SameCounted
<1>6. CASE RedeemPrimary(g, S)
  <2>1. /\ snapshot' = Credit(snapshot, g, PositionEarnings(Held(g)))
        /\ UpdateClaimPeriods(g, S) /\ S \subseteq Held(g) /\ status # "Settled"
        /\ UNCHANGED <<currentPeriod, stamp, earned, transferred, hasClaimed, credited>>
    BY <1>6 DEF RedeemPrimary, SnapshotHolderEarnings, Operational, periods
  <2>2. PositionPart(h)' = IF h = g THEN {} ELSE PositionPart(h)
    BY <1>2, <2>1, UpdatedPositions
  <2>3. CASE h # g
    <3>1. snapshot'[h] = snapshot[h]
      BY <1>2, <2>1, <2>3 DEF Credit, TypeOK
    <3> QED
      BY <1>2, <2>1, <2>2, <2>3, <3>1, SameCounted
\* The snapshot is open still, and takes over what the positions held.
  <2>4. CASE h = g
    <3>1. snapshot'[h] = snapshot[h] \cup PositionPart(h)
      BY <1>2, <2>1, <2>4 DEF Credit, TypeOK, PositionPart
    <3>2. ~hasClaimed[h] /\ ~hasClaimed'[h]
      BY <1>2, <2>1 DEF ClaimedIsOver
    <3>3. Outstanding(h)' = Outstanding(h)
      BY <2>1, <2>2, <2>4, <3>1, <3>2 DEF Outstanding, PreviewSettledEarnings
    <3> QED
      BY <1>2, <2>1, <3>3, SameForfeits
  <2> QED
    BY <2>3, <2>4
<1> QED
  BY <1>1, <1>3, <1>4, <1>5, <1>6

LEMMA DistributionForfeitsNothing ==
    ASSUME IInv, DistributeEarnings, NEW h \in Investor
    PROVE  Forfeited(h)' = Forfeited(h)
<1> DEFINE new == Held(h) \X {currentPeriod + 1}
<1>1. /\ PositionPart(h)' = PositionPart(h) \cup new
      /\ earned'[h] = earned[h] \cup new
      /\ UNCHANGED <<transferred, snapshot, hasClaimed, credited>>
  BY DistributedPositions DEF DistributeEarnings, balances, IInv
<1>2. new \cap earned[h] = {}
  <2>1. currentPeriod \in Nat /\ \A share \in new : share[2] = currentPeriod + 1
    BY DEF TypeOK, IInv
  <2>2. \A share \in earned[h] : share[2] <= currentPeriod
    BY DEF EarnedOnce, IInv
  <2> QED
    BY <2>1, <2>2
<1>3. Outstanding(h)' = Outstanding(h) \cup new
  BY <1>1 DEF Outstanding, PreviewSettledEarnings
<1> HIDE DEF new
<1> QED
  BY <1>1, <1>2, <1>3 DEF Forfeited

LEMMA ClaimForfeits ==
    ASSUME IInv, ClaimedIsOver, ClaimStep, NEW h \in Investor
    PROVE  \/ Forfeited(h)' = Forfeited(h)
           \/ /\ ClaimSettlement(h, TRUE)
              /\ Forfeited(h)' = Forfeited(h) \cup PreviewSettledEarnings(h)
<1>1. PICK g \in Holder :
          ClaimEarnings(g) \/ \E autoClaim \in BOOLEAN : ClaimSettlement(g, autoClaim)
  BY DEF ClaimStep
<1>2. h \in Holder /\ h # AssetOwner /\ TypeOK
  BY DEF Investor, IInv
<1>3. CASE ClaimEarnings(g)
  <2>1. /\ hasClaimed' = [hasClaimed EXCEPT ![g] = @ \/ SnapshotPart(g) # {}]
        /\ IF PositionPart(g) # {} THEN UpdateClaimPeriods(g, {}) ELSE UNCHANGED position
        /\ transferred' = [transferred EXCEPT ![g] = {}]
        /\ credited' = Credit(credited, g, ClaimAmount(g))
        /\ UNCHANGED <<currentPeriod, stamp, earned, snapshot>>
    BY <1>3 DEF ClaimEarnings, periods
  <2>2. PositionPart(h)' = IF h = g THEN {} ELSE PositionPart(h)
    BY <1>2, <2>1, UpdatedPositions, SamePositions
  <2>3. CASE h # g
    <3>1. /\ transferred'[h] = transferred[h] /\ hasClaimed'[h] = hasClaimed[h]
          /\ credited'[h] = credited[h]
      BY <1>2, <2>1, <2>3 DEF Credit, TypeOK
    <3> QED
      BY <2>1, <2>2, <2>3, <3>1, SameCounted
  <2>4. CASE h = g
    <3>1. /\ transferred'[h] = {}
          /\ hasClaimed'[h] = (hasClaimed[h] \/ SnapshotPart(h) # {})
          /\ credited'[h] = credited[h] \cup PositionPart(h) \cup transferred[h]
                                \cup SnapshotPart(h)
      BY <1>2, <2>1, <2>4 DEF Credit, TypeOK, ClaimAmount
    <3>2. /\ SnapshotPart(h) \in {{}, PreviewSettledEarnings(h)}
          /\ PreviewSettledEarnings(h)' = IF SnapshotPart(h) # {} THEN {}
                                          ELSE PreviewSettledEarnings(h)
      BY <2>1, <3>1 DEF SnapshotPart, PreviewSettledEarnings
    <3>3. Outstanding(h)' \cup credited'[h] = Outstanding(h) \cup credited[h]
      BY <2>2, <2>4, <3>1, <3>2 DEF Outstanding
    <3> QED
      BY <2>1, <3>3, SameForfeits
  <2> QED
    BY <2>3, <2>4
<1>4. ASSUME NEW autoClaim \in BOOLEAN, ClaimSettlement(g, autoClaim)
      PROVE  \/ Forfeited(h)' = Forfeited(h)
             \/ /\ ClaimSettlement(h, TRUE)
                /\ Forfeited(h)' = Forfeited(h) \cup PreviewSettledEarnings(h)
  <2>1. /\ snapshot' = Credit(snapshot, g, PositionEarnings(Held(g)))
        /\ UpdateClaimPeriods(g, Held(g))
        /\ UNCHANGED <<currentPeriod, stamp, earned>>
    BY <1>4 DEF ClaimSettlement, SnapshotHolderEarnings, periods
  <2>2. \/ UNCHANGED <<transferred, hasClaimed, credited>>
        \/ /\ autoClaim
           /\ transferred' = [transferred EXCEPT ![g] = {}]
           /\ hasClaimed' = [hasClaimed EXCEPT ![g] = TRUE]
           /\ credited' = Credit(credited, g, PositionEarnings(Held(g)) \cup transferred[g])
    BY <1>4 DEF ClaimSettlement, SnapshotAmount
  <2>3. PositionPart(h)' = IF h = g THEN {} ELSE PositionPart(h)
    BY <1>2, <2>1, UpdatedPositions
  <2>4. CASE h # g
    <3>1. /\ transferred'[h] = transferred[h] /\ hasClaimed'[h] = hasClaimed[h]
          /\ credited'[h] = credited[h] /\ snapshot'[h] = snapshot[h]
      BY <1>2, <2>1, <2>2, <2>4 DEF Credit, TypeOK
    <3> QED
      BY <2>1, <2>3, <2>4, <3>1, SameCounted
  <2>5. CASE h = g
    <3>1. snapshot'[h] = snapshot[h] \cup PositionPart(h)
      BY <1>2, <2>1, <2>5 DEF Credit, TypeOK, PositionPart
    <3>2. CASE UNCHANGED <<transferred, hasClaimed, credited>>
\* A claimed snapshot gets nothing more, an open one what the positions held.
      <4>1. hasClaimed[h] => PositionPart(h) = {}
        BY DEF ClaimedIsOver
      <4>2. Outstanding(h)' = Outstanding(h)
        BY <2>3, <2>5, <3>1, <3>2, <4>1 DEF Outstanding, PreviewSettledEarnings
      <4> QED
        BY <2>1, <3>2, <4>2, SameForfeits
    <3>3. CASE /\ autoClaim
               /\ transferred' = [transferred EXCEPT ![g] = {}]
               /\ hasClaimed' = [hasClaimed EXCEPT ![g] = TRUE]
               /\ credited' = Credit(credited, g, PositionEarnings(Held(g)) \cup transferred[g])
      <4>1. /\ transferred'[h] = {} /\ hasClaimed'[h]
            /\ credited'[h] = credited[h] \cup PositionPart(h) \cup transferred[h]
        BY <1>2, <2>5, <3>3 DEF Credit, TypeOK, PositionPart
      <4>2. Outstanding(h)' = {}
        BY <2>3, <2>5, <4>1 DEF Outstanding, PreviewSettledEarnings
      <4>3. /\ PreviewSettledEarnings(h) \subseteq earned[h]
            /\ PreviewSettledEarnings(h)
                  \cap (PositionPart(h) \cup transferred[h] \cup credited[h]) = {}
        BY DEF IInv, BooksOf, Outstanding
      <4>4. Forfeited(h)' = Forfeited(h) \cup PreviewSettledEarnings(h)
        BY <2>1, <4>1, <4>2, <4>3 DEF Forfeited, Outstanding
      <4>5. ClaimSettlement(h, TRUE)
        BY <1>4, <2>5, <3>3
      <4> QED
        BY <4>4, <4>5
    <3> QED
      BY <2>2, <3>2, <3>3
  <2> QED
    BY <2>4, <2>5
<1> QED
  BY <1>1, <1>3, <1>4

LEMMA AssetForfeitsNothing ==
    ASSUME TypeOK, NEW h \in Investor, AssetStep \/ Tick
    PROVE  Forfeited(h)' = Forfeited(h)
<1>1. CASE EnableProceeds \/ SettleAsset \/ Tick
  BY <1>1, SamePositions, SameCounted DEF EnableProceeds, SettleAsset, Tick, periods, balances
<1>2. CASE RetireAssetAndBurnTokens
  <2>1. /\ position' = Move(Token, NoPosition) /\ NoPosition.holder \notin Holder
        /\ Circulating \subseteq Held(AssetOwner)
        /\ UNCHANGED <<currentPeriod, stamp, earned, transferred, snapshot, hasClaimed, credited>>
    BY <1>2, HolderAssumption DEF RetireAssetAndBurnTokens, NoPosition, periods, balances
  <2>2. Token \cap Held(h) = {}
    BY <2>1, HolderAssumption DEF Circulating, Held, Investor
  <2>3. PositionPart(h)' = PositionPart(h)
    BY <2>1, <2>2, MovedPositions
  <2> QED
    BY <2>1, <2>3, SameCounted
<1> QED
  BY <1>1, <1>2 DEF AssetStep

\* The only step by which an investor loses earnings that were preserved for it
\* is the claim that comes with a settlement, and what it loses is exactly the
\* unclaimed snapshot.
THEOREM OnlySettlementForfeits ==
    ASSUME ~SameBlockPurchases PROVE Spec => OnlyAutoClaimForfeits
<1>1. ASSUME IInv, ClaimedIsOver, Next, NEW h \in Investor \ AuthorizedPartner,
             Forfeited(h)' # Forfeited(h)
      PROVE  /\ ClaimSettlement(h, TRUE)
             /\ Forfeited(h)' = Forfeited(h) \cup PreviewSettledEarnings(h)
  BY <1>1, TradeForfeitsNothing, DistributionForfeitsNothing, ClaimForfeits,
     AssetForfeitsNothing DEF Next, IInv
<1>2. IInv /\ ClaimedIsOver /\ [Next]_vars =>
        [\A h \in Investor \ AuthorizedPartner :
            Forfeited(h)' # Forfeited(h) =>
              /\ ClaimSettlement(h, TRUE)
              /\ Forfeited(h)' = Forfeited(h) \cup PreviewSettledEarnings(h)]_vars
  BY <1>1
<1>3. Spec => [](IInv /\ ClaimedIsOver)
  BY ClaimedIsOverAlways
<1> QED
  BY <1>2, <1>3, PTL DEF Spec, OnlyAutoClaimForfeits
=============================================================================
