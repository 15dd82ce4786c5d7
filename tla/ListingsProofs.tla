---------------------------- MODULE ListingsProofs ----------------------------
(* Listings is correct for any tokens, accounts, prices, durations, penalties *)
(* and any number of listings, and implements Consignment.  The counters of   *)
(* the code are cardinalities: a step that adds or removes n tokens, or n     *)
(* units of a listing, changes the counter and the set by the same n.         *)
EXTENDS Listings, FiniteSetTheorems, TLAPS

N == Cardinality(Token)

\* A listing was issued, has a seller as long as it is active, and never holds
\* more than there is.
ListingsSound == \A l \in ListingId :
    /\ listings[l].amount <= N
    /\ l > issued => listings[l] = NoListing
    /\ l <= issued => listings[l].seller \in Holder
    /\ listings[l].active => listings[l].amount > 0
    /\ ~listings[l].active => listings[l].amount = 0

IInv == /\ TypeOK /\ ListingsSound
        /\ LocksMatchListings /\ LockedIsHeld
        /\ EpochSupplyExact /\ EpochBacked

-----------------------------------------------------------------------------
(* Cardinalities.                                                            *)

LEMMA TokensFinite ==
    /\ N \in Nat
    /\ \A S : S \subseteq Token => IsFiniteSet(S) /\ Cardinality(S) \in Nat /\ Cardinality(S) <= N
<1>1. IsFiniteSet(Token)
  BY AccountAssumption
<1>2. N \in Nat
  BY <1>1, FS_CardinalityType DEF N
<1>3. ASSUME NEW S, S \subseteq Token
      PROVE  IsFiniteSet(S) /\ Cardinality(S) \in Nat /\ Cardinality(S) <= N
  <2>1. IsFiniteSet(S) /\ Cardinality(S) <= N
    BY <1>1, <1>3, FS_Subset DEF N
  <2> QED
    BY <2>1, FS_CardinalityType
<1> QED
  BY <1>2, <1>3

LEMMA Joined ==
    ASSUME NEW S, NEW T, IsFiniteSet(S), IsFiniteSet(T), S \cap T = {}
    PROVE  IsFiniteSet(S \cup T) /\ Cardinality(S \cup T) = Cardinality(S) + Cardinality(T)
<1>1. Cardinality(S \cap T) = 0
  BY FS_EmptySet
<1>2. Cardinality(S) \in Nat /\ Cardinality(T) \in Nat
  BY FS_CardinalityType
<1>3. /\ IsFiniteSet(S \cup T)
      /\ Cardinality(S \cup T) = Cardinality(S) + Cardinality(T) - Cardinality(S \cap T)
  BY FS_Union
<1> QED
  BY <1>1, <1>2, <1>3

LEMMA Removed ==
    ASSUME NEW S, NEW T, IsFiniteSet(S), T \subseteq S
    PROVE  /\ IsFiniteSet(S \ T) /\ IsFiniteSet(T)
           /\ Cardinality(S \ T) \in Nat /\ Cardinality(T) \in Nat /\ Cardinality(S) \in Nat
           /\ Cardinality(T) <= Cardinality(S)
           /\ Cardinality(S \ T) = Cardinality(S) - Cardinality(T)
<1>1. IsFiniteSet(T) /\ IsFiniteSet(S \ T) /\ Cardinality(T) <= Cardinality(S)
  BY FS_Subset
<1>2. S = (S \ T) \cup T /\ (S \ T) \cap T = {}
  OBVIOUS
<1>3. Cardinality(S) = Cardinality(S \ T) + Cardinality(T)
  BY <1>1, <1>2, Joined
<1>4. Cardinality(S \ T) \in Nat /\ Cardinality(T) \in Nat /\ Cardinality(S) \in Nat
  BY <1>1, FS_CardinalityType
<1> QED
  BY <1>1, <1>3, <1>4

\* A stretch of the units of one listing.
Units(l, a, b) == {l} \X ((a + 1) .. b)

LEMMA UnitsSize ==
    ASSUME NEW l, NEW a \in Nat, NEW b \in Nat, a <= b
    PROVE  IsFiniteSet(Units(l, a, b)) /\ Cardinality(Units(l, a, b)) = b - a
<1> DEFINE J == (a + 1) .. b
           f == [k \in J |-> <<l, k>>]
<1>1. IsFiniteSet(J) /\ Cardinality(J) = b - a
  <2>1. a + 1 \in Int /\ b \in Int
    OBVIOUS
  <2>2. /\ IsFiniteSet(J)
        /\ Cardinality(J) = IF a + 1 > b THEN 0 ELSE b - (a + 1) + 1
    BY <2>1, FS_Interval
  <2> QED
    BY <2>2
<1>2. f \in Bijection(J, {l} \X J)
  <2>1. f \in [J -> {l} \X J] /\ IsInjective(f)
    BY DEF IsInjective
  <2>2. \A u \in {l} \X J : \E k \in J : f[k] = u
    OBVIOUS
  <2> QED
    BY <2>1, <2>2 DEF Bijection, Injection, Surjection
<1>3. ExistsBijection(J, {l} \X J)
  BY <1>2 DEF ExistsBijection
<1> HIDE DEF J
<1>4. IsFiniteSet({l} \X J) /\ Cardinality({l} \X J) = Cardinality(J)
  BY <1>1, <1>3, FS_Bijection
<1> QED
  BY <1>1, <1>4 DEF J, Units

-----------------------------------------------------------------------------
(* Positions.                                                                *)

LEMMA HeldFacts ==
    ASSUME TypeOK
    PROVE  /\ \A h : Held(h) \subseteq Token
           /\ OfEpoch \subseteq Circulating /\ Circulating \subseteq Token
           /\ \A h \in Holder : Held(h) \subseteq Circulating
           /\ \A g, h : g # h => Held(g) \cap Held(h) = {}
BY AccountAssumption DEF Held, OfEpoch, Circulating

LEMMA HeldSizes ==
    ASSUME TypeOK
    PROVE  /\ \A h : IsFiniteSet(Held(h)) /\ Cardinality(Held(h)) \in Nat /\ Cardinality(Held(h)) <= N
           /\ IsFiniteSet(OfEpoch) /\ Cardinality(OfEpoch) \in Nat
BY TokensFinite, HeldFacts

LEMMA NoPositionTyped == NoPosition \in Position
BY DEF NoPosition, Position

LEMMA TransferTyped ==
    ASSUME TypeOK, NEW S, NEW to \in Holder, TransferPositions(S, to)
    PROVE  position' \in [Token -> Position]
BY DEF TypeOK, TransferPositions, Position

LEMMA BurnTyped ==
    ASSUME TypeOK, NEW S, position' = [t \in Token |-> IF t \in S THEN NoPosition ELSE position[t]]
    PROVE  position' \in [Token -> Position]
BY NoPositionTyped DEF TypeOK

\* Moving tokens between holders leaves the tokens of the epoch as they are.
LEMMA TransferKeepsEpoch ==
    ASSUME IInv, NEW S, S \subseteq Circulating, NEW to \in Holder, TransferPositions(S, to),
           UNCHANGED epochVars
    PROVE  EpochSupplyExact' /\ EpochBacked'
<1>1. \A t \in Token : /\ position'[t].epoch = position[t].epoch
                       /\ position'[t].holder # Nobody <=> position[t].holder # Nobody
  BY AccountAssumption DEF TransferPositions, Circulating
<1>2. OfEpoch' = OfEpoch /\ Circulating' = Circulating
  BY <1>1 DEF OfEpoch, Circulating, epochVars
<1> QED
  BY <1>1, <1>2 DEF IInv, EpochSupplyExact, EpochBacked, epochVars, Circulating

\* A burn takes from the supply of the epoch what it takes from its tokens.
LEMMA BurnKeepsEpoch ==
    ASSUME IInv, NEW S, S \subseteq Token, BurnPositions(S), UNCHANGED <<epoch, backed>>
    PROVE  epochSupply' \in Nat /\ EpochSupplyExact' /\ EpochBacked'
<1>1. OfEpoch' = OfEpoch \ (S \cap OfEpoch) /\ Circulating' = Circulating \ S
  BY DEF BurnPositions, OfEpoch, Circulating, NoPosition
<1>2. /\ Cardinality(OfEpoch \ (S \cap OfEpoch)) = Cardinality(OfEpoch) - Cardinality(S \cap OfEpoch)
      /\ Cardinality(OfEpoch \ (S \cap OfEpoch)) \in Nat
      /\ Cardinality(S \cap OfEpoch) \in Nat
  BY HeldSizes, Removed DEF IInv
<1>3. epochSupply' = Cardinality(OfEpoch \ (S \cap OfEpoch))
  BY <1>2 DEF BurnPositions, IInv, EpochSupplyExact
<1>4. EpochSupplyExact' /\ epochSupply' \in Nat
  BY <1>1, <1>2, <1>3 DEF EpochSupplyExact
<1>5. epochSupply' > 0 => epochSupply > 0
  BY <1>2 DEF BurnPositions, IInv, TypeOK
<1>6. \A t \in Circulating' : position'[t] = position[t] /\ t \in Circulating
  BY <1>1 DEF BurnPositions, Circulating
<1> QED
  BY <1>4, <1>5, <1>6 DEF IInv, EpochBacked

\* Tokens S of the epoch were burned, or none, and some principal is gone.
LEMMA RollKeepsEpoch ==
    ASSUME IInv, NEW S, S \subseteq OfEpoch, NEW principal \in Nat,
           position' = [t \in Token |-> IF t \in S THEN NoPosition ELSE position[t]],
           RollEpochIfExhausted(epochSupply - Cardinality(S), principal)
    PROVE  /\ epoch' \in Nat /\ epochSupply' \in Nat /\ backed' \in Nat
           /\ EpochSupplyExact' /\ EpochBacked'
<1>1. Circulating' = Circulating \ S
  BY DEF Circulating, NoPosition
<1>2. \A t \in Circulating' : position'[t] = position[t] /\ t \in Circulating
  BY <1>1 DEF Circulating
<1>3. /\ Cardinality(OfEpoch \ S) = Cardinality(OfEpoch) - Cardinality(S)
      /\ Cardinality(OfEpoch \ S) \in Nat
  BY HeldSizes, Removed DEF IInv
<1>4. CASE UNCHANGED epoch
  <2>1. OfEpoch' = OfEpoch \ S
    BY <1>4, <1>1, <1>2 DEF OfEpoch
  <2>2. epochSupply' = epochSupply - Cardinality(S) /\ backed' = principal /\ principal > 0
    BY <1>4 DEF RollEpochIfExhausted, IInv, TypeOK
  <2> QED
    BY <1>2, <1>3, <1>4, <2>1, <2>2 DEF IInv, TypeOK, EpochSupplyExact, EpochBacked
<1>5. CASE epoch' = epoch + 1 /\ epochSupply' = 0 /\ backed' = 0
  <2>1. \A t \in Circulating' : position'[t].epoch <= epoch /\ position'[t].epoch \in Nat
    BY <1>2 DEF IInv, EpochBacked, TypeOK, Position, Circulating
  <2>2. OfEpoch' = {}
    BY <1>5, <2>1 DEF OfEpoch, IInv, TypeOK
  <2>3. Cardinality(OfEpoch') = 0
    BY <2>2, FS_EmptySet
  <2> QED
    BY <1>5, <2>1, <2>3 DEF IInv, TypeOK, EpochSupplyExact, EpochBacked
<1> QED
  BY <1>4, <1>5 DEF RollEpochIfExhausted

\* Whoever gives up unlocked tokens still holds what it has locked.
LEMMA StillHeld ==
    ASSUME IInv, TypeOK', UNCHANGED locked, NEW h \in Holder, NEW S, S \subseteq Held(h),
           Unlocked(h, S), \A g \in Holder : Held(g) \ S \subseteq Held(g)'
    PROVE  LockedIsHeld'
<1> SUFFICES ASSUME NEW g \in Holder PROVE locked[g] <= Cardinality(Held(g)')
  BY DEF LockedIsHeld
<1>1. /\ IsFiniteSet(Held(g)) /\ IsFiniteSet(Held(g)') /\ Cardinality(Held(g)') \in Nat
      /\ locked[g] \in Nat /\ locked[g] <= Cardinality(Held(g)) /\ Cardinality(Held(g)) \in Nat
  BY HeldSizes, TokensFinite DEF IInv, TypeOK, LockedIsHeld, Held
<1>2. Cardinality(Held(g) \ S) <= Cardinality(Held(g)')
  BY <1>1, FS_Subset
<1>3. CASE g = h
  <2>1. /\ Cardinality(Held(h) \ S) = Cardinality(Held(h)) - Cardinality(S)
        /\ Cardinality(S) \in Nat /\ IsFiniteSet(S)
    BY <1>1, <1>3, Removed
  <2> QED
    BY <1>1, <1>2, <1>3, <2>1 DEF Unlocked, AvailableAmount
<1>4. CASE g # h
  <2>1. Held(g) \ S = Held(g)
    BY <1>4 DEF Held
  <2>2. Cardinality(Held(g) \ S) = Cardinality(Held(g))
    BY <2>1
  <2> QED
    BY <1>1, <1>2, <2>2
<1> QED
  BY <1>3, <1>4

-----------------------------------------------------------------------------
(* Locks and listings.                                                       *)

LEMMA OfferedFinite ==
    \A h : IsFiniteSet(Offered(h)) /\ Cardinality(Offered(h)) \in Nat
<1> SUFFICES ASSUME NEW h PROVE IsFiniteSet(Offered(h)) /\ Cardinality(Offered(h)) \in Nat
  OBVIOUS
<1>1. IsFiniteSet(ListingId) /\ IsFiniteSet(1 .. N)
  BY FS_Interval, TokensFinite, MarketAssumption DEF ListingId
<1>2. IsFiniteSet(ListingId \X (1 .. N))
  BY <1>1, FS_Product
<1>3. Offered(h) \subseteq ListingId \X (1 .. N)
  BY DEF Offered, N
<1>4. IsFiniteSet(Offered(h))
  BY <1>2, <1>3, FS_Subset
<1> QED
  BY <1>4, FS_CardinalityType

\* An active listing of seller h offers its units, which the lock of h covers.
LEMMA OfferedUnits ==
    ASSUME IInv, NEW l \in ListingId, listings[l].active
    PROVE  /\ listings[l].seller \in Holder /\ l <= issued
           /\ listings[l].amount \in Nat /\ listings[l].amount <= N
           /\ \A a \in Nat : Units(l, a, listings[l].amount) \subseteq Offered(listings[l].seller)
           /\ listings[l].amount <= locked[listings[l].seller]
<1> DEFINE h == listings[l].seller
<1>1. listings[l] \in Listing /\ issued \in Nat /\ l \in Nat
  BY MarketAssumption DEF IInv, TypeOK, ListingId
<1>2. l <= issued
  BY <1>1 DEF IInv, ListingsSound, NoListing
<1>3. h \in Holder /\ listings[l].amount \in Nat /\ listings[l].amount <= N
  BY <1>1, <1>2 DEF IInv, ListingsSound, Listing
<1>4. \A a \in Nat : Units(l, a, listings[l].amount) \subseteq Offered(h)
  BY <1>3, TokensFinite DEF Units, Offered, N
<1>5. Cardinality(Units(l, 0, listings[l].amount)) = listings[l].amount
  <2>1. 0 \in Nat /\ 0 <= listings[l].amount
    BY <1>3
  <2>2. Cardinality(Units(l, 0, listings[l].amount)) = listings[l].amount - 0
    BY <1>3, <2>1, UnitsSize
  <2> QED
    BY <1>3, <2>2
<1>6. Cardinality(Units(l, 0, listings[l].amount)) <= Cardinality(Offered(h))
  BY <1>4, OfferedFinite, FS_Subset
<1>7. Cardinality(Offered(h)) = locked[h]
  BY <1>3 DEF IInv, LocksMatchListings
<1> QED
  BY <1>2, <1>3, <1>4, <1>5, <1>6, <1>7

\* n units leave an active listing and the lock of its seller.
LEMMA UnitsLeave ==
    ASSUME IInv, NEW l \in ListingId, listings[l].active, NEW h, h = listings[l].seller,
           NEW n \in Nat, n <= listings[l].amount,
           \A k \in ListingId : k # l => listings'[k] = listings[k],
           listings'[l].seller = h,
           listings'[l].amount = listings[l].amount - n,
           listings'[l].active <=> n < listings[l].amount,
           locked' = [locked EXCEPT ![h] = @ - n]
    PROVE  LocksMatchListings' /\ locked' \in [Holder -> Nat]
<1> DEFINE a == listings[l].amount
<1>1. /\ h \in Holder /\ a \in Nat /\ a <= N /\ a - n \in Nat /\ a - n <= a
      /\ locked \in [Holder -> Nat] /\ a <= locked[h]
  BY OfferedUnits DEF IInv, TypeOK
<1>2. /\ Units(l, a - n, a) \subseteq Offered(h)
      /\ Offered(h)' = Offered(h) \ Units(l, a - n, a)
  <2>1. Units(l, a - n, a) \subseteq Offered(h)
    BY <1>1, OfferedUnits
  <2>2. \A unit \in ListingId \X (1 .. N) :
            unit \in Offered(h)' <=> unit \in Offered(h) /\ unit \notin Units(l, a - n, a)
    <3> SUFFICES ASSUME NEW k \in ListingId, NEW i \in 1 .. N
                 PROVE  <<k, i>> \in Offered(h)' <=>
                            <<k, i>> \in Offered(h) /\ <<k, i>> \notin Units(l, a - n, a)
      OBVIOUS
    <3>1. CASE k # l
      BY <3>1 DEF Offered, Units
    <3>2. CASE k = l
      <4>1. <<l, i>> \in Offered(h)' <=> n < a /\ i <= a - n
        BY <3>2 DEF Offered, N
      <4>2. <<l, i>> \in Offered(h) <=> i <= a
        BY <3>2 DEF Offered, N
      <4>3. <<l, i>> \in Units(l, a - n, a) <=> a - n + 1 <= i /\ i <= a
        BY <1>1, TokensFinite DEF Units
      <4> QED
        BY <1>1, <3>2, <4>1, <4>2, <4>3, TokensFinite
    <3> QED
      BY <3>1, <3>2
  <2>3. Offered(h)' \subseteq ListingId \X (1 .. N) /\ Offered(h) \subseteq ListingId \X (1 .. N)
    BY DEF Offered, N
  <2> QED
    BY <2>1, <2>2, <2>3
<1>3. \A g \in Holder : g # h => Offered(g)' = Offered(g)
  BY DEF Offered
<1>4. Cardinality(Units(l, a - n, a)) = n
  BY <1>1, UnitsSize
<1>5. Cardinality(Offered(h)') = Cardinality(Offered(h)) - n
  <2>1. Cardinality(Offered(h) \ Units(l, a - n, a)) = Cardinality(Offered(h)) - n
    BY <1>2, <1>4, OfferedFinite, Removed
  <2> QED
    BY <1>2, <2>1
<1>6. locked' \in [Holder -> Nat]
  BY <1>1
<1>7. locked'[h] = Cardinality(Offered(h)')
  BY <1>1, <1>5 DEF IInv, LocksMatchListings
<1>8. \A g \in Holder : g # h => locked'[g] = Cardinality(Offered(g)')
  BY <1>1, <1>3 DEF IInv, LocksMatchListings
<1> QED
  BY <1>6, <1>7, <1>8 DEF LocksMatchListings

\* A lock and its listing are created together.
LEMMA UnitsEnter ==
    ASSUME IInv, issued < MaxListings, NEW h \in Holder, NEW n \in Nat, n <= N,
           \A k \in ListingId : k # issued + 1 => listings'[k] = listings[k],
           listings'[issued + 1].seller = h, listings'[issued + 1].amount = n,
           listings'[issued + 1].active,
           locked' = [locked EXCEPT ![h] = @ + n]
    PROVE  LocksMatchListings' /\ locked' \in [Holder -> Nat]
<1>1. PICK l \in ListingId : l = issued + 1
  BY MarketAssumption DEF IInv, TypeOK, ListingId
<1>2. ~listings[l].active
  BY <1>1, MarketAssumption DEF IInv, TypeOK, ListingsSound, NoListing
<1>3. /\ Offered(h) \cap Units(l, 0, n) = {}
      /\ Offered(h)' = Offered(h) \cup Units(l, 0, n)
  <2>1. \A unit \in ListingId \X (1 .. N) :
            /\ unit \in Units(l, 0, n) => unit \notin Offered(h)
            /\ unit \in Offered(h)' <=> unit \in Offered(h) \/ unit \in Units(l, 0, n)
    <3> SUFFICES ASSUME NEW k \in ListingId, NEW i \in 1 .. N
                 PROVE  /\ <<k, i>> \in Units(l, 0, n) => <<k, i>> \notin Offered(h)
                        /\ <<k, i>> \in Offered(h)' <=>
                               <<k, i>> \in Offered(h) \/ <<k, i>> \in Units(l, 0, n)
      OBVIOUS
    <3>1. CASE k # l
      BY <1>1, <3>1 DEF Offered, Units
    <3>2. CASE k = l
      <4>1. <<l, i>> \in Offered(h)' <=> i <= n
        BY <1>1, <3>2 DEF Offered, N
      <4>2. <<l, i>> \notin Offered(h)
        BY <1>2, <3>2 DEF Offered, N
      <4>3. <<l, i>> \in Units(l, 0, n) <=> i <= n
        BY TokensFinite DEF Units
      <4> QED
        BY <3>2, <4>1, <4>2, <4>3
    <3> QED
      BY <3>1, <3>2
  <2>2. Offered(h)' \subseteq ListingId \X (1 .. N) /\ Offered(h) \subseteq ListingId \X (1 .. N)
    BY DEF Offered, N
  <2>3. Units(l, 0, n) \subseteq ListingId \X (1 .. N)
    BY TokensFinite DEF Units
  <2> QED
    BY <2>1, <2>2, <2>3
<1>4. \A g \in Holder : g # h => Offered(g)' = Offered(g)
  BY <1>1, <1>2 DEF Offered
<1>5. IsFiniteSet(Units(l, 0, n)) /\ Cardinality(Units(l, 0, n)) = n
  <2>1. 0 \in Nat /\ 0 <= n /\ n - 0 = n
    OBVIOUS
  <2> QED
    BY <2>1, UnitsSize
<1>6. Cardinality(Offered(h)') = Cardinality(Offered(h)) + n
  <2>1. Cardinality(Offered(h) \cup Units(l, 0, n)) = Cardinality(Offered(h)) + n
    <3>1. IsFiniteSet(Offered(h)) /\ IsFiniteSet(Units(l, 0, n)) /\ Offered(h) \cap Units(l, 0, n) = {}
      BY <1>3, <1>5, OfferedFinite
    <3>2. Cardinality(Offered(h) \cup Units(l, 0, n))
              = Cardinality(Offered(h)) + Cardinality(Units(l, 0, n))
      BY <3>1, Joined
    <3> QED
      BY <1>5, <3>2
  <2> QED
    BY <1>3, <2>1
<1>7. locked' \in [Holder -> Nat]
  BY DEF IInv, TypeOK
<1>8. locked'[h] = Cardinality(Offered(h)')
  BY <1>6 DEF IInv, TypeOK, LocksMatchListings
<1>9. \A g \in Holder : g # h => locked'[g] = Cardinality(Offered(g)')
  BY <1>4 DEF IInv, TypeOK, LocksMatchListings
<1> QED
  BY <1>7, <1>8, <1>9 DEF LocksMatchListings

LEMMA MarketKept ==
    ASSUME IInv, UNCHANGED market
    PROVE  LocksMatchListings' /\ ListingsSound'
<1>1. \A h : Offered(h)' = Offered(h)
  BY DEF Offered, market
<1> QED
  BY <1>1 DEF IInv, LocksMatchListings, ListingsSound, market

-----------------------------------------------------------------------------
(* The invariant is inductive.                                               *)

LEMMA IInvInit == Init => IInv
<1> SUFFICES ASSUME Init PROVE IInv
  OBVIOUS
<1>1. TypeOK /\ ListingsSound
  <2>1. NoListing \in Listing /\ NoPosition \in Position
    BY DEF NoListing, Listing, NoPosition, Position
  <2> QED
    BY <2>1, TokensFinite, MarketAssumption
       DEF Init, TypeOK, ListingsSound, Status, ListingId, NoListing
<1>2. OfEpoch = {} /\ Circulating = {} /\ \A h : Offered(h) = {}
  BY DEF Init, OfEpoch, Circulating, Offered, NoPosition, NoListing
<1>3. LocksMatchListings /\ EpochSupplyExact
  BY <1>2, FS_EmptySet DEF Init, LocksMatchListings, EpochSupplyExact
<1>4. LockedIsHeld
  BY <1>1, HeldSizes DEF Init, LockedIsHeld
<1>5. EpochBacked
  BY <1>2 DEF Init, EpochBacked
<1> QED
  BY <1>1, <1>3, <1>4, <1>5 DEF IInv

LEMMA HeldGrows ==
    ASSUME IInv, TypeOK', UNCHANGED locked, \A h \in Holder : Held(h) \subseteq Held(h)'
    PROVE  LockedIsHeld'
<1> SUFFICES ASSUME NEW h \in Holder PROVE locked[h] <= Cardinality(Held(h)')
  BY DEF LockedIsHeld
<1>1. IsFiniteSet(Held(h)') /\ Cardinality(Held(h)') \in Nat
  BY TokensFinite DEF Held
<1>2. Cardinality(Held(h)) <= Cardinality(Held(h)') /\ Cardinality(Held(h)) \in Nat
  BY <1>1, HeldSizes, FS_Subset DEF IInv
<1> QED
  BY <1>1, <1>2 DEF IInv, TypeOK, LockedIsHeld

LEMMA EpochKept ==
    ASSUME IInv, UNCHANGED <<position, epochVars>>
    PROVE  EpochSupplyExact' /\ EpochBacked'
<1>1. OfEpoch' = OfEpoch /\ Circulating' = Circulating
  BY DEF OfEpoch, Circulating, epochVars
<1> QED
  BY <1>1 DEF IInv, EpochSupplyExact, EpochBacked, epochVars

\* Tokens that are burned leave their holder, nobody else.
LEMMA BurnLeaves ==
    ASSUME NEW S, position' = [t \in Token |-> IF t \in S THEN NoPosition ELSE position[t]]
    PROVE  \A g : Held(g) \ S \subseteq Held(g)'
BY DEF Held

LEMMA BuyFromPrimaryPoolStep ==
    ASSUME IInv, NEW h \in Holder, NEW S, BuyFromPrimaryPool(h, S)
    PROVE  IInv'
<1>1. S \subseteq Token /\ S \cap Circulating = {}
  BY DEF BuyFromPrimaryPool
<1>2. IsFiniteSet(S) /\ Cardinality(S) \in Nat
  BY <1>1, TokensFinite
<1>3. TypeOK'
  <2>1. position' \in [Token -> Position]
    BY DEF IInv, TypeOK, BuyFromPrimaryPool, Position
  <2>2. Cardinality(S) * TokenPrice \in Nat
    BY <1>2, MarketAssumption
  <2> QED
    BY <1>2, <2>1, <2>2 DEF IInv, TypeOK, BuyFromPrimaryPool, market
<1>4. Circulating' = Circulating \cup S
  BY <1>1, AccountAssumption DEF BuyFromPrimaryPool, Circulating
<1>5. OfEpoch' = OfEpoch \cup S /\ OfEpoch \cap S = {}
  BY <1>1, <1>4 DEF BuyFromPrimaryPool, Circulating, OfEpoch
<1>6. EpochSupplyExact'
  <2>1. Cardinality(OfEpoch \cup S) = Cardinality(OfEpoch) + Cardinality(S)
    BY <1>2, <1>5, HeldSizes, Joined DEF IInv
  <2> QED
    BY <1>5, <2>1 DEF IInv, EpochSupplyExact, BuyFromPrimaryPool
<1>7. EpochBacked'
  <2>1. Cardinality(S) > 0
    BY <1>2, FS_EmptySet DEF BuyFromPrimaryPool
  <2>2. backed' > 0
    BY <1>2, <2>1, MarketAssumption DEF BuyFromPrimaryPool, IInv, TypeOK
  <2>3. \A t \in Circulating' : position'[t].epoch <= epoch'
    <3> SUFFICES ASSUME NEW t \in Circulating' PROVE position'[t].epoch <= epoch'
      OBVIOUS
    <3>1. t \in Token /\ epoch \in Nat /\ epoch' = epoch
      BY DEF Circulating, BuyFromPrimaryPool, IInv, TypeOK
    <3>2. CASE t \in S
      BY <3>1, <3>2 DEF BuyFromPrimaryPool
    <3>3. CASE t \notin S
      <4>1. t \in Circulating /\ position'[t] = position[t]
        BY <1>4, <3>1, <3>3 DEF BuyFromPrimaryPool
      <4> QED
        BY <3>1, <4>1 DEF IInv, EpochBacked
    <3> QED
      BY <3>2, <3>3
  <2> QED
    BY <2>2, <2>3 DEF EpochBacked
<1>8. LockedIsHeld'
  <2>1. \A g \in Holder : Held(g) \subseteq Held(g)'
    BY <1>1, AccountAssumption DEF BuyFromPrimaryPool, Held, Circulating
  <2> QED
    BY <1>3, <2>1, HeldGrows DEF BuyFromPrimaryPool, market
<1>9. UNCHANGED market
  BY DEF BuyFromPrimaryPool
<1> QED
  BY <1>3, <1>6, <1>7, <1>8, <1>9, MarketKept DEF IInv

LEMMA RedeemPrimaryPoolStep ==
    ASSUME IInv, NEW h \in Holder, NEW S, RedeemPrimaryPool(h, S)
    PROVE  IInv'
<1>1. S \subseteq Held(h) /\ S \subseteq OfEpoch
  BY DEF RedeemPrimaryPool, Oldest
<1>2. PICK payout \in 1 .. backed :
          RollEpochIfExhausted(epochSupply - Cardinality(S), backed - payout)
  BY DEF RedeemPrimaryPool
<1>3. backed - payout \in Nat
  BY DEF IInv, TypeOK
<1>4. /\ epoch' \in Nat /\ epochSupply' \in Nat /\ backed' \in Nat
      /\ EpochSupplyExact' /\ EpochBacked'
  BY <1>1, <1>2, <1>3, RollKeepsEpoch DEF RedeemPrimaryPool
<1>5. TypeOK'
  BY <1>4, BurnTyped DEF IInv, TypeOK, RedeemPrimaryPool, market
<1>6. LockedIsHeld'
  BY <1>1, <1>5, BurnLeaves, StillHeld DEF RedeemPrimaryPool, market
<1>7. UNCHANGED market
  BY DEF RedeemPrimaryPool
<1> QED
  BY <1>4, <1>5, <1>6, <1>7, MarketKept DEF IInv

LEMMA ReleasePrincipalStep ==
    ASSUME IInv, ReleasePrincipal
    PROVE  IInv'
<1>1. PICK released \in 1 .. backed : RollEpochIfExhausted(epochSupply, backed - released)
  BY DEF ReleasePrincipal
<1>2. backed - released \in Nat /\ epochSupply - Cardinality({}) = epochSupply
  BY FS_EmptySet DEF IInv, TypeOK
<1>3. position' = [t \in Token |-> IF t \in {} THEN NoPosition ELSE position[t]]
  BY DEF ReleasePrincipal, IInv, TypeOK
<1>4. RollEpochIfExhausted(epochSupply - Cardinality({}), backed - released)
  BY <1>1, <1>2
<1>5. /\ epoch' \in Nat /\ epochSupply' \in Nat /\ backed' \in Nat
      /\ EpochSupplyExact' /\ EpochBacked'
  <2>1. {} \subseteq OfEpoch
    OBVIOUS
  <2> QED
    BY <1>2, <1>3, <1>4, <2>1, RollKeepsEpoch
<1>6. TypeOK'
  BY <1>5 DEF IInv, TypeOK, ReleasePrincipal, market
<1>7. LockedIsHeld'
  BY <1>6, HeldGrows DEF ReleasePrincipal, market, Held
<1>8. UNCHANGED market
  BY DEF ReleasePrincipal
<1> QED
  BY <1>5, <1>6, <1>7, <1>8, MarketKept DEF IInv

LEMMA TransferStep ==
    ASSUME IInv, NEW from \in Holder, NEW to \in Holder, NEW S, Transfer(from, to, S)
    PROVE  IInv'
<1>1. S \subseteq Held(from) /\ S \subseteq Circulating
  BY HeldFacts DEF Transfer, Oldest, IInv
<1>2. TypeOK'
  BY TransferTyped DEF IInv, TypeOK, Transfer, epochVars, market
<1>3. LockedIsHeld'
  <2>1. \A g \in Holder : Held(g) \ S \subseteq Held(g)'
    BY DEF Transfer, TransferPositions, Held
  <2> QED
    BY <1>1, <1>2, <2>1, StillHeld DEF Transfer, market
<1>4. EpochSupplyExact' /\ EpochBacked'
  BY <1>1, TransferKeepsEpoch DEF Transfer
<1>5. UNCHANGED market
  BY DEF Transfer
<1> QED
  BY <1>2, <1>3, <1>4, <1>5, MarketKept DEF IInv

LEMMA BurnStep ==
    ASSUME IInv, NEW h \in Holder, NEW S, S \subseteq Held(h), Unlocked(h, S), BurnPositions(S),
           status' \in Status, UNCHANGED <<now, epoch, backed, market>>
    PROVE  IInv'
<1>1. S \subseteq Token
  BY DEF Held
<1>2. epochSupply' \in Nat /\ EpochSupplyExact' /\ EpochBacked'
  BY <1>1, BurnKeepsEpoch
<1>3. TypeOK'
  BY <1>2, BurnTyped DEF IInv, TypeOK, BurnPositions, market
<1>4. LockedIsHeld'
  BY <1>3, BurnLeaves, StillHeld DEF BurnPositions, market
<1> QED
  BY <1>2, <1>3, <1>4, MarketKept DEF IInv

LEMMA CreateListingStep ==
    ASSUME IInv, NEW h \in Holder, NEW n \in Nat, NEW price \in Prices,
           NEW duration \in Durations, NEW buyerPaysFee \in FeePayers,
           CreateListing(h, n, price, duration, buyerPaysFee)
    PROVE  IInv'
<1> DEFINE new == [seller |-> h, amount |-> n, sold |-> 0, price |-> price,
                   expiresAt |-> now + duration, buyerPaysFee |-> buyerPaysFee, active |-> TRUE]
<1>1. /\ n > 0 /\ locked[h] + n <= Cardinality(Held(h)) /\ issued < MaxListings
      /\ issued' = issued + 1 /\ listings' = [listings EXCEPT ![issued + 1] = new]
      /\ locked' = [locked EXCEPT ![h] = @ + n]
      /\ UNCHANGED <<now, status, position, epochVars>>
  BY DEF CreateListing, Lockable
<1>2. issued + 1 \in ListingId /\ issued \in Nat
  BY <1>1, MarketAssumption DEF IInv, TypeOK, ListingId
<1>3. new \in Listing
  BY MarketAssumption DEF IInv, TypeOK, Listing
<1>4. n <= N
  BY <1>1, HeldSizes, TokensFinite DEF IInv, TypeOK
<1>5. /\ listings'[issued + 1] = new
      /\ \A k \in ListingId : k # issued + 1 => listings'[k] = listings[k]
  BY <1>1, <1>2 DEF IInv, TypeOK
<1>6. LocksMatchListings' /\ locked' \in [Holder -> Nat]
  <2>1. /\ listings'[issued + 1].seller = h /\ listings'[issued + 1].amount = n
        /\ listings'[issued + 1].active
    BY <1>5
  <2> QED
    BY <1>1, <1>4, <1>5, <2>1, UnitsEnter
<1>7. TypeOK'
  <2>1. listings' \in [ListingId -> Listing]
    BY <1>1, <1>3 DEF IInv, TypeOK
  <2>2. issued' \in 0 .. MaxListings
    BY <1>1, <1>2, MarketAssumption
  <2> QED
    BY <1>1, <1>6, <2>1, <2>2 DEF IInv, TypeOK, epochVars
<1>8. ListingsSound'
  <2> SUFFICES ASSUME NEW l \in ListingId
               PROVE  /\ listings'[l].amount <= N
                      /\ l > issued' => listings'[l] = NoListing
                      /\ l <= issued' => listings'[l].seller \in Holder
                      /\ listings'[l].active => listings'[l].amount > 0
                      /\ ~listings'[l].active => listings'[l].amount = 0
    BY DEF ListingsSound, N
  <2>1. CASE l = issued + 1
    BY <1>1, <1>2, <1>4, <1>5, <2>1
  <2>2. CASE l # issued + 1
    <3>1. l \in Nat /\ (l > issued' => l > issued) /\ (l <= issued' => l <= issued)
      BY <1>1, <1>2, <2>2, MarketAssumption DEF ListingId
    <3> QED
      BY <1>5, <2>2, <3>1 DEF IInv, ListingsSound
  <2> QED
    BY <2>1, <2>2
<1>9. LockedIsHeld'
  <2> SUFFICES ASSUME NEW g \in Holder PROVE locked'[g] <= Cardinality(Held(g)')
    BY DEF LockedIsHeld
  <2>1. Held(g)' = Held(g)
    BY <1>1 DEF Held
  <2> QED
    BY <1>1, <2>1 DEF IInv, TypeOK, LockedIsHeld
<1> QED
  BY <1>1, <1>6, <1>7, <1>8, <1>9, EpochKept DEF IInv

LEMMA CloseListingStep ==
    ASSUME IInv, NEW l \in ListingId, listings[l].active, CloseListing(l),
           UNCHANGED <<now, status, position, epochVars, issued>>
    PROVE  IInv'
<1>1. PICK h \in Holder : h = listings[l].seller
  BY OfferedUnits
<1>2. PICK a \in Nat : a = listings[l].amount
  BY OfferedUnits
<1>3. /\ listings'[l] = [listings[l] EXCEPT !.active = FALSE, !.amount = 0]
      /\ \A k \in ListingId : k # l => listings'[k] = listings[k]
      /\ locked' = [locked EXCEPT ![h] = @ - a]
      /\ listings[l] \in Listing
  BY <1>1, <1>2 DEF CloseListing, IInv, TypeOK
<1>4. LocksMatchListings' /\ locked' \in [Holder -> Nat]
  <2>1. /\ listings'[l].seller = h /\ listings'[l].amount = listings[l].amount - a
        /\ (listings'[l].active <=> a < listings[l].amount) /\ a <= listings[l].amount
    <3>1. /\ listings'[l].seller = h /\ listings'[l].amount = 0
          /\ ~listings'[l].active
      BY <1>1, <1>3 DEF Listing
    <3>2. ~(a < listings[l].amount) /\ listings[l].amount - a = 0 /\ a <= listings[l].amount
      BY <1>2
    <3> QED
      BY <1>2, <3>1, <3>2
  <2> QED
    BY <1>1, <1>2, <1>3, <2>1, UnitsLeave
<1>5. TypeOK'
  <2>1. listings' \in [ListingId -> Listing]
    BY <1>3 DEF CloseListing, IInv, TypeOK, Listing
  <2> QED
    BY <1>4, <2>1 DEF IInv, TypeOK, epochVars
<1>6. ListingsSound'
  <2> SUFFICES ASSUME NEW k \in ListingId
               PROVE  /\ listings'[k].amount <= N
                      /\ k > issued => listings'[k] = NoListing
                      /\ k <= issued => listings'[k].seller \in Holder
                      /\ listings'[k].active => listings'[k].amount > 0
                      /\ ~listings'[k].active => listings'[k].amount = 0
    BY DEF ListingsSound, N
  <2>1. CASE k = l
    <3>1. l <= issued /\ l \in Nat /\ issued \in Nat /\ N \in Nat
      BY OfferedUnits, TokensFinite, MarketAssumption DEF IInv, TypeOK, ListingId
    <3>2. /\ listings'[l].amount = 0 /\ listings'[l].seller \in Holder
          /\ ~listings'[l].active
      BY <1>1, <1>3 DEF Listing
    <3> QED
      BY <2>1, <3>1, <3>2
  <2>2. CASE k # l
    BY <1>3, <2>2 DEF IInv, ListingsSound
  <2> QED
    BY <2>1, <2>2
<1>7. LockedIsHeld'
  <2> SUFFICES ASSUME NEW g \in Holder PROVE locked'[g] <= Cardinality(Held(g)')
    BY DEF LockedIsHeld
  <2>1. Held(g)' = Held(g) /\ Cardinality(Held(g)) \in Nat
    BY HeldSizes DEF Held, IInv
  <2>2. locked'[g] <= locked[g] /\ locked'[g] \in Nat /\ locked[g] \in Nat
    BY <1>2, <1>3, <1>4 DEF IInv, TypeOK
  <2> QED
    BY <2>1, <2>2 DEF IInv, LockedIsHeld
<1> QED
  BY <1>4, <1>5, <1>6, <1>7, EpochKept DEF IInv

LEMMA ExtendListingStep ==
    ASSUME IInv, NEW l \in ListingId, NEW duration \in Durations, ExtendListing(l, duration)
    PROVE  IInv'
<1>1. \A k \in ListingId : /\ listings'[k].amount = listings[k].amount
                           /\ listings'[k].seller = listings[k].seller
                           /\ listings'[k].active = listings[k].active
                           /\ k > issued => listings'[k] = listings[k]
  <2>1. l <= issued /\ listings[l] \in Listing /\ l \in Nat /\ issued \in Nat
    BY MarketAssumption DEF ExtendListing, IsListed, IInv, TypeOK, ListingId
  <2>2. listings'[l] = [listings[l] EXCEPT !.expiresAt = @ + duration]
    BY DEF ExtendListing, IInv, TypeOK
  <2>3. \A k \in ListingId : k # l => listings'[k] = listings[k]
    BY DEF ExtendListing, IInv, TypeOK
  <2>4. /\ listings'[l].amount = listings[l].amount
        /\ listings'[l].seller = listings[l].seller
        /\ listings'[l].active = listings[l].active
        /\ ~(l > issued)
    BY <2>1, <2>2 DEF Listing
  <2> QED
    BY <2>3, <2>4
<1>2. TypeOK'
  <2>1. duration \in Nat
    BY MarketAssumption
  <2>2. listings' \in [ListingId -> Listing]
    BY <2>1 DEF ExtendListing, IInv, TypeOK, Listing
  <2> QED
    BY <2>2 DEF ExtendListing, IInv, TypeOK, epochVars
<1>3. ListingsSound'
  BY <1>1 DEF ExtendListing, IInv, ListingsSound, N
<1>4. LocksMatchListings'
  <2>1. \A h : Offered(h)' = Offered(h)
    BY <1>1 DEF Offered
  <2> QED
    BY <2>1 DEF ExtendListing, IInv, LocksMatchListings
<1>5. LockedIsHeld'
  BY <1>2, HeldGrows DEF ExtendListing, Held
<1>6. UNCHANGED <<position, epochVars>>
  BY DEF ExtendListing
<1> QED
  BY <1>2, <1>3, <1>4, <1>5, <1>6, EpochKept DEF IInv

\* What a secondary purchase of the tokens S by `buyer` does.
LEMMA PurchaseFacts ==
    ASSUME IInv, NEW buyer \in Holder, NEW l \in ListingId, NEW S, S \subseteq Token,
           BuyFromSecondaryListing(buyer, l, S),
           NEW h, h = listings[l].seller, NEW n, n = Cardinality(S)
    PROVE  /\ h \in Holder /\ buyer # h /\ listings[l].active
           /\ n \in Nat /\ n > 0 /\ n <= listings[l].amount /\ n <= locked[h]
           /\ S \subseteq Held(h)
           /\ listings'[l].amount = listings[l].amount - n
           /\ listings'[l].sold = listings[l].sold + n
           /\ listings'[l].seller = h
           /\ listings'[l].active <=> n < listings[l].amount
           /\ \A k \in ListingId : k # l => listings'[k] = listings[k]
           /\ listings' \in [ListingId -> Listing]
           /\ locked' = [locked EXCEPT ![h] = @ - n]
           /\ Held(h)' = Held(h) \ S
           /\ Held(buyer)' = Held(buyer) \cup S
           /\ \A g : g # h /\ g # buyer => Held(g)' = Held(g)
           /\ UNCHANGED <<now, status, epochVars, issued>>
<1>1. /\ h \in Holder /\ l <= issued /\ listings[l].active /\ buyer # h
      /\ listings[l].amount \in Nat /\ listings[l].amount <= locked[h]
      /\ locked \in [Holder -> Nat]
  BY OfferedUnits DEF BuyFromSecondaryListing, IInv, TypeOK
<1>2. n \in Nat /\ n > 0 /\ n <= listings[l].amount /\ S \subseteq Held(h)
  BY TokensFinite, FS_EmptySet DEF BuyFromSecondaryListing, Oldest
<1>3. /\ listings[l] \in Listing /\ listings \in [ListingId -> Listing]
      /\ listings' = [listings EXCEPT ![l].amount = @ - n, ![l].sold = @ + n,
                                      ![l].active = n < listings[l].amount]
  BY DEF BuyFromSecondaryListing, IInv, TypeOK
<1>4. listings'[l] = [listings[l] EXCEPT !.amount = @ - n, !.sold = @ + n,
                                         !.active = n < listings[l].amount]
  BY <1>3
<1>5. \A k \in ListingId : k # l => listings'[k] = listings[k]
  BY <1>3
<1>6. /\ listings'[l].amount = listings[l].amount - n
      /\ listings'[l].sold = listings[l].sold + n
      /\ listings'[l].seller = h
      /\ listings'[l].active <=> n < listings[l].amount
  BY <1>3, <1>4 DEF Listing
<1>7. listings' \in [ListingId -> Listing]
  <2>1. listings'[l] \in Listing
    BY <1>1, <1>2, <1>3, <1>4 DEF Listing
  <2> QED
    BY <1>3, <1>5, <2>1
<1>8. /\ Held(h)' = Held(h) \ S /\ Held(buyer)' = Held(buyer) \cup S
      /\ \A g : g # h /\ g # buyer => Held(g)' = Held(g)
  BY <1>1, <1>2 DEF BuyFromSecondaryListing, TransferPositions, Held
<1> QED
  BY <1>1, <1>2, <1>5, <1>6, <1>7, <1>8 DEF BuyFromSecondaryListing

LEMMA BuyFromSecondaryListingStep ==
    ASSUME IInv, NEW buyer \in Holder, NEW l \in ListingId, NEW S, S \subseteq Token,
           BuyFromSecondaryListing(buyer, l, S)
    PROVE  IInv'
<1>1. PICK h : h = listings[l].seller
  OBVIOUS
<1>2. PICK n : n = Cardinality(S)
  OBVIOUS
<1>3. /\ h \in Holder /\ buyer # h /\ listings[l].active
      /\ n \in Nat /\ n > 0 /\ n <= listings[l].amount /\ n <= locked[h]
      /\ S \subseteq Held(h)
  BY <1>1, <1>2, PurchaseFacts
<1>4. /\ listings'[l].amount = listings[l].amount - n
      /\ listings'[l].seller = h
      /\ listings'[l].active <=> n < listings[l].amount
      /\ \A k \in ListingId : k # l => listings'[k] = listings[k]
      /\ listings' \in [ListingId -> Listing]
      /\ locked' = [locked EXCEPT ![h] = @ - n]
  BY <1>1, <1>2, PurchaseFacts
<1>5. /\ Held(h)' = Held(h) \ S
      /\ Held(buyer)' = Held(buyer) \cup S
      /\ \A g : g # h /\ g # buyer => Held(g)' = Held(g)
      /\ UNCHANGED <<now, status, epochVars, issued>>
  BY <1>1, <1>2, PurchaseFacts
<1>6. LocksMatchListings' /\ locked' \in [Holder -> Nat]
  BY <1>1, <1>3, <1>4, UnitsLeave
<1>7. TypeOK'
  BY <1>4, <1>5, <1>6, TransferTyped DEF IInv, TypeOK, BuyFromSecondaryListing, epochVars
<1>8. ListingsSound'
  <2> SUFFICES ASSUME NEW k \in ListingId
               PROVE  /\ listings'[k].amount <= N
                      /\ k > issued => listings'[k] = NoListing
                      /\ k <= issued => listings'[k].seller \in Holder
                      /\ listings'[k].active => listings'[k].amount > 0
                      /\ ~listings'[k].active => listings'[k].amount = 0
    BY <1>5 DEF ListingsSound, N
  <2>1. CASE k = l
    <3>1. /\ l <= issued /\ l \in Nat /\ issued \in Nat /\ N \in Nat
          /\ listings[l].amount \in Nat /\ listings[l].amount <= N
      BY <1>3, OfferedUnits, TokensFinite, MarketAssumption DEF IInv, TypeOK, ListingId
    <3> QED
      BY <1>3, <1>4, <2>1, <3>1
  <2>2. CASE k # l
    BY <1>4, <2>2 DEF IInv, ListingsSound
  <2> QED
    BY <2>1, <2>2
<1>9. LockedIsHeld'
  <2> SUFFICES ASSUME NEW g \in Holder PROVE locked'[g] <= Cardinality(Held(g)')
    BY DEF LockedIsHeld
  <2>1. /\ IsFiniteSet(Held(g)) /\ Cardinality(Held(g)) \in Nat /\ locked[g] \in Nat
        /\ IsFiniteSet(Held(g)') /\ Cardinality(Held(g)') \in Nat
        /\ locked[g] <= Cardinality(Held(g))
    BY HeldSizes, TokensFinite DEF IInv, TypeOK, LockedIsHeld, Held
  <2>2. CASE g = h
    <3>1. Cardinality(Held(h) \ S) = Cardinality(Held(h)) - n
      BY <1>2, <1>3, <2>1, <2>2, Removed
    <3>2. Cardinality(Held(g)') = Cardinality(Held(g)) - n
      BY <1>5, <2>2, <3>1
    <3>3. locked'[g] = locked[g] - n
      BY <1>4, <2>2 DEF IInv, TypeOK
    <3>4. n \in Nat
      BY <1>3
    <3> QED
      BY <2>1, <3>2, <3>3, <3>4
  <2>3. CASE g # h
    <3>1. Held(g) \subseteq Held(g)' /\ locked'[g] = locked[g]
      BY <1>4, <1>5, <2>3 DEF IInv, TypeOK
    <3>2. Cardinality(Held(g)) <= Cardinality(Held(g)')
      BY <2>1, <3>1, FS_Subset
    <3> QED
      BY <2>1, <3>1, <3>2
  <2> QED
    BY <2>2, <2>3
<1>10. EpochSupplyExact' /\ EpochBacked'
  <2>1. S \subseteq Circulating
    BY <1>3, HeldFacts DEF IInv
  <2> QED
    BY <2>1, <1>5, TransferKeepsEpoch DEF BuyFromSecondaryListing
<1> QED
  BY <1>6, <1>7, <1>8, <1>9, <1>10 DEF IInv

LEMMA Inductive == IInv /\ [Next]_vars => IInv'
<1> SUFFICES ASSUME IInv, [Next]_vars PROVE IInv'
  OBVIOUS
<1>1. CASE TokenStep
  BY <1>1, BuyFromPrimaryPoolStep, RedeemPrimaryPoolStep, TransferStep, BurnStep
     DEF TokenStep, BurnRevenueTokens, Oldest, IInv, TypeOK
<1>2. CASE MarketStep
  <2>1. PICK h \in Holder :
            \/ \E n \in 1 .. Cardinality(Token), price \in Prices, duration \in Durations,
                  buyerPaysFee \in FeePayers : CreateListing(h, n, price, duration, buyerPaysFee)
            \/ \E l \in ListingId :
                  \/ \E S \in SUBSET Token : BuyFromSecondaryListing(h, l, S)
                  \/ EndListing(h, l)
    BY <1>2 DEF MarketStep
  <2>2. ASSUME NEW n \in 1 .. Cardinality(Token), NEW price \in Prices,
               NEW duration \in Durations, NEW buyerPaysFee \in FeePayers,
               CreateListing(h, n, price, duration, buyerPaysFee)
        PROVE  IInv'
    <3>1. n \in Nat
      BY TokensFinite DEF N
    <3> QED
      BY <2>2, <3>1, CreateListingStep
  <2>3. ASSUME NEW l \in ListingId, NEW S \in SUBSET Token, BuyFromSecondaryListing(h, l, S)
        PROVE  IInv'
    BY <2>3, BuyFromSecondaryListingStep
  <2>4. ASSUME NEW l \in ListingId, EndListing(h, l)
        PROVE  IInv'
    BY <2>4, CloseListingStep DEF EndListing
  <2> QED
    BY <2>1, <2>2, <2>3, <2>4
<1>3. CASE ListingStep
  BY <1>3, CloseListingStep, ExtendListingStep DEF ListingStep, ExpireListing
<1>4. CASE AssetStep
  <2>1. CASE ReleasePrincipal
    BY <2>1, ReleasePrincipalStep
  <2>2. CASE SettleAsset
    <3>1. TypeOK' /\ UNCHANGED <<position, epochVars, market>>
      BY <2>2 DEF SettleAsset, IInv, TypeOK, Status, epochVars, market
    <3>2. LockedIsHeld'
      BY <3>1, HeldGrows DEF market, Held
    <3> QED
      BY <3>1, <3>2, EpochKept, MarketKept DEF IInv
  <2>3. CASE RetireAssetAndBurnTokens
    <3>1. AssetOwner \in Holder /\ Circulating \subseteq Held(AssetOwner)
      BY <2>3, AccountAssumption DEF RetireAssetAndBurnTokens
    <3> QED
      BY <2>3, <3>1, BurnStep DEF RetireAssetAndBurnTokens, Status
  <2>4. ASSUME NEW h \in Holder, ClaimSettlement(h)
        PROVE  IInv'
    BY <2>4, BurnStep DEF ClaimSettlement, IInv, TypeOK
  <2> QED
    BY <1>4, <2>1, <2>2, <2>3, <2>4 DEF AssetStep
<1>5. CASE Tick \/ UNCHANGED vars
  <2>1. TypeOK' /\ UNCHANGED <<position, epochVars, market>>
    BY <1>5 DEF Tick, IInv, TypeOK, epochVars, market, vars
  <2>2. LockedIsHeld'
    BY <2>1, HeldGrows DEF market, Held
  <2> QED
    BY <2>1, <2>2, EpochKept, MarketKept DEF IInv
<1> QED
  BY <1>1, <1>2, <1>3, <1>4, <1>5 DEF Next

LEMMA AlwaysIInv == Spec => []IInv
BY IInvInit, Inductive, PTL DEF Spec

\* No counter of the market or of the epochs ever leaves the naturals: the
\* unchecked subtractions of locks, listings and supply do not wrap.
THEOREM TypeCorrect == Spec => []TypeOK
<1>1. IInv => TypeOK
  BY DEF IInv
<1> QED
  BY <1>1, AlwaysIInv, PTL

\* The lock of a holder is always what its active listings hold.
THEOREM LocksAlwaysMatch == Spec => []LocksMatchListings
<1>1. IInv => LocksMatchListings
  BY DEF IInv
<1> QED
  BY <1>1, AlwaysIInv, PTL

\* A holder always has the tokens it lists.
THEOREM LockedAlwaysHeld == Spec => []LockedIsHeld
<1>1. IInv => LockedIsHeld
  BY DEF IInv
<1> QED
  BY <1>1, AlwaysIInv, PTL

\* Redemptions are divided over exactly the tokens that may redeem, and what
\* may redeem is backed.
THEOREM EpochAlwaysExact == Spec => []EpochIsExact
<1>1. IInv => EpochIsExact
  BY DEF IInv, EpochIsExact
<1> QED
  BY <1>1, AlwaysIInv, PTL

-----------------------------------------------------------------------------
(* Penalties.                                                                *)

\* Only a purchase sells.
LEMMA OnlyPurchasesSell ==
    ASSUME IInv, [Next]_vars, NEW l \in ListingId, listings'[l].sold # listings[l].sold
    PROVE  \E buyer \in Holder, S \in SUBSET Token : BuyFromSecondaryListing(buyer, l, S)
<1>1. CASE UNCHANGED listings
  BY <1>1
<1>2. ASSUME NEW h \in Holder, NEW n, NEW price, NEW duration, NEW buyerPaysFee,
             CreateListing(h, n, price, duration, buyerPaysFee)
      PROVE  FALSE
  <2>1. issued + 1 > issued
    BY DEF IInv, TypeOK
  <2>2. \A k \in ListingId : k # issued + 1 => listings'[k] = listings[k]
    BY <1>2 DEF CreateListing, IInv, TypeOK
  <2>3. ASSUME l = issued + 1 PROVE listings'[l].sold = listings[l].sold
    <3>1. listings[l].sold = 0
      BY <2>1, <2>3 DEF IInv, ListingsSound, NoListing
    <3>2. listings'[l].sold = 0
      BY <1>2, <2>3 DEF CreateListing, IInv, TypeOK
    <3> QED
      BY <3>1, <3>2
  <2> QED
    BY <2>2, <2>3
<1>3. ASSUME NEW k \in ListingId, CloseListing(k)
      PROVE  FALSE
  BY <1>3 DEF CloseListing, IInv, TypeOK, Listing
<1>4. ASSUME NEW k \in ListingId, NEW duration, ExtendListing(k, duration)
      PROVE  FALSE
  BY <1>4 DEF ExtendListing, IInv, TypeOK, Listing
<1>5. ASSUME NEW buyer \in Holder, NEW k \in ListingId, NEW S \in SUBSET Token,
             BuyFromSecondaryListing(buyer, k, S)
      PROVE  k = l
  BY <1>5, PurchaseFacts
<1>6. CASE TokenStep \/ AssetStep \/ Tick
  <2>1. UNCHANGED listings
    BY <1>6 DEF TokenStep, AssetStep, Tick, BuyFromPrimaryPool, RedeemPrimaryPool, Transfer,
         BurnRevenueTokens, ReleasePrincipal, SettleAsset, RetireAssetAndBurnTokens,
         ClaimSettlement, market
  <2> QED
    BY <1>1, <2>1
<1>7. CASE MarketStep
  BY <1>2, <1>3, <1>5, <1>7 DEF MarketStep, EndListing
<1>8. CASE ListingStep
  BY <1>3, <1>4, <1>8 DEF ListingStep, ExpireListing
<1>9. CASE UNCHANGED vars
  BY <1>1, <1>9 DEF vars, market
<1> QED
  BY <1>6, <1>7, <1>8, <1>9 DEF Next

\* Young tokens leave a queue only after all others.
LEMMA YoungestLast ==
    ASSUME TypeOK, NEW h \in Holder, NEW S, Oldest(S, Held(h))
    PROVE  Monus(Cardinality(S), Cardinality({t \in Held(h) : ~Young(t)}))
               = Cardinality({t \in S : Young(t)})
<1> DEFINE Mature == {t \in Held(h) : ~Young(t)}
           Fresh == {t \in S : Young(t)}
<1>1. /\ S \subseteq Held(h) /\ Held(h) \subseteq Token
      /\ \A t \in S, u \in Held(h) \ S : position[t].acquiredAt <= position[u].acquiredAt
  BY DEF Oldest, Held
<1>2. /\ IsFiniteSet(S) /\ Cardinality(S) \in Nat
      /\ IsFiniteSet(Mature) /\ Cardinality(Mature) \in Nat
  BY <1>1, TokensFinite
<1>3. CASE Fresh = {}
  <2>1. S \subseteq Mature
    BY <1>1, <1>3
  <2>2. Cardinality(S) <= Cardinality(Mature)
    BY <1>2, <2>1, FS_Subset
  <2>3. Cardinality(Fresh) = 0
    BY <1>3, FS_EmptySet
  <2> QED
    BY <1>2, <2>2, <2>3 DEF Monus
<1>4. CASE Fresh # {}
  <2>1. PICK y \in S : Young(y)
    BY <1>4
  <2>2. Mature \subseteq S
    <3> SUFFICES ASSUME NEW u \in Held(h), ~Young(u), u \notin S PROVE FALSE
      OBVIOUS
    <3>1. position[y].acquiredAt <= position[u].acquiredAt
      BY <1>1, <2>1
    <3>2. /\ position[y].acquiredAt \in Nat /\ position[u].acquiredAt \in Nat
          /\ now \in Nat /\ MinHoldingPeriod \in Nat
      BY <1>1, <2>1, MarketAssumption DEF TypeOK, Position
    <3> QED
      BY <2>1, <3>1, <3>2 DEF Young
  <2>3. Fresh = S \ Mature
    BY <1>1
  <2>4. /\ Cardinality(S \ Mature) = Cardinality(S) - Cardinality(Mature)
        /\ Cardinality(Mature) <= Cardinality(S)
    BY <1>2, <2>2, Removed
  <2> QED
    BY <1>2, <2>3, <2>4 DEF Monus
<1> QED
  BY <1>3, <1>4

LEMMA PurchasePenalty ==
    ASSUME IInv, NEW buyer \in Holder, NEW l \in ListingId, NEW S \in SUBSET Token,
           BuyFromSecondaryListing(buyer, l, S), NEW seller, seller = listings[l].seller
    PROVE  SalePenalty(l, SaleOf(l)) =
             IF seller = AssetOwner THEN 0
             ELSE TokenPenalty * Cardinality({t \in {u \in Held(seller) : position'[u].holder # seller} :
                                                  Young(t)})
<1>1. PICK n : n = Cardinality(S)
  OBVIOUS
<1>2. /\ seller \in Holder /\ n \in Nat /\ S \subseteq Held(seller)
      /\ listings'[l].sold = listings[l].sold + n
      /\ Held(seller)' = Held(seller) \ S
  BY <1>1, PurchaseFacts
<1>3. SaleOf(l) = n
  <2>1. listings[l].sold \in Nat
    BY DEF IInv, TypeOK, Listing
  <2> QED
    BY <1>2, <2>1 DEF SaleOf
<1>4. {u \in Held(seller) : position'[u].holder # seller} = S
  BY <1>2 DEF Held
<1>5. Oldest(S, Held(seller))
  BY DEF BuyFromSecondaryListing
<1>6. Monus(n, Cardinality({t \in Held(seller) : ~Young(t)})) = Cardinality({t \in S : Young(t)})
  BY <1>1, <1>2, <1>5, YoungestLast DEF IInv
<1> QED
  BY <1>3, <1>4, <1>6 DEF SalePenalty, SalesPenalty

\* Whatever has been bought, transferred and listed since, the early-sale
\* penalty of a purchase is for the tokens that the purchase moves.
THEOREM PenaltyAlwaysFits == Spec => PenaltyFitsTokensSold
<1>1. IInv /\ [Next]_vars =>
        \A l \in ListingId : SaleOf(l) > 0 =>
            LET seller == listings[l].seller
                gone   == {t \in Held(seller) : position'[t].holder # seller}
            IN  SalePenalty(l, SaleOf(l)) =
                    IF seller = AssetOwner THEN 0
                    ELSE TokenPenalty * Cardinality({t \in gone : Young(t)})
  <2> SUFFICES ASSUME IInv, [Next]_vars, NEW l \in ListingId, SaleOf(l) > 0,
                      NEW seller, seller = listings[l].seller
               PROVE  SalePenalty(l, SaleOf(l)) =
                        IF seller = AssetOwner THEN 0
                        ELSE TokenPenalty * Cardinality(
                                {t \in {u \in Held(seller) : position'[u].holder # seller} : Young(t)})
    OBVIOUS
  <2>1. listings'[l].sold # listings[l].sold
    BY DEF SaleOf, IInv, TypeOK, Listing
  <2> QED
    BY <2>1, OnlyPurchasesSell, PurchasePenalty
<1> QED
  BY <1>1, AlwaysIInv, PTL DEF Spec, PenaltyFitsTokensSold

-----------------------------------------------------------------------------
(* The refinement.                                                           *)

FreeTokens == [h \in Holder |-> Cardinality(Held(h)) - locked[h]]
LotsNow    == [l \in ListingId |-> AsLot(l)]

LEMMA ConsignmentInit == Init => Lots!Init
<1> SUFFICES ASSUME Init PROVE Lots!Init
  OBVIOUS
<1>1. \A h \in Holder : Held(h) = {}
  BY AccountAssumption DEF Init, Held, NoPosition
<1>2. FreeTokens = [h \in Holder |-> 0]
  BY <1>1, FS_EmptySet DEF Init, FreeTokens
<1>3. LotsNow = [l \in ListingId |-> Lots!NoLot]
  BY DEF Init, LotsNow, AsLot, NoListing, Lots!NoLot
<1> QED
  BY <1>2, <1>3 DEF Lots!Init, FreeTokens, LotsNow

LEMMA FreeTyped ==
    ASSUME IInv'
    PROVE  FreeTokens' \in [Holder -> Nat]
<1>1. \A h \in Holder : (Cardinality(Held(h)) - locked[h])' \in Nat
  <2> SUFFICES ASSUME NEW h \in Holder PROVE (Cardinality(Held(h)) - locked[h])' \in Nat
    OBVIOUS
  <2>1. IsFiniteSet(Held(h)') /\ Cardinality(Held(h)') \in Nat
    BY TokensFinite DEF Held
  <2>2. locked'[h] \in Nat /\ locked'[h] <= Cardinality(Held(h)')
    BY DEF IInv, TypeOK, LockedIsHeld
  <2> QED
    BY <2>1, <2>2
<1> QED
  BY <1>1 DEF FreeTokens

\* A step that leaves every lot alone is a trade.
LEMMA TradeStep ==
    ASSUME IInv', \A l \in ListingId : AsLot(l)' = AsLot(l)
    PROVE  Lots!Next
<1>1. LotsNow' = LotsNow
  BY DEF LotsNow
<1>2. Lots!Trade
  BY <1>1, FreeTyped DEF Lots!Trade, LotsNow, FreeTokens
<1> QED
  BY <1>2 DEF Lots!Next

LEMMA ConsignStep ==
    ASSUME IInv, NEW h \in Holder, NEW n \in Nat, NEW price, NEW duration, NEW buyerPaysFee,
           CreateListing(h, n, price, duration, buyerPaysFee)
    PROVE  Lots!Next
<1>1. PICK l \in ListingId : l = issued + 1
  BY MarketAssumption DEF CreateListing, IInv, TypeOK, ListingId
<1>2. /\ IsFiniteSet(Held(h)) /\ Cardinality(Held(h)) \in Nat /\ locked[h] \in Nat
      /\ \A g \in Holder : locked[g] \in Nat /\ Cardinality(Held(g)) \in Nat
  BY HeldSizes DEF IInv, TypeOK
<1>3. n \in 1 .. (Cardinality(Held(h)) - locked[h])
  BY <1>2 DEF CreateListing, Lockable
<1>4. AsLot(l) = Lots!NoLot
  <2>1. l > issued
    BY <1>1 DEF IInv, TypeOK
  <2>2. listings[l] = NoListing
    BY <2>1 DEF IInv, ListingsSound
  <2> QED
    BY <2>2 DEF NoListing, AsLot, Lots!NoLot
<1>5. AsLot(l)' = [seller |-> h, left |-> n, sold |-> 0, open |-> TRUE]
  BY <1>1 DEF CreateListing, AsLot, IInv, TypeOK
<1>6. \A k \in ListingId : k # l => AsLot(k)' = AsLot(k)
  BY <1>1 DEF CreateListing, AsLot, IInv, TypeOK
<1>7. LotsNow' = [LotsNow EXCEPT ![l] = [seller |-> h, left |-> n, sold |-> 0, open |-> TRUE]]
  BY <1>5, <1>6 DEF LotsNow
<1>8. FreeTokens' = [FreeTokens EXCEPT ![h] = @ - n]
  <2>1. \A g \in Holder : Held(g)' = Held(g)
    BY DEF CreateListing, Held
  <2>2. locked' = [locked EXCEPT ![h] = @ + n] /\ locked \in [Holder -> Nat]
    BY DEF CreateListing, IInv, TypeOK
  <2>3. \A g \in Holder : Cardinality(Held(g)') - locked'[g]
            = IF g = h THEN Cardinality(Held(g)) - locked[g] - n ELSE Cardinality(Held(g)) - locked[g]
    BY <1>2, <2>1, <2>2
  <2> QED
    BY <2>3 DEF FreeTokens
<1>9. Lots!Consign(h, l)
  BY <1>3, <1>4, <1>7, <1>8 DEF Lots!Consign, FreeTokens, LotsNow
<1> QED
  BY <1>1, <1>9 DEF Lots!Next

LEMMA SellStep ==
    ASSUME IInv, NEW buyer \in Holder, NEW l \in ListingId, NEW S \in SUBSET Token,
           BuyFromSecondaryListing(buyer, l, S)
    PROVE  Lots!Next
<1>1. PICK n : n = Cardinality(S)
  OBVIOUS
<1>2. PICK h \in Holder : h = listings[l].seller
  BY PurchaseFacts
<1>3. /\ buyer # h /\ listings[l].active
      /\ n \in Nat /\ n > 0 /\ n <= listings[l].amount
      /\ S \subseteq Held(h)
      /\ Held(h)' = Held(h) \ S
      /\ Held(buyer)' = Held(buyer) \cup S
      /\ \A g : g # h /\ g # buyer => Held(g)' = Held(g)
      /\ locked' = [locked EXCEPT ![h] = @ - n]
  BY <1>1, <1>2, PurchaseFacts
<1>4. /\ listings'[l].amount = listings[l].amount - n
      /\ listings'[l].sold = listings[l].sold + n
      /\ listings'[l].seller = h
      /\ listings'[l].active <=> n < listings[l].amount
      /\ \A k \in ListingId : k # l => listings'[k] = listings[k]
      /\ listings \in [ListingId -> Listing] /\ listings' \in [ListingId -> Listing]
  BY <1>1, <1>2, PurchaseFacts DEF IInv, TypeOK
<1>5. AsLot(l)' = [seller |-> h, left |-> AsLot(l).left - n, sold |-> AsLot(l).sold + n,
                   open |-> n < AsLot(l).left]
  <2>1. listings'[l].active = (n < listings[l].amount)
    BY <1>4 DEF Listing
  <2> QED
    BY <1>4, <2>1 DEF AsLot
<1>6. LotsNow' = [LotsNow EXCEPT ![l] = [seller |-> @.seller, left |-> @.left - n,
                                         sold |-> @.sold + n, open |-> n < @.left]]
  <2>1. \A k \in ListingId : k # l => AsLot(k)' = AsLot(k)
    BY <1>4 DEF AsLot
  <2>2. AsLot(l).seller = h
    BY <1>2 DEF AsLot
  <2> QED
    BY <1>5, <2>1, <2>2 DEF LotsNow
<1>7. FreeTokens' = [FreeTokens EXCEPT ![buyer] = @ + n]
  <2>1. /\ \A g \in Holder : locked[g] \in Nat /\ Cardinality(Held(g)) \in Nat /\ IsFiniteSet(Held(g))
        /\ IsFiniteSet(S)
    BY HeldSizes, TokensFinite DEF IInv, TypeOK
  <2>2. Cardinality(Held(h)') = Cardinality(Held(h)) - n
    BY <1>1, <1>3, <2>1, Removed
  <2>3. Cardinality(Held(buyer)') = Cardinality(Held(buyer)) + n
    <3>1. Held(buyer) \cap S = {}
      BY <1>3, HeldFacts DEF IInv
    <3> QED
      BY <1>1, <1>3, <2>1, <3>1, Joined
  <2>4. ASSUME NEW g \in Holder
        PROVE  Cardinality(Held(g)') - locked'[g]
                 = IF g = buyer THEN Cardinality(Held(g)) - locked[g] + n
                   ELSE Cardinality(Held(g)) - locked[g]
    <3>1. locked'[g] = IF g = h THEN locked[g] - n ELSE locked[g]
      BY <1>3 DEF IInv, TypeOK
    <3>2. Cardinality(Held(g)') = IF g = h THEN Cardinality(Held(g)) - n
                                  ELSE IF g = buyer THEN Cardinality(Held(g)) + n
                                  ELSE Cardinality(Held(g))
      BY <1>3, <2>2, <2>3
    <3> QED
      BY <1>3, <2>1, <3>1, <3>2
  <2> QED
    BY <2>4 DEF FreeTokens
<1>8. n \in 1 .. LotsNow[l].left /\ LotsNow[l].open /\ buyer # LotsNow[l].seller
  BY <1>2, <1>3, <1>4 DEF LotsNow, AsLot, Listing
<1>9. Lots!Sell(l, buyer)
  BY <1>6, <1>7, <1>8 DEF Lots!Sell, FreeTokens, LotsNow
<1> QED
  BY <1>9 DEF Lots!Next

LEMMA ReturnStep ==
    ASSUME IInv, NEW l \in ListingId, listings[l].active, CloseListing(l), UNCHANGED position
    PROVE  Lots!Next
<1>1. PICK h \in Holder : h = listings[l].seller
  BY OfferedUnits
<1>2. PICK a \in Nat : a = listings[l].amount
  BY OfferedUnits
<1>3. AsLot(l)' = [seller |-> h, left |-> 0, sold |-> AsLot(l).sold, open |-> FALSE]
  <2>1. listings'[l] = [listings[l] EXCEPT !.active = FALSE, !.amount = 0] /\ listings[l] \in Listing
    BY DEF CloseListing, IInv, TypeOK
  <2> QED
    BY <1>1, <2>1 DEF AsLot, Listing
<1>4. \A k \in ListingId : k # l => AsLot(k)' = AsLot(k)
  BY DEF CloseListing, AsLot, IInv, TypeOK
<1>5. LotsNow' = [LotsNow EXCEPT ![l] = [seller |-> @.seller, left |-> 0,
                                         sold |-> @.sold, open |-> FALSE]]
  <2>1. AsLot(l).seller = h
    BY <1>1 DEF AsLot
  <2> QED
    BY <1>3, <1>4, <2>1 DEF LotsNow
<1>6. FreeTokens' = [FreeTokens EXCEPT ![h] = @ + a]
  <2>1. /\ \A g \in Holder : locked[g] \in Nat /\ Cardinality(Held(g)) \in Nat
        /\ \A g \in Holder : Held(g)' = Held(g)
        /\ locked' = [locked EXCEPT ![h] = @ - a]
    BY <1>1, <1>2, HeldSizes DEF IInv, TypeOK, Held, CloseListing
  <2>2. \A g \in Holder : Cardinality(Held(g)') - locked'[g]
            = IF g = h THEN Cardinality(Held(g)) - locked[g] + a ELSE Cardinality(Held(g)) - locked[g]
    BY <2>1 DEF IInv, TypeOK
  <2> QED
    BY <2>2 DEF FreeTokens
<1>7. LotsNow[l].open /\ LotsNow[l].seller = h /\ LotsNow[l].left = a
  BY <1>1, <1>2 DEF LotsNow, AsLot
<1>8. Lots!Return(l)
  BY <1>5, <1>6, <1>7 DEF Lots!Return, FreeTokens, LotsNow
<1> QED
  BY <1>8 DEF Lots!Next

LEMMA ConsignmentStep == IInv /\ IInv' /\ [Next]_vars => [Lots!Next]_(Lots!market)
<1> SUFFICES ASSUME IInv, IInv', [Next]_vars PROVE Lots!Next
  OBVIOUS
<1>1. CASE UNCHANGED listings
  BY <1>1, TradeStep DEF AsLot
<1>2. CASE TokenStep \/ AssetStep \/ Tick
  <2>1. UNCHANGED listings
    BY <1>2 DEF TokenStep, AssetStep, Tick, BuyFromPrimaryPool, RedeemPrimaryPool, Transfer,
         BurnRevenueTokens, ReleasePrincipal, SettleAsset, RetireAssetAndBurnTokens,
         ClaimSettlement, market
  <2> QED
    BY <1>1, <2>1
<1>3. CASE MarketStep
  <2>1. \A n \in 1 .. Cardinality(Token) : n \in Nat
    BY TokensFinite DEF N
  <2> QED
    BY <1>3, <2>1, ConsignStep, SellStep, ReturnStep DEF MarketStep, EndListing
<1>4. CASE ListingStep
  <2>1. ASSUME NEW l \in ListingId, NEW duration, ExtendListing(l, duration)
        PROVE  Lots!Next
    <3>1. \A k \in ListingId : AsLot(k)' = AsLot(k)
      BY <2>1 DEF ExtendListing, AsLot, IInv, TypeOK, Listing
    <3> QED
      BY <3>1, TradeStep
  <2> QED
    BY <1>4, <2>1, ReturnStep DEF ListingStep, ExpireListing
<1>5. CASE UNCHANGED vars
  BY <1>1, <1>5 DEF vars, market
<1> QED
  BY <1>2, <1>3, <1>4, <1>5 DEF Next

\* The market keeps the promise of the consignment: tokens reach a listing only
\* from the free balance of its seller and leave it only to a buyer or back.
THEOREM MarketImplementsConsignment == Spec => ImplementsConsignment
BY AlwaysIInv, ConsignmentInit, ConsignmentStep, PTL DEF Spec, ImplementsConsignment, Lots!Spec

-----------------------------------------------------------------------------
(* The way to a settlement.                                                  *)

\* A holder whose balance a lock keeps from being burned has an active listing,
\* and the seller may end its listing whatever the clock says.
THEOREM SettlementAlwaysInReach == Spec => []SettlementInReach
<1>1. ASSUME IInv, NEW h \in Holder, ~Unlocked(h, Held(h))
      PROVE  \E l \in OpenListings : listings[l].seller = h /\ IsListed(l) /\ MayEnd(h, l)
  <2>1. Cardinality(Held(h)) \in Nat /\ locked[h] \in Nat
    BY <1>1, HeldSizes DEF IInv, TypeOK
  <2>2. locked[h] # 0
    BY <1>1, <2>1 DEF Unlocked, AvailableAmount
  <2>3. locked[h] = Cardinality(Offered(h))
    BY <1>1 DEF IInv, LocksMatchListings
  <2>4. Offered(h) # {}
    BY <2>2, <2>3, FS_EmptySet
  <2>5. PICK l \in ListingId : listings[l].active /\ listings[l].seller = h
    BY <2>4 DEF Offered
  <2>6. l <= issued
    BY <1>1, <2>5, OfferedUnits
  <2> QED
    BY <2>5, <2>6 DEF OpenListings, IsListed, MayEnd
<1>2. IInv => SettlementInReach
  BY <1>1 DEF SettlementInReach
<1> QED
  BY <1>2, AlwaysIInv, PTL

LEMMA BurnTakesOut ==
    ASSUME TypeOK, NEW S, S \subseteq Token, BurnPositions(S)
    PROVE  Circulating' = Circulating \ S
BY AccountAssumption DEF TypeOK, BurnPositions, NoPosition, Circulating

LEMMA TransferTakesNothingOut ==
    ASSUME TypeOK, NEW h \in Holder, NEW S, S \subseteq Held(h), NEW to \in Holder,
           TransferPositions(S, to)
    PROVE  Circulating' = Circulating
BY AccountAssumption DEF TypeOK, TransferPositions, Held, Circulating

LEMMA CloseLeavesOthers ==
    ASSUME TypeOK, NEW l \in ListingId, CloseListing(l)
    PROVE  OpenListings' = OpenListings \ {l}
BY DEF TypeOK, Listing, CloseListing, OpenListings

LEMMA SettledStep ==
    ASSUME IInv, [Next]_vars, status = "Settled"
    PROVE  /\ status' = "Settled"
           /\ Circulating' \subseteq Circulating /\ OpenListings' \subseteq OpenListings
<1>0. TypeOK /\ ~Operational
  BY DEF IInv, Operational
<1>1. CASE UNCHANGED <<status, position, listings>>
  BY <1>1 DEF Circulating, OpenListings
<1>2. ASSUME NEW S \in SUBSET Token, NEW h \in Holder, NEW to \in Holder, Transfer(h, to, S)
      PROVE  status' = status /\ Circulating' = Circulating /\ OpenListings' = OpenListings
  <2>1. S \subseteq Held(h)
    BY <1>2 DEF Transfer, Oldest
  <2> QED
    BY <1>0, <1>2, <2>1, TransferTakesNothingOut DEF Transfer, market, OpenListings
<1>3. ASSUME NEW S \in SUBSET Token, BurnPositions(S), UNCHANGED <<status, listings>>
      PROVE  status' = status /\ Circulating' \subseteq Circulating /\ OpenListings' = OpenListings
  BY <1>0, <1>3, BurnTakesOut DEF OpenListings
<1>4. ASSUME NEW l \in ListingId, CloseListing(l), UNCHANGED <<status, position>>
      PROVE  status' = status /\ Circulating' = Circulating /\ OpenListings' \subseteq OpenListings
  BY <1>0, <1>4, CloseLeavesOthers DEF Circulating
<1>5. ASSUME NEW l \in ListingId, NEW duration \in Durations, ExtendListing(l, duration)
      PROVE  status' = status /\ Circulating' = Circulating /\ OpenListings' = OpenListings
  BY <1>0, <1>5 DEF ExtendListing, Circulating, OpenListings, TypeOK, Listing
<1>6. CASE TokenStep
  <2>1. PICK S \in SUBSET Token, h \in Holder :
            BurnRevenueTokens(h, S) \/ \E to \in Holder : Transfer(h, to, S)
    BY <1>0, <1>6 DEF TokenStep, BuyFromPrimaryPool, RedeemPrimaryPool
  <2>2. CASE BurnRevenueTokens(h, S)
    BY <1>3, <2>2 DEF BurnRevenueTokens, market
  <2> QED
    BY <1>2, <2>1, <2>2
<1>7. CASE MarketStep \/ ListingStep
  BY <1>0, <1>4, <1>5, <1>7 DEF MarketStep, ListingStep, CreateListing, BuyFromSecondaryListing,
     EndListing, ExpireListing
<1>8. CASE AssetStep
  <2>1. CASE ReleasePrincipal
    BY <1>1, <2>1 DEF ReleasePrincipal, market
  <2>2. ASSUME NEW h \in Holder, ClaimSettlement(h)
        PROVE  BurnPositions(Held(h)) /\ UNCHANGED <<status, listings>> /\ Held(h) \in SUBSET Token
    BY <2>2 DEF ClaimSettlement, market, Held
  <2> QED
    BY <1>0, <1>3, <1>8, <2>1, <2>2 DEF AssetStep, SettleAsset, RetireAssetAndBurnTokens
<1>9. CASE Tick \/ UNCHANGED vars
  BY <1>1, <1>9 DEF Tick, vars, market
<1> QED
  BY <1>6, <1>7, <1>8, <1>9 DEF Next

\* Once the asset is settled, the way to a claim only gets shorter, by at least
\* one listing or one token with every ending and every claim: the bounded number
\* of steps that EverybodyCanClaim needs a persistent holder for.
THEOREM EndAlwaysAdvances == Spec => EndOnlyAdvances
<1>1. ASSUME IInv, NEW h \in Holder, ClaimSettlement(h)
      PROVE  Circulating' = Circulating \ Held(h)
  <2>1. Held(h) \subseteq Token
    BY DEF Held
  <2> QED
    BY <1>1, <2>1, BurnTakesOut DEF IInv, ClaimSettlement
<1>2. ASSUME IInv, NEW h \in Holder, NEW l \in ListingId, EndListing(h, l)
      PROVE  OpenListings' = OpenListings \ {l}
  BY <1>2, CloseLeavesOthers DEF IInv, EndListing
<1>3. IInv /\ [Next]_vars =>
        [status = "Settled" =>
            /\ status' = "Settled"
            /\ Circulating' \subseteq Circulating /\ OpenListings' \subseteq OpenListings
            /\ \A h \in Holder :
                  /\ ClaimSettlement(h) => Circulating' = Circulating \ Held(h)
                  /\ \A l \in ListingId : EndListing(h, l) => OpenListings' = OpenListings \ {l}]_vars
  BY <1>1, <1>2, SettledStep
<1> QED
  BY <1>3, AlwaysIInv, PTL DEF Spec, EndOnlyAdvances

=============================================================================
