----------------------------- MODULE Consignment -----------------------------
(* What the secondary market promises to whoever lists tokens: a lot takes    *)
(* tokens from the free balance of its seller, they leave it only to a buyer  *)
(* or back to the seller, and nothing else touches them.                     *)
EXTENDS Integers

CONSTANTS Holder, Nobody, Lot

VARIABLES
    free,   \* the tokens a holder may dispose of
    lots    \* what each lot still holds and has sold, and for whom

market == <<free, lots>>

NoLot == [seller |-> Nobody, left |-> 0, sold |-> 0, open |-> FALSE]

Init ==
    /\ free = [h \in Holder |-> 0]
    /\ lots = [l \in Lot |-> NoLot]

\* Holders buy, transfer, redeem and burn free tokens.
Trade ==
    /\ free' \in [Holder -> Nat]
    /\ UNCHANGED lots

Consign(h, l) == \E n \in 1 .. free[h] :
    /\ lots[l] = NoLot
    /\ free' = [free EXCEPT ![h] = @ - n]
    /\ lots' = [lots EXCEPT ![l] = [seller |-> h, left |-> n, sold |-> 0, open |-> TRUE]]

Sell(l, buyer) == \E n \in 1 .. lots[l].left :
    /\ lots[l].open /\ buyer # lots[l].seller
    /\ free' = [free EXCEPT ![buyer] = @ + n]
    /\ lots' = [lots EXCEPT ![l] = [seller |-> @.seller, left |-> @.left - n,
                                    sold |-> @.sold + n, open |-> n < @.left]]

Return(l) ==
    /\ lots[l].open
    /\ free' = [free EXCEPT ![lots[l].seller] = @ + lots[l].left]
    /\ lots' = [lots EXCEPT ![l] = [seller |-> @.seller, left |-> 0,
                                    sold |-> @.sold, open |-> FALSE]]

Next ==
    \/ Trade
    \/ \E l \in Lot, h \in Holder : Consign(h, l) \/ Sell(l, h)
    \/ \E l \in Lot : Return(l)

Spec == Init /\ [][Next]_market
=============================================================================
