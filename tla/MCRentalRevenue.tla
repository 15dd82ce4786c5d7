--------------------------- MODULE MCRentalRevenue ---------------------------
(* Values for model checking RentalRevenue: one booking that is paid twice,   *)
(* the second time by a payment that is recorded late.                       *)
EXTENDS RentalRevenue

CONSTANTS r1, r2, b1, e1, e2, e3

PaidBooking   == <<b1, b1>>
Captured      == <<2, 1>>
BookingEntry  == [e \in Entry |-> b1]
NamedIntent   == [e \in Entry |-> IF e = e2 THEN NoIntent ELSE 2]
PostingPeriod == [e \in Entry |-> IF e = e1 THEN 1 ELSE 2]
=============================================================================
