-------------------------- MODULE MCRentalBookings --------------------------
(* Values for model checking RentalBookings.  Bookings whose dates overlap   *)
(* pairwise are interchangeable, and so are the requests.                    *)
EXTENDS RentalBookings, TLC

Every == Bookings \X Bookings
None  == {}
Symmetry == Permutations(Bookings) \cup Permutations(Requests)
=============================================================================
