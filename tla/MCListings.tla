------------------------------ MODULE MCListings ------------------------------
(* Values for model checking Listings.                                       *)
EXTENDS Listings

CONSTANTS t1, t2, partner, alice
=============================================================================
