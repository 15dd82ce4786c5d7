-------------------------- MODULE MCEarningsManager --------------------------
(* Values for model checking EarningsManager.                                *)
EXTENDS EarningsManager, TLC

CONSTANTS t1, t2, partner, alice, bob

Interchangeable == Permutations(Token)
=============================================================================
