----------------------------- MODULE MCTreasury -----------------------------
(* Values for model checking Treasury: half quarters as the unit of time,    *)
(* whole USDC as the unit of money.                                          *)
EXTENDS Treasury

AnyPolicy == [immediateProceeds : BOOLEAN, protectionEnabled : BOOLEAN]
ImmediateProtected == {[immediateProceeds |-> TRUE, protectionEnabled |-> TRUE]}
BothWays  == {<<"partner", "investor">>, <<"investor", "partner">>}
=============================================================================
