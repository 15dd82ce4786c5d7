---------------------------- MODULE EarningsLedger ----------------------------
(* What EarningsManager promises the investors of an asset.  A share is what *)
(* one revenue token earned in one distribution period.  A distribution      *)
(* makes each share of its period due to at most one investor, and whatever  *)
(* is paid to an investor was due to that investor and not paid before.      *)
EXTENDS Integers

CONSTANTS Token, Investor, MaxPeriod

Share == Token \X (1 .. MaxPeriod)

VARIABLES
    period,     \* distributions so far
    due,        \* due[h]: the shares investor h has earned and was not paid
    paid        \* paid[h]: the shares h was paid

ledger == <<period, due, paid>>

Init ==
    /\ period = 0
    /\ due = [h \in Investor |-> {}]
    /\ paid = [h \in Investor |-> {}]

\* A distribution: every token earns a share of the new period, for one
\* investor at most.
Distribute ==
    /\ period < MaxPeriod
    /\ period' = period + 1
    /\ \E held \in [Investor -> SUBSET Token] :
          /\ \A g, h \in Investor : g # h => held[g] \cap held[h] = {}
          /\ due' = [h \in Investor |-> due[h] \cup (held[h] \X {period + 1})]
    /\ UNCHANGED paid

\* An investor is paid some of what is due to it.
Pay(h) ==
    /\ \E shares \in SUBSET due[h] :
          /\ due' = [due EXCEPT ![h] = @ \ shares]
          /\ paid' = [paid EXCEPT ![h] = @ \cup shares]
    /\ UNCHANGED period

Next == Distribute \/ \E h \in Investor : Pay(h)

Spec == Init /\ [][Next]_ledger
=============================================================================
