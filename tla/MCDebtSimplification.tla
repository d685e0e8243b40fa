------------------------ MODULE MCDebtSimplification ------------------------
(* Instances of DebtSimplification for TLC. *)
EXTENDS DebtSimplification

MCUsers == 1..5

\* Up to three cents either way: ties between debts, between credits and between
\* a debt and a credit, and sums that do not cancel out.
MCNets == {-30, -20, -10, 0, 10, 20, 30}

\* Three debts of 3, 2 and 2 cents, two credits of 4 and 3.
MCFewNets == {-40, -30, 20, 30}
=============================================================================
