-------------------------- MODULE MCSplitStrategies --------------------------
(* An instance of SplitStrategies for TLC. *)
EXTENDS SplitStrategies

\* Every total up to 6 cents, in mills: fewer cents than participants, ties,
\* totals that do not divide, fractions of a cent.
MCTotals == 1..60

\* Pairs, triples and quadruples of these add up to 100, and most do not.
MCPercentages == {1, 33, 34, 49, 50, 99, 100}
=============================================================================
