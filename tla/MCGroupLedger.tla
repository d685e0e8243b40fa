--------------------------- MODULE MCGroupLedger ---------------------------
(* Instances of GroupLedger and of the reports on it for TLC. *)
EXTENDS Analytics, TLC

\* Users and expense ids are interchangeable; groups are too.
MCSymmetry == Permutations(Users) \cup Permutations(ExpenseIds) \cup Permutations(Groups)
=============================================================================
