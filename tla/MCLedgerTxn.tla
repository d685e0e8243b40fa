---------------------------- MODULE MCLedgerTxn ----------------------------
(* Instances of LedgerTxn for TLC. *)
EXTENDS LedgerTxn, TLC

\* Requests are interchangeable; so are the users the creator is not.
MCSymmetry == Permutations(Requests) \cup Permutations(Users \ {Admin})
=============================================================================
