---------------------------- MODULE MCAuthTokens ----------------------------
(* Instances of AuthTokens for TLC. *)
EXTENDS AuthTokens, TLC

\* Requests, users and passwords are interchangeable.
MCSymmetry == Permutations(Requests) \cup Permutations(Users) \cup Permutations(Passwords)
=============================================================================
