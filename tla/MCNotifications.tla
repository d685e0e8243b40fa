-------------------------- MODULE MCNotifications --------------------------
(* Instances of Notifications for TLC. *)
EXTENDS Notifications, TLC

\* Requests are interchangeable; so are the users the creator is not.
MCSymmetry == Permutations(Requests) \cup Permutations(Users \ {Admin})
=============================================================================
