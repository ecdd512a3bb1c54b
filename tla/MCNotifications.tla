-------------------------- MODULE MCNotifications --------------------------
(* Instances of Notifications for TLC.                                     *)
EXTENDS Notifications, TLC
SmsThenEmail == <<"sms", "email">>
Symmetry == Permutations(Calls) \cup Permutations(Users)
=============================================================================
