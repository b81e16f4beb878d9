--------------------------- MODULE MCNotifications ----------------------------
(* Instances of Notifications for TLC.                                     *)
EXTENDS Notifications

OneSender == {"s1"}

===============================================================================
