----------------------- MODULE MCNotificationSettings -----------------------
(* Instances of NotificationSettings for TLC. *)
EXTENDS NotificationSettings
=============================================================================
