-------------------------- MODULE MCNotifications --------------------------
(* Notifications on small instances; the .cfg files give the constants.    *)
EXTENDS Notifications

(* Somebody who sends and somebody who marks as read. *)
TwoSubjects == {"message.sent", "notification.read"}
=============================================================================
