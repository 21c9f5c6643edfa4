------------------------ MODULE MCNotificationOutbox ------------------------
(* Model values for checking NotificationOutbox with TLC.  Liveness is     *)
(* checked too, so that workers are not made symmetric.                    *)
EXTENDS NotificationOutbox
=============================================================================
