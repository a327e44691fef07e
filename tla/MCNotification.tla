--------------------------- MODULE MCNotification ---------------------------
(***************************************************************************)
(* Notification on small instances.                                        *)
(***************************************************************************)
EXTENDS Notification, TLC

CONSTANTS p1, p2, w1, w2

=============================================================================
