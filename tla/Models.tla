------------------------------- MODULE Models -------------------------------
(***************************************************************************)
(* The payment table's vocabulary, shared by every component.              *)
(*                                                                         *)
(* One `payments` row exists per bot order.  Its columns are split over    *)
(* the modules that own them; `status` and `verified` (the column          *)
(* gateway_verified_at, reduced to "is it set") are the two every          *)
(* component reads.  "absent" is the order without a row.  The enum's      *)
(* `gateway_verified` member is never stored by the code: verification     *)
(* and queueing commit together, so it is left out.                        *)
(***************************************************************************)

PaymentStatus == {"absent", "created", "getlink_failed", "link_created",
                  "bot_notify_pending", "bot_notify_accepted", "manual_review"}

(* Statuses that mean gateway verification has succeeded. *)
VERIFIED_STATUSES == {"bot_notify_pending", "bot_notify_accepted"}

(* Statuses that mean a CentralPay link was issued for the row. *)
LINKED_STATUSES == {"link_created", "bot_notify_pending",
                    "bot_notify_accepted", "manual_review"}

=============================================================================
