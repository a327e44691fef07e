------------------------------ MODULE Worklist ------------------------------
(***************************************************************************)
(* What operators are shown of the orders in Bridge: the predicates behind *)
(* `centralpay stuck` and the admin bot's /stuck, /waiting and /expired,   *)
(* and the promises the whole path makes.                                  *)
(***************************************************************************)
EXTENDS Bridge

(* Mutant: any recorded resolution hides the order. *)
UnexpectedStatusUnresolved(o) ==
    status[o] \in RESOLVABLE_STATUSES /\ attention[o] = "open"

(* unexpected_status_conditions, with unresolved_attention_condition. *)
UnexpectedStatus(o) ==
    status[o] \in RESOLVABLE_STATUSES /\ attention[o] \in {"open", "superseded"}

OpenReview(o) == status[o] = "manual_review" /\ delivery[o].review # "resolved"

(* The two halves bot_notify_reason divides open reviews into. *)
DeliveryReview(o) == OpenReview(o) /\ delivery[o].reason # "none"

FinancialReview(o) == OpenReview(o) /\ delivery[o].reason = "none"

StalePending(o) == status[o] = "bot_notify_pending" /\ overdue[o]

Unpolled(o) == status[o] = "link_created" /\ ~verified[o]

Exhausted(o) ==
    /\ Unpolled(o)
    /\ recon[o].age # "aged_out"
    /\ recon[o].next = "null"
    /\ recon[o].attempts >= MaxReconcile

WaitingGateway(o) ==
    /\ Unpolled(o)
    /\ recon[o].age # "aged_out"
    /\ recon[o].next # "null" \/ recon[o].attempts < MaxReconcile

Expired(o) == Unpolled(o) /\ recon[o].age = "aged_out"

(* bot_delivery_snapshot and count_other_attention. *)
BotDelivery(o)    == DeliveryReview(o) \/ StalePending(o)
OtherAttention(o) == Exhausted(o) \/ UnexpectedStatus(o) \/ FinancialReview(o)

(* What `centralpay stuck` lists as needing attention, from queries of its own. *)
ReusedAttention(o) == OpenReview(o) \/ StalePending(o)
NeedsAttention(o)  == ReusedAttention(o) \/ Exhausted(o) \/ UnexpectedStatus(o)

Categories(o) == {c \in {"bot_delivery", "other", "waiting", "expired"} :
                    CASE c = "bot_delivery" -> BotDelivery(o)
                      [] c = "other" -> OtherAttention(o)
                      [] c = "waiting" -> WaitingGateway(o)
                      [] c = "expired" -> Expired(o)}

-----------------------------------------------------------------------------
(* The abstract order of this one, as the gateway and the row know it. *)
Money(o) ==
    LET r == receipt[link[o].gid]
    IN  IF r = Unpaid THEN "unpaid"
        ELSE IF r.ref # NoRef /\ r.amount = link[o].payable /\ r.payer = link[o].payer
             THEN "right" ELSE "wrong"

Answer(o) ==
    CASE status[o] = "bot_notify_pending" -> "confirmed"
      [] status[o] = "bot_notify_accepted" -> "closed"
      [] status[o] = "manual_review" -> "referred"
      [] OTHER -> "open"

Handed(o) == \E i \in issued : i.offer.order = o

Lifecycle == INSTANCE OrderLifecycle WITH
                 money   <- [o \in Orders |-> Money(o)],
                 handed  <- [o \in Orders |-> Handed(o)],
                 answer  <- [o \in Orders |-> Answer(o)],
                 credits <- [o \in Orders |-> bot[o].effects]

(* Delivery alone sees an order from its link on. *)
SeenStatus == [o \in Orders |-> IF Answer(o) = "open" THEN "link_created" ELSE status[o]]

Delivered == INSTANCE Notification WITH Payments <- Orders, status <- SeenStatus

-----------------------------------------------------------------------------
(* Properties. *)

(* Every order is where some operator view shows it, in exactly one of     *)
(* them, unless it is delivered, was closed by an operator, or is younger  *)
(* than the view's grace period; and the views tell money trouble from     *)
(* delivery trouble truthfully (count_other_attention's partition claim),  *)
(* and the command line agrees with the admin bot.                         *)
Unfinished(o) ==
    \/ status[o] \in RESOLVABLE_STATUSES /\ attention[o] \notin {"grace", "resolved"}
    \/ status[o] = "link_created"
    \/ StalePending(o)
    \/ OpenReview(o)

WorklistComplete ==
    \A o \in Orders :
        /\ Cardinality(Categories(o)) = IF Unfinished(o) THEN 1 ELSE 0
        /\ NeedsAttention(o) <=> Categories(o) \cap {"bot_delivery", "other"} # {}
        /\ BotDelivery(o) => Money(o) = "right" /\ verified[o]
        /\ FinancialReview(o) => ~verified[o]

(* An operator can close an order as abandoned only if the bot was never   *)
(* given a link for it; and should CentralPay hold the link of the failed  *)
(* attempt all the same, it is still the row's own link, price and payer   *)
(* included, and its callback is still accepted, through retries, crashes  *)
(* and reopenings (the safety net that "MUST keep working").               *)
ClosedCanStillSettle ==
    \A o \in Orders :
        status[o] \in RESOLVABLE_STATUSES /\ attention[o] = "resolved" =>
            /\ ~Handed(o)
            /\ \A l \in offers : l.order = o /\ l.token = link[o].token =>
                   l = LinkOffer(o, link[o]) /\ CallbackAccepted(o)

(* From the first request to the bot's answer, the bridge does what        *)
(* OrderLifecycle promises: only the right payment is confirmed, only a    *)
(* confirmed order is credited, once, decisions are final, and what is     *)
(* paid on a link the bot was given is never lost sight of.                *)
ImplementsLifecycle == Lifecycle!Spec

(* Composed with link creation, settlement and attention, delivery still   *)
(* behaves as Notification says, so everything proved of Notification      *)
(* holds of the bridge.                                                    *)
ImplementsNotification == Delivered!Spec

(* A paid order is answered: credited and accepted, or in the hands of an  *)
(* administrator, or visibly out of reconciliation's reach, whatever       *)
(* callbacks are lost and whichever process dies.                          *)
PaidIsAnswered ==
    \A o \in Orders :
        Paid(o) ~> \/ status[o] \in {"bot_notify_accepted", "manual_review"}
                   \/ status[o] = "link_created" /\ OutOfReach(o)

=============================================================================
