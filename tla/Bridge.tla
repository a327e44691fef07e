------------------------------- MODULE Bridge -------------------------------
(***************************************************************************)
(* The whole path of an order: the money path (Settlement) and delivery to *)
(* the customer's bot (Notification) on one payments table, with the       *)
(* operators' resolution of abandoned orders (app/services/attention.py).  *)
(*                                                                         *)
(* Delivery works only on rows the money path has finished with, so the    *)
(* row locks both take never meet; resolving attention takes the lock that *)
(* create_payment holds across getLink, and waits for it.                  *)
(***************************************************************************)
EXTENDS Settlement

CONSTANTS
    Workers,       \* notification worker processes
    RetryMode,     \* BOT_NOTIFY_RETRY_MODE
    MaxAttempts,   \* BOT_NOTIFY_MAX_ATTEMPTS
    MaxResends     \* bound: operator requeues per payment

ASSUME DeliveryAssumption ==
    /\ RetryMode \in {"safe", "idempotent"}
    /\ MaxAttempts \in Nat \ {0} /\ MaxResends \in Nat
    /\ NoOne \notin Workers

VARIABLES
    delivery,   \* the notification and review columns
    worker,     \* each worker's claim in progress
    bot,        \* what the customer's bot may have done with each order
    resends,    \* history: operator requeues of each payment
    attention,  \* the attention columns against the order's age and event trail
    overdue     \* the notification has been pending for over 30 minutes

deliveryVars == <<delivery, worker, bot, resends>>
worklistVars == <<attention, overdue>>
bridgeVars   == <<ledgerVars, deliveryVars, worklistVars>>

D == INSTANCE Notification WITH Payments <- Orders

(* A row without a link is within UNEXPECTED_STATE_GRACE_SECONDS of its    *)
(* creation, past it, resolved by an operator, or failed again after that. *)
(* The event ids that tell the last two apart are drawn under the row lock.*)
Attention == {"grace", "open", "resolved", "superseded"}

-----------------------------------------------------------------------------
(* The settlement commit also writes the notification columns. *)
EntersDelivery(o) == status[o] # "bot_notify_pending" /\ status'[o] = "bot_notify_pending"

(* centralpay_getlink_failed is recorded with every failed attempt. *)
LinkFails(o) == status'[o] = "getlink_failed" /\ link'[o].token # link[o].token

MoneyStep ==
    /\ Next
    /\ delivery' = [o \in Orders |->
                      IF EntersDelivery(o) THEN D!QueuedState(delivery[o]) ELSE delivery[o]]
    /\ attention' = [o \in Orders |->
                       IF LinkFails(o) /\ attention[o] = "resolved"
                       THEN "superseded" ELSE attention[o]]
    /\ UNCHANGED <<worker, bot, resends, overdue>>

(* Leaving the pending state ends its period; a requeue starts another. *)
DeliveryStep ==
    /\ D!DeliveryStep
    /\ overdue' = [o \in Orders |-> overdue[o] /\ status'[o] = "bot_notify_pending"]
    /\ UNCHANGED <<link, reference, recon, lock, ctx, drawVars, gatewayVars, attention>>

(* Statuses nothing revisits on its own. *)
RESOLVABLE_STATUSES == {"created", "getlink_failed"}

(* attention.refuse_reason. *)
AttentionResolvable(o) ==
    /\ attention[o] # "resolved"
    /\ attention[o] # "grace"
    /\ ~verified[o]
    /\ reference[o] = NoRef
    /\ status[o] # "manual_review"
    /\ delivery[o].attempts = 0
    /\ link[o].url = 0
    /\ status[o] \in RESOLVABLE_STATUSES

(* resolve_attention: status and money columns stay as they are. *)
ResolveAttention(o) ==
    /\ Free(o)
    /\ AttentionResolvable(o)
    /\ attention' = [attention EXCEPT ![o] = "resolved"]
    /\ UNCHANGED <<ledgerVars, deliveryVars, overdue>>

(* Observed only while the order has no link. *)
GraceEnds(o) ==
    /\ status[o] \in RESOLVABLE_STATUSES
    /\ attention[o] = "grace"
    /\ attention' = [attention EXCEPT ![o] = "open"]
    /\ UNCHANGED <<ledgerVars, deliveryVars, overdue>>

PendingTooLong(o) ==
    /\ status[o] = "bot_notify_pending"
    /\ ~overdue[o]
    /\ overdue' = [overdue EXCEPT ![o] = TRUE]
    /\ UNCHANGED <<ledgerVars, deliveryVars, attention>>

-----------------------------------------------------------------------------
BridgeInit ==
    /\ Init
    /\ delivery = [o \in Orders |->
                     [reason |-> "none", attempts |-> 0, claim |-> "none",
                      by |-> NoOne, retry |-> "null", review |-> "open"]]
    /\ worker = [w \in Workers |-> D!IdleWorker]
    /\ bot = [o \in Orders |-> [effects |-> 0, acked |-> FALSE, told |-> FALSE]]
    /\ resends = [o \in Orders |-> 0]
    /\ attention = [o \in Orders |-> "grace"]
    /\ overdue = [o \in Orders |-> FALSE]

BridgeNext ==
    \/ MoneyStep
    \/ DeliveryStep
    \/ \E o \in Orders : ResolveAttention(o) \/ GraceEnds(o) \/ PendingTooLong(o)

BridgeSpec == BridgeInit /\ [][BridgeNext]_bridgeVars

(* The fairness of the two components, and nothing new. *)
FairBridgeSpec == BridgeSpec /\ Fairness /\ D!Fairness

=============================================================================
