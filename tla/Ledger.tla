------------------------------- MODULE Ledger -------------------------------
(***************************************************************************)
(* The payments table as the money path sees it, the row locks taken with  *)
(* SELECT ... FOR UPDATE, the transactions in progress, and the CentralPay *)
(* gateway.                                                                *)
(*                                                                         *)
(* A transaction lives in ctx[x]: what it has decided but not committed is *)
(* there and not in the row, so a crash loses exactly that.  lock[o] is    *)
(* held across the gateway call, as in the code.                           *)
(***************************************************************************)
EXTENDS Models, Fees, FiniteSets

CONSTANTS
    Orders,        \* bot_order_id
    Users,         \* Telegram user ids
    Amounts,       \* requested invoice amounts
    Rates,         \* fee rates, in basis points
    MaxPayable,    \* MAX_PAYMENT_AMOUNT_TOMAN
    OldPayers,     \* identities a row carried over from earlier releases may have
    Handlers,      \* concurrent API requests, callbacks and operator commands
    Reconcilers,   \* reconciliation threads
    MaxReconcile,  \* RECONCILIATION_MAX_ATTEMPTS
    Refs,          \* gateway reference ids
    NoRef,         \* no reference id
    NoOne,         \* SQL NULL, or nobody
    MaxIds,        \* bound: gateway order ids drawn
    MaxTokens      \* bound: link-creation attempts

Procs == Handlers \cup Reconcilers

ASSUME AmountsAssumption == Amounts \subseteq Nat \ {0} /\ Rates \subseteq 0..10000
ASSUME BoundsAssumption ==
    MaxReconcile \in Nat \ {0} /\ MaxIds \in Nat \ {0} /\ MaxTokens \in Nat /\ MaxPayable \in Nat
ASSUME NamesAssumption ==
    /\ NoOne \notin Procs /\ NoOne \notin Orders
    /\ NoRef \notin Refs
    /\ Handlers \cap Reconcilers = {}
    /\ Users \cap Orders = {}
    /\ Users \cap {"order", "shared"} = {}

VARIABLES
    status,     \* payments.status
    verified,   \* payments.gateway_verified_at IS NOT NULL
    link,       \* amount, payer and link columns
    reference,  \* payments.reference_id
    recon,      \* reconciliation columns and the age of the link
    lock,       \* holder of each row lock
    ctx,        \* transaction or request in progress at each process
    rate,       \* effective fee policy
    ids,        \* gateway order ids drawn so far
    tokens,     \* callback tokens minted so far
    known,      \* identity keys with a centralpay_payer_identities row
    offers,     \* gateway: links registered
    issued,     \* history: links returned to the bot, and to whom
    receipt     \* gateway: what was paid under each gateway order id

rowVars     == <<status, verified, link, reference, recon>>
drawVars    == <<rate, ids, tokens, known>>
gatewayVars == <<offers, issued, receipt>>
ledgerVars  == <<status, verified, link, reference, recon, lock, ctx,
                 rate, ids, tokens, known, offers, issued, receipt>>

-----------------------------------------------------------------------------
(* A payer identity is the Telegram user, the order itself when no user is *)
(* known, or the shared or untyped identity of an old row; `retired` marks *)
(* one derived by the retired scheme.  gateway_user_id is a function of it.*)
Keys   == Users \cup {"order"}
Payers == [key : Keys \cup {"shared"}, retired : BOOLEAN]

(* The key of the mapping row of a request's identity. *)
IdentityKey(o, key) == IF key = "order" THEN o ELSE key

CurrentPayer(key) == [key |-> key, retired |-> FALSE]

(* A payer the gateway may report that no row ever has. *)
Stranger == [key |-> "shared", retired |-> TRUE]

(* Gateway order ids are drawn at random from 10^12 and never drawn twice; *)
(* 0 is the id of a row that does not exist yet.                           *)
GatewayIds == 0..MaxIds

(* Migrations 0007 to 0009 leave the shared identity or retired-scheme     *)
(* ones; an identity of the current scheme has a mapping row.              *)
ASSUME OldPayersAssumption ==
    OldPayers \subseteq {[key |-> "shared", retired |-> FALSE]}
                         \cup [key : Keys, retired : {TRUE}]

Link == [amount  : Nat,      \* amount
         payable : Nat,      \* payable_amount
         payer   : Payers,   \* payer identity and gateway_user_id snapshot
         gid     : GatewayIds, \* gateway_order_id
         token   : Nat,      \* callback_token_hash, 0 for NULL
         url     : Nat]      \* redirect_url, by the token it returns to, 0 for NULL

BlankLink == [amount |-> 0, payable |-> 0, payer |-> Stranger,
              gid |-> 0, token |-> 0, url |-> 0]

Offer == [order : Orders, gid : GatewayIds, token : Nat, amount : Nat, payer : Payers]

Receipt == [ref : Refs \cup {NoRef}, amount : Nat, payer : Payers]

Unpaid == [ref |-> NoRef, amount |-> 0, payer |-> Stranger]

Errors == {"none", "gateway_not_paid", "transport", "internal"}

Recon == [attempts : Nat,
          claimed  : Reconcilers \cup {NoOne},
          next     : {"null", "due", "later"},
          error    : Errors,
          age      : {"young", "active", "expiring", "aged_out"}]

Context == [pc      : {"idle", "replay", "create", "getlink", "verify", "settle", "finalize", "inspect"},
            order   : Orders \cup {NoOne},
            key     : Keys,
            amount  : Nat,
            retired : BOOLEAN,
            exempt  : BOOLEAN,    \* admitted without rate limiting
            draft   : Link,
            attempt : Nat,
            ref     : Refs \cup {NoRef},
            error   : Errors,
            outcome : {"none", "verified", "under_review",
                       "gateway_not_paid", "transport", "internal"}]

Idle == [pc |-> "idle", order |-> NoOne, key |-> "order", amount |-> 0,
         retired |-> FALSE, exempt |-> FALSE, draft |-> BlankLink, attempt |-> 0,
         ref |-> NoRef, error |-> "none", outcome |-> "none"]

TypeOK ==
    /\ status \in [Orders -> PaymentStatus]
    /\ verified \in [Orders -> BOOLEAN]
    /\ link \in [Orders -> Link]
    /\ reference \in [Orders -> Refs \cup {NoRef}]
    /\ recon \in [Orders -> Recon]
    /\ lock \in [Orders -> Procs \cup {NoOne}]
    /\ ctx \in [Procs -> Context]
    /\ \A x \in Procs : ctx[x].pc # "idle" => ctx[x].order \in Orders
    /\ rate \in Rates
    /\ ids \in GatewayIds
    /\ tokens \in Nat
    /\ known \subseteq Users \cup Orders
    /\ offers \subseteq Offer
    /\ issued \subseteq [offer : Offer, to : Keys]
    /\ receipt \in [GatewayIds -> Receipt]

-----------------------------------------------------------------------------
Free(o) == lock[o] = NoOne

Acquire(o, x) == lock' = [lock EXCEPT ![o] = x]

(* Commit or rollback: whatever x holds is released. *)
Release(x) == lock' = [o \in Orders |-> IF lock[o] = x THEN NoOne ELSE lock[o]]

Become(x, c) == ctx' = [ctx EXCEPT ![x] = c]

Settled(o) == verified[o] \/ status[o] \in VERIFIED_STATUSES

(* Mutant: the amount sent to the gateway follows the current fee. *)
LinkOfferRepriced(o, l) == [order |-> o, gid |-> l.gid, token |-> l.token,
                            amount |-> Payable(l.amount, rate), payer |-> l.payer]

LinkOffer(o, l) == [order |-> o, gid |-> l.gid, token |-> l.token,
                    amount |-> l.payable, payer |-> l.payer]

=============================================================================
