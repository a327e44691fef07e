--------------------------- MODULE OrderLifecycle ---------------------------
(***************************************************************************)
(* What the bridge promises about one order, whoever carries it out: what  *)
(* was paid for it, what the bridge has decided about it, and how often    *)
(* the customer's bot may have credited it.  Bridge is shown to implement  *)
(* this specification when BOT_NOTIFY_RETRY_MODE is "safe".                *)
(***************************************************************************)
EXTENDS Naturals

CONSTANT Orders

VARIABLES
    money,    \* what the gateway received for the order, as the bridge will look it up
    handed,   \* the bot has been given a payment link
    answer,   \* the bridge's decision
    credits   \* times the bot may have credited the order

lifecycle == <<money, handed, answer, credits>>

Init ==
    /\ money = [o \in Orders |-> "unpaid"]
    /\ handed \in [Orders -> BOOLEAN]
    /\ answer = [o \in Orders |-> "open"]
    /\ credits = [o \in Orders |-> 0]

(* The payer pays once, rightly or wrongly, while the order is open. *)
Pay(o, what) ==
    /\ money[o] = "unpaid"
    /\ answer[o] = "open"
    /\ money' = [money EXCEPT ![o] = what]
    /\ UNCHANGED <<handed, answer, credits>>

(* An attempt to create the link ends.  Until the bot has been given one,  *)
(* an attempt may change the id or the payer the payment is looked up by:  *)
(* money paid on the half-registered link of an earlier attempt may then   *)
(* count as wrong, as right, or not at all, but none appears.  Once a link *)
(* is handed out, this never happens again.                                *)
Relink(o, what) ==
    /\ ~handed[o]
    /\ answer[o] = "open"
    /\ money[o] = "unpaid" => what = "unpaid"
    /\ money' = [money EXCEPT ![o] = what]
    /\ handed' \in {handed, [handed EXCEPT ![o] = TRUE]}
    /\ UNCHANGED <<answer, credits>>

(* Only the right payment is ever confirmed. *)
Confirm(o) ==
    /\ answer[o] = "open"
    /\ money[o] = "right"
    /\ answer' = [answer EXCEPT ![o] = "confirmed"]
    /\ UNCHANGED <<money, handed, credits>>

(* Handed to an administrator: a doubtful payment, or confirmed ones whose *)
(* delivery is in doubt, which stale-claim recovery refers all at once.    *)
(* No way leads back.                                                      *)
Refer(S) ==
    /\ \A o \in S : answer[o] \in {"open", "confirmed"} /\ money[o] # "unpaid"
    /\ answer' = [o \in Orders |-> IF o \in S THEN "referred" ELSE answer[o]]
    /\ UNCHANGED <<money, handed, credits>>

(* The one credit.  A request that is on its way when the order is closed  *)
(* by an operator, or referred because its worker stalled, may still land. *)
Credit(o) ==
    /\ money[o] = "right"
    /\ answer[o] # "open"
    /\ credits[o] = 0
    /\ credits' = [credits EXCEPT ![o] = 1]
    /\ UNCHANGED <<money, handed, answer>>

Close(o) ==
    /\ answer[o] = "confirmed"
    /\ answer' = [answer EXCEPT ![o] = "closed"]
    /\ UNCHANGED <<money, handed, credits>>

Next ==
    \/ \E o \in Orders :
          \/ \E what \in {"right", "wrong"} : Pay(o, what)
          \/ \E what \in {"unpaid", "right", "wrong"} : Relink(o, what)
          \/ Confirm(o)
          \/ Credit(o)
          \/ Close(o)
    \/ \E S \in SUBSET Orders : Refer(S)

Spec == Init /\ [][Next]_lifecycle

=============================================================================
