----------------------------- MODULE Settlement -----------------------------
(***************************************************************************)
(* The money path composed: link creation, callbacks, reconciliation and   *)
(* recovery on one payments table, against a gateway whose payer pays,     *)
(* perhaps wrongly, any link it has registered.                            *)
(***************************************************************************)
EXTENDS LinkCreation, Reconciliation, Inspection

CONSTANT Faults   \* bound: what a receipt may get wrong, of "amount", "payer", "reference"

(* The payer pays a link, possibly one whose getLink timed out or died, so *)
(* that the bot was never given it ("somehow reached it", attention.py).    *)
(* The receipt the gateway keeps is the right one, or carries another      *)
(* amount, another payer, no reference id, or a reference id it also gave  *)
(* to another payment.                                                     *)
Pay(l) ==
    /\ l \in offers
    /\ receipt[l.gid] = Unpaid
    /\ \E ref \in Refs \cup {NoRef},
          amount \in {l.amount, l.amount + 1},
          payer \in {l.payer, Stranger} :
          /\ ref = NoRef => "reference" \in Faults
          /\ amount # l.amount => "amount" \in Faults
          /\ payer # l.payer => "payer" \in Faults
          /\ receipt' = [receipt EXCEPT ![l.gid] =
                            [ref |-> ref, amount |-> amount, payer |-> payer]]
    /\ UNCHANGED <<rowVars, lock, ctx, drawVars, offers, issued>>

(* A new fee policy takes effect, or a scheduled one does. *)
ChangeFee(r) ==
    /\ r # rate
    /\ rate' = r
    /\ UNCHANGED <<rowVars, lock, ctx, ids, tokens, known, gatewayVars>>

-----------------------------------------------------------------------------
(* Four of the thirteen checks of ops.run_db_checks, those whose columns   *)
(* are modelled here; the check on claims of non-pending payments is       *)
(* NoStrandedPayment of Notification.                                      *)
Rows == {o \in Orders : status[o] # "absent"}

DbCheckFailures ==
    {c \in {"duplicate_gateway_order_id", "duplicate_reference_id",
            "negative_fee_amount", "missing_payable_amount"} :
       CASE c = "duplicate_gateway_order_id" ->
               \E o, q \in Rows : o # q /\ link[o].gid = link[q].gid
         [] c = "duplicate_reference_id" ->
               \E o, q \in Rows : o # q /\ reference[o] # NoRef /\ reference[o] = reference[q]
         [] c = "negative_fee_amount" -> \E o \in Rows : link[o].payable < link[o].amount
         [] c = "missing_payable_amount" -> \E o \in Rows : link[o].payable = 0}

NewRecon == [attempts |-> 0, claimed |-> NoOne, next |-> "null",
             error |-> "none", age |-> "young"]

(* A row an earlier release left behind: shared, untyped or retired payer. *)
OldRow(o, st, payer, amount) ==
    LET l == [amount |-> amount, payable |-> amount, payer |-> payer, gid |-> 1,
              token |-> IF st = "created" THEN 0 ELSE 1,
              url |-> IF st = "link_created" THEN 1 ELSE 0]
    IN  /\ status = [q \in Orders |-> IF q = o THEN st ELSE "absent"]
        /\ link = [q \in Orders |-> IF q = o THEN l ELSE BlankLink]
        /\ offers = IF st = "created" THEN {} ELSE {LinkOffer(o, l)}
        /\ issued = IF st = "link_created"
                    THEN {[offer |-> LinkOffer(o, l),
                           to |-> IF payer.key \in Users THEN payer.key ELSE "order"]}
                    ELSE {}
        /\ ids = 1
        /\ tokens = 1

EmptyTable ==
    /\ status = [o \in Orders |-> "absent"]
    /\ link = [o \in Orders |-> BlankLink]
    /\ offers = {}
    /\ issued = {}
    /\ ids = 0
    /\ tokens = 0

Init ==
    /\ rate \in Rates
    /\ \/ EmptyTable
       \/ \E o \in Orders, st \in {"created", "getlink_failed", "link_created"},
             payer \in OldPayers, amount \in Amounts : OldRow(o, st, payer, amount)
    /\ known = {}
    /\ verified = [o \in Orders |-> FALSE]
    /\ reference = [o \in Orders |-> NoRef]
    /\ recon = [o \in Orders |-> NewRecon]
    /\ lock = [o \in Orders |-> NoOne]
    /\ ctx = [x \in Procs |-> Idle]
    /\ receipt = [g \in GatewayIds |-> Unpaid]

HandlerStep(h) ==
    \/ CreateStep(h)
    \/ \E o \in Orders : Callback(h, o) \/ RecoverAgedOut(h, o) \/ DiagnosticVerify(h, o)
    \/ DiagnosticEnds(h)
    \/ SettleStep(h)

ReconcilerStep(r) ==
    \/ \E o \in Orders : ClaimDue(r, o)
    \/ SettleStep(r)
    \/ Finalize(r)

Environment ==
    \/ \E l \in offers : Pay(l)
    \/ \E r \in Rates : ChangeFee(r)
    \/ \E o \in Orders : RetryComesDue(o) \/ AgeLink(o)

Next ==
    \/ \E h \in Handlers : HandlerStep(h)
    \/ \E r \in Reconcilers : ReconcilerStep(r)
    \/ Environment

Spec == Init /\ [][Next]_ledgerVars

(* HTTP calls end (client timeouts), threads that die are restarted, the   *)
(* reconciliation thread polls forever and takes the longest-waiting due   *)
(* row, a lock wait ends while lock holders keep finishing, and the thread *)
(* does not die in every verify call (a crash there rolls the attempt      *)
(* count back, so it is not bounded by it).  Nothing is assumed of the     *)
(* payer, the callback, the gateway's answers, or of a link growing older  *)
(* once it is past its grace period.                                       *)
Fairness ==
    /\ \A h \in Handlers :
          /\ WF_ledgerVars(GetLinkSucceeds(h) \/ GetLinkFails(h))
          /\ WF_ledgerVars(VerifyAnswer(h))
          /\ WF_ledgerVars(CommitSettlement(h) \/ SettlementRaises(h))
          /\ WF_ledgerVars(DiagnosticEnds(h))
    /\ \A r \in Reconcilers :
          /\ SF_ledgerVars(CommitSettlement(r) \/ SettlementRaises(r))
          /\ SF_ledgerVars(Finalize(r))
    /\ \A o \in Orders :
          /\ SF_ledgerVars(\E r \in Reconcilers : ctx[r].order = o /\ VerifyAnswer(r))
          /\ SF_ledgerVars(\E r \in Reconcilers : ClaimDue(r, o))
          /\ WF_ledgerVars(RetryComesDue(o))
          /\ WF_ledgerVars(recon[o].age = "young" /\ AgeLink(o))

FairSpec == Spec /\ Fairness

-----------------------------------------------------------------------------
(* Properties. *)

(* Whoever talks to the gateway about an order holds its row lock, and no  *)
(* verify call or settlement commit is in progress for a payment that is   *)
(* settled or under review: a payment is verified at most once (F7), under *)
(* callbacks, reconcilers, recovery and inspections racing each other.     *)
ExclusiveSettlement ==
    \A x \in Procs : ctx[x].pc \in {"getlink", "verify", "settle", "inspect"} =>
        /\ lock[ctx[x].order] = x
        /\ ~Settled(ctx[x].order)
        /\ status[ctx[x].order] # "manual_review"

(* A payment counts as verified only if the gateway has been paid, under   *)
(* the row's own gateway order id, exactly the payable amount of its fee   *)
(* snapshot by its own payer, and the row carries that receipt's reference.*)
VerifiedIsPaid ==
    \A o \in Orders : Settled(o) =>
        /\ verified[o]
        /\ receipt[link[o].gid] = [ref |-> reference[o], amount |-> link[o].payable,
                                   payer |-> link[o].payer]
        /\ reference[o] # NoRef

(* No reachable table fails the four modelled checks of `centralpay        *)
(* db-check`, which the monitor pages on: no reference id pays for two     *)
(* orders, although the collision check of one settlement cannot see the   *)
(* uncommitted settlement of another, no two rows share a gateway order    *)
(* id, and every row has a payable amount, not less than its amount.       *)
DbCheckClean == DbCheckFailures = {}

(* The inspection report never misleads the operator: what settlement does *)
(* to an order is what the report's comparison, run at that moment,        *)
(* predicts.                                                               *)
SettlementAsPredicted ==
    [][\A o \in Orders :
          /\ ~verified[o] /\ verified'[o] => Assessment(o) = "WOULD_VERIFY"
          /\ ~verified[o] /\ status[o] # "manual_review" /\ status'[o] = "manual_review"
                => Assessment(o) = "WOULD_REQUIRE_MANUAL_REVIEW"]_ledgerVars

(* The bot is only ever given one link for an order, and that link stays   *)
(* the one the row will accept a callback for and verify against, through  *)
(* retries, races, half-registered links, crashes and fee changes.         *)
OneLiveLink ==
    \A i \in issued :
        LET o == i.offer.order
        IN  /\ i.offer = LinkOffer(o, link[o])
            /\ link[o].url = link[o].token

(* A link paid by one Telegram user's identity is never handed to another. *)
NoCrossUserLink ==
    \A i \in issued : i.to \in Users /\ i.offer.payer.key \in Users =>
        i.offer.payer.key = i.to

(* The gateway is never asked to charge two amounts for one order, even    *)
(* by attempts that failed or were lost, whatever happens to the fee.      *)
OnePricePerOrder ==
    \A l, m \in offers : l.order = m.order => l.amount = m.amount

(* A request admitted without rate limiting does no work: no gateway call, *)
(* no new row, identity mapping, gateway order id or token, although the   *)
(* exemption was granted on an unlocked read that callbacks, other         *)
(* requests and identity adoption may have overtaken.                      *)
ExemptReplayIsFree ==
    [][\A h \in Handlers : ctx[h].exempt /\ ctx'[h] # ctx[h] =>
          UNCHANGED <<rowVars, ids, tokens, known, offers>>]_ledgerVars

(* Reconciliation polls an order at most MaxReconcile times. *)
ReconciliationBounded ==
    \A o \in Orders : recon[o].attempts <= MaxReconcile

(* Once settled or under review, nothing on the money path changes the     *)
(* payment's status, facts or link.                                        *)
SettledIsFrozen ==
    [][\A o \in Orders : Settled(o) \/ status[o] = "manual_review" =>
          /\ status'[o] = status[o]
          /\ verified'[o] = verified[o]
          /\ reference'[o] = reference[o]
          /\ link'[o] = link[o]]_ledgerVars

(* A paid link whose callback never arrives is still settled or put under  *)
(* review by reconciliation, unless the order visibly leaves its reach:    *)
(* attempts exhausted or link aged out.                                    *)
Paid(o) == status[o] = "link_created" /\ receipt[link[o].gid] # Unpaid

OutOfReach(o) == recon[o].attempts >= MaxReconcile \/ recon[o].age = "aged_out"

PaidIsSettled ==
    \A o \in Orders :
        Paid(o) ~> (Settled(o) \/ status[o] = "manual_review" \/ OutOfReach(o))

(* What _finalize's docstring says: if the payment was settled in the gap, *)
(* the stored state is not touched beyond clearing the claim.              *)
SupersededUntouched ==
    [][\A r \in Reconcilers :
          ctx[r].pc = "finalize" /\ ctx[r].outcome \in {"gateway_not_paid", "transport"}
          /\ ctx'[r].pc = "idle" /\ status[ctx[r].order] # "link_created"
          => \/ recon'[ctx[r].order] = recon[ctx[r].order]
             \/ recon'[ctx[r].order] = [recon[ctx[r].order] EXCEPT !.claimed = NoOne]]_ledgerVars

=============================================================================
