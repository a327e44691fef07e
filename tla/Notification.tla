---------------------------- MODULE Notification ----------------------------
(***************************************************************************)
(* Delivery of "this order is paid" to the customer's bot: the worker's    *)
(* claim / send / record cycle, recovery of claims whose worker died, and  *)
(* every operator command that moves a payment in or out of delivery.      *)
(*                                                                         *)
(* Each action is one database transaction (row lock, re-check, commit),   *)
(* except Send, which is the HTTP request made with no transaction open.   *)
(* Between Claim and Record anything may happen to the row: the claim may  *)
(* go stale and be released, another worker may re-claim it, an operator   *)
(* may accept, resolve or requeue the payment.                             *)
(*                                                                         *)
(* Time is abstract: next_retry_at is null, due or later; a claim is fresh *)
(* or stale.  A claim may turn stale while its worker is still running.    *)
(***************************************************************************)
EXTENDS Models, Naturals

CONSTANTS
    Payments,      \* payment rows
    Workers,       \* notification worker processes
    RetryMode,     \* BOT_NOTIFY_RETRY_MODE: "safe" or "idempotent"
    MaxAttempts,   \* BOT_NOTIFY_MAX_ATTEMPTS
    MaxResends,    \* bound: operator requeues per payment
    NoOne          \* SQL NULL in notification_claimed_by

ASSUME RetryModeAssumption == RetryMode \in {"safe", "idempotent"}
ASSUME MaxAttemptsAssumption == MaxAttempts \in Nat \ {0}
ASSUME MaxResendsAssumption == MaxResends \in Nat
ASSUME NoOneAssumption == NoOne \notin Workers

VARIABLES
    status,     \* payments.status
    verified,   \* payments.gateway_verified_at IS NOT NULL
    delivery,   \* the notification and review columns
    worker,     \* each worker's in-memory ClaimedPayment and its progress
    bot,        \* what the customer's bot may have done with each order
    resends     \* history: operator requeues of each payment

vars == <<status, verified, delivery, worker, bot, resends>>

-----------------------------------------------------------------------------
(* HTTP outcomes, by what classify_response and classify_transport_error   *)
(* tell apart: any 2xx; 500/502/503/504; 429; a connection that was never  *)
(* established; a timeout or protocol error after the request may have     *)
(* been sent; every other status.                                          *)
Outcomes == {"accepted", "http_5xx", "http_429", "connect_failed",
             "ambiguous", "http_other"}

(* Mutant: any HTTP answer counts as delivered. *)
KindAnyAnswer(outcome) ==
    CASE outcome \in {"accepted", "http_other"} -> "ACCEPTED"
      [] outcome \in {"http_5xx", "http_429", "connect_failed"} -> "RETRYABLE"
      [] OTHER -> "AMBIGUOUS"

Kind(outcome) ==
    CASE outcome = "accepted" -> "ACCEPTED"
      [] outcome \in {"http_5xx", "http_429", "connect_failed"} -> "RETRYABLE"
      [] outcome = "ambiguous" -> "AMBIGUOUS"
      [] OTHER -> "MANUAL"

(* Mutant: safe mode retries 5xx answers as idempotent mode does. *)
EffectiveKindUncorrected(outcome) ==
    IF Kind(outcome) = "AMBIGUOUS" /\ RetryMode = "idempotent"
    THEN "RETRYABLE" ELSE Kind(outcome)

(* The delivery layer's correction of the kind for the retry mode. *)
EffectiveKind(outcome) ==
    CASE Kind(outcome) = "AMBIGUOUS" /\ RetryMode = "idempotent" -> "RETRYABLE"
      [] Kind(outcome) = "RETRYABLE" /\ RetryMode = "safe"
         /\ outcome = "http_5xx" -> "MANUAL"
      [] OTHER -> Kind(outcome)

(* Outcomes after which the bot may have credited the customer. *)
SideEffecting == {"accepted", "http_5xx", "ambiguous", "http_other"}

Reasons == Outcomes \cup {"none", "retry_limit_reached"}

(* Delivery reasons /resend_failed and resolve-many accept. *)
ELIGIBLE_RESEND_REASONS == {"retry_limit_reached", "ambiguous"}

Delivery == [reason   : Reasons,                      \* bot_notify_reason
             attempts : Nat,                          \* bot_notify_attempts
             claim    : {"none", "fresh", "stale"},   \* notification_claimed_at
             by       : Workers \cup {NoOne},         \* notification_claimed_by
             retry    : {"null", "due", "later"},     \* next_retry_at
             review   : {"open", "acknowledged", "resolved"}]

Worker == [pc      : {"idle", "claimed", "answered"},
           payment : Payments \cup {NoOne},
           attempt : Nat,
           outcome : Outcomes \cup {"none"}]

IdleWorker == [pc |-> "idle", payment |-> NoOne, attempt |-> 0, outcome |-> "none"]

Bot == [effects : Nat,      \* requests the bot may have processed
        acked   : BOOLEAN,  \* the bot answered 2xx to some request
        told    : BOOLEAN]  \* an operator attested the delivery

TypeOK ==
    /\ status \in [Payments -> PaymentStatus]
    /\ verified \in [Payments -> BOOLEAN]
    /\ delivery \in [Payments -> Delivery]
    /\ worker \in [Workers -> Worker]
    /\ \A w \in Workers :
          /\ worker[w].pc # "idle" => worker[w].payment \in Payments
          /\ worker[w].pc = "answered" => worker[w].outcome \in Outcomes
    /\ bot \in [Payments -> Bot]
    /\ resends \in [Payments -> Nat]

Pending(p)  == status[p] = "bot_notify_pending"
InReview(p) == status[p] = "manual_review"

-----------------------------------------------------------------------------
(* Column updates shared by several operations. *)

(* Mutant: notification_claimed_by survives. *)
ClearClaimTimeOnly(d) == [d EXCEPT !.claim = "none"]

ClearClaim(d) == [d EXCEPT !.claim = "none", !.by = NoOne]

AcceptedState(d) == [ClearClaim(d) EXCEPT !.reason = "accepted", !.retry = "null"]

ReviewState(d, reason) == [ClearClaim(d) EXCEPT !.reason = reason, !.retry = "null"]

RetryState(d, reason) == [ClearClaim(d) EXCEPT !.reason = reason, !.retry = "later"]

RequeuedState(d) == [ClearClaim(d) EXCEPT !.retry = "due"]

QueuedState(d) == [d EXCEPT !.reason = "none", !.retry = "due"]

ClaimedState(d, w) == [d EXCEPT !.attempts = @ + 1, !.claim = "fresh", !.by = w]

-----------------------------------------------------------------------------
(* Verification (component Settlement) hands a payment over: verified and  *)
(* queued in one commit, or moved to financial review unverified.          *)

QueueNotification(p) ==
    /\ status[p] = "link_created"
    /\ status' = [status EXCEPT ![p] = "bot_notify_pending"]
    /\ verified' = [verified EXCEPT ![p] = TRUE]
    /\ delivery' = [delivery EXCEPT ![p] = QueuedState(@)]
    /\ UNCHANGED <<worker, bot, resends>>

FinancialReview(p) ==
    /\ status[p] = "link_created"
    /\ status' = [status EXCEPT ![p] = "manual_review"]
    /\ UNCHANGED <<verified, delivery, worker, bot, resends>>

-----------------------------------------------------------------------------
(* The worker. *)

Claimable(p) ==
    /\ Pending(p)
    /\ verified[p]
    /\ delivery[p].retry \in {"null", "due"}
    /\ delivery[p].claim = "none"

ClaimNextDue(w, p) ==
    /\ worker[w].pc = "idle"
    /\ Claimable(p)
    /\ delivery' = [delivery EXCEPT ![p] = ClaimedState(@, w)]
    /\ worker' = [worker EXCEPT ![w] =
                     [pc |-> "claimed", payment |-> p,
                      attempt |-> delivery[p].attempts + 1, outcome |-> "none"]]
    /\ UNCHANGED <<status, verified, bot, resends>>

(* The request leaves and comes back as `outcome`. *)
Answered(c, outcome) == [c EXCEPT !.pc = "answered", !.outcome = outcome]

Processed(b, outcome) ==
    [b EXCEPT !.effects = IF outcome \in SideEffecting THEN @ + 1 ELSE @,
              !.acked = @ \/ outcome = "accepted"]

Send(w, outcome) ==
    /\ worker[w].pc = "claimed"
    /\ worker' = [worker EXCEPT ![w] = Answered(@, outcome)]
    /\ bot' = [bot EXCEPT ![worker[w].payment] = Processed(@, outcome)]
    /\ UNCHANGED <<status, verified, delivery, resends>>

(* Mutant: the row is judged by the session's cached copy, as re-selecting *)
(* without populate_existing would: it looks as it did when claimed.       *)
OwnsClaimCached(w) == worker[w].pc = "answered"

(* Does the row still carry this worker's claim at this attempt? *)
OwnsClaim(w) ==
    LET p == worker[w].payment
    IN  /\ Pending(p)
        /\ delivery[p].by = w
        /\ delivery[p].attempts = worker[w].attempt

(* record_attempt_result on a claim the worker still owns. *)
RecordedStatus(w) ==
    LET kind == EffectiveKind(worker[w].outcome)
    IN  CASE kind = "ACCEPTED" -> "bot_notify_accepted"
          [] kind = "RETRYABLE" /\ worker[w].attempt < MaxAttempts -> "bot_notify_pending"
          [] OTHER -> "manual_review"

RecordedDelivery(w) ==
    LET d == delivery[worker[w].payment]
        outcome == worker[w].outcome
        kind == EffectiveKind(outcome)
    IN  CASE kind = "ACCEPTED" -> AcceptedState(d)
          [] kind = "RETRYABLE" /\ worker[w].attempt >= MaxAttempts ->
                ReviewState(d, "retry_limit_reached")
          [] kind = "RETRYABLE" /\ worker[w].attempt < MaxAttempts ->
                RetryState(d, outcome)
          [] OTHER -> ReviewState(d, outcome)

RecordAttemptResult(w) ==
    /\ worker[w].pc = "answered"
    /\ OwnsClaim(w)
    /\ status' = [status EXCEPT ![worker[w].payment] = RecordedStatus(w)]
    /\ delivery' = [delivery EXCEPT ![worker[w].payment] = RecordedDelivery(w)]
    /\ worker' = [worker EXCEPT ![w] = IdleWorker]
    /\ UNCHANGED <<verified, bot, resends>>

(* The claim was released, re-claimed or resolved meanwhile: the result is *)
(* only audited.                                                           *)
DiscardAttemptResult(w) ==
    /\ worker[w].pc = "answered"
    /\ ~OwnsClaim(w)
    /\ worker' = [worker EXCEPT ![w] = IdleWorker]
    /\ UNCHANGED <<status, verified, delivery, bot, resends>>

(* The process dies before recording; its request may be out already.  A   *)
(* worker restarted later is idle.                                         *)
Crash(w) ==
    /\ worker[w].pc # "idle"
    /\ worker' = [worker EXCEPT ![w] = IdleWorker]
    /\ \/ UNCHANGED bot
       \/ /\ worker[w].pc = "claimed"
          /\ bot' = [bot EXCEPT ![worker[w].payment].effects = @ + 1]
    /\ UNCHANGED <<status, verified, delivery, resends>>

(* Mutant: recovery selects only the payments it could still retry. *)
StaleClaimsBelowLimit ==
    {p \in Payments : /\ Pending(p)
                      /\ delivery[p].claim = "stale"
                      /\ delivery[p].attempts < MaxAttempts}

(* Start of every worker pass: all stale claims in one transaction. *)
StaleClaims == {p \in Payments : Pending(p) /\ delivery[p].claim = "stale"}

(* Mutant: an interrupted attempt is retried without counting it. *)
RecoveredStatusUnlimited(p) ==
    IF RetryMode = "idempotent" THEN "bot_notify_pending" ELSE "manual_review"

RecoveredStatus(p) ==
    IF RetryMode = "idempotent" /\ delivery[p].attempts < MaxAttempts
    THEN "bot_notify_pending" ELSE "manual_review"

RecoveredDelivery(p) ==
    CASE RetryMode = "idempotent" /\ delivery[p].attempts >= MaxAttempts ->
            ReviewState(delivery[p], "retry_limit_reached")
      [] RetryMode = "idempotent" /\ delivery[p].attempts < MaxAttempts ->
            RetryState(delivery[p], "ambiguous")
      [] OTHER -> ReviewState(delivery[p], "ambiguous")

ReleaseStaleClaims(w) ==
    /\ worker[w].pc = "idle"
    /\ StaleClaims # {}
    /\ status' = [p \in Payments |->
                    IF p \in StaleClaims THEN RecoveredStatus(p) ELSE status[p]]
    /\ delivery' = [p \in Payments |->
                      IF p \in StaleClaims THEN RecoveredDelivery(p) ELSE delivery[p]]
    /\ UNCHANGED <<verified, worker, bot, resends>>

-----------------------------------------------------------------------------
(* Operators. *)

(* centralpay notification accept: a local transition, no request sent. *)
ManualAccept(p) ==
    /\ Pending(p)
    /\ verified[p]
    /\ status' = [status EXCEPT ![p] = "bot_notify_accepted"]
    /\ delivery' = [delivery EXCEPT ![p] = AcceptedState(@)]
    /\ bot' = [bot EXCEPT ![p].told = TRUE]
    /\ UNCHANGED <<verified, worker, resends>>

(* Re-acknowledging a resolved review leaves it resolved. *)
ReviewAcknowledge(p) ==
    /\ InReview(p)
    /\ delivery[p].review = "open"
    /\ delivery' = [delivery EXCEPT ![p].review = "acknowledged"]
    /\ UNCHANGED <<status, verified, worker, bot, resends>>

ReviewResolve(p) ==
    /\ InReview(p)
    /\ delivery' = [delivery EXCEPT ![p].review = "resolved"]
    /\ UNCHANGED <<status, verified, worker, bot, resends>>

(* review resolve-many: every row eligible, or nothing is written. *)
BulkResolvable(p) ==
    /\ InReview(p)
    /\ delivery[p].review # "resolved"
    /\ delivery[p].reason \in ELIGIBLE_RESEND_REASONS

ResolveReviews(S) ==
    /\ S # {}
    /\ \A p \in S : BulkResolvable(p)
    /\ \A p, q \in S : verified[p] = verified[q]
    /\ delivery' = [p \in Payments |->
                      IF p \in S THEN [delivery[p] EXCEPT !.review = "resolved"]
                                 ELSE delivery[p]]
    /\ UNCHANGED <<status, verified, worker, bot, resends>>

(* review resend: one payment, idempotent mode only. *)
ReviewResend(p) ==
    /\ RetryMode = "idempotent"
    /\ InReview(p)
    /\ verified[p]
    /\ resends[p] < MaxResends
    /\ status' = [status EXCEPT ![p] = "bot_notify_pending"]
    /\ delivery' = [delivery EXCEPT ![p] = RequeuedState(@)]
    /\ resends' = [resends EXCEPT ![p] = @ + 1]
    /\ UNCHANGED <<verified, worker, bot>>

(* /resend_failed confirm: one batch of the requeue loop. *)
BulkResendable(p) ==
    /\ InReview(p)
    /\ verified[p]
    /\ delivery[p].review # "resolved"
    /\ delivery[p].claim = "none"
    /\ delivery[p].reason \in ELIGIBLE_RESEND_REASONS

Resendable == {p \in Payments : BulkResendable(p)}

RequeueFailedDeliveries ==
    /\ RetryMode = "idempotent"
    /\ Resendable # {}
    /\ \A p \in Resendable : resends[p] < MaxResends
    /\ status' = [p \in Payments |->
                    IF p \in Resendable THEN "bot_notify_pending" ELSE status[p]]
    /\ delivery' = [p \in Payments |->
                      IF p \in Resendable THEN RequeuedState(delivery[p]) ELSE delivery[p]]
    /\ resends' = [p \in Payments |->
                     IF p \in Resendable THEN resends[p] + 1 ELSE resends[p]]
    /\ UNCHANGED <<verified, worker, bot>>

-----------------------------------------------------------------------------
(* Time. *)

RetryComesDue(p) ==
    /\ delivery[p].retry = "later"
    /\ delivery' = [delivery EXCEPT ![p].retry = "due"]
    /\ UNCHANGED <<status, verified, worker, bot, resends>>

ClaimGoesStale(p) ==
    /\ delivery[p].claim = "fresh"
    /\ delivery' = [delivery EXCEPT ![p].claim = "stale"]
    /\ UNCHANGED <<status, verified, worker, bot, resends>>

-----------------------------------------------------------------------------
Init ==
    /\ status = [p \in Payments |-> "link_created"]
    /\ verified = [p \in Payments |-> FALSE]
    /\ delivery = [p \in Payments |->
                     [reason |-> "none", attempts |-> 0, claim |-> "none",
                      by |-> NoOne, retry |-> "null", review |-> "open"]]
    /\ worker = [w \in Workers |-> IdleWorker]
    /\ bot = [p \in Payments |-> [effects |-> 0, acked |-> FALSE, told |-> FALSE]]
    /\ resends = [p \in Payments |-> 0]

Handover == \E p \in Payments : QueueNotification(p) \/ FinancialReview(p)

WorkerStep(w) ==
    \/ \E p \in Payments : ClaimNextDue(w, p)
    \/ \E outcome \in Outcomes : Send(w, outcome)
    \/ RecordAttemptResult(w)
    \/ DiscardAttemptResult(w)
    \/ Crash(w)
    \/ ReleaseStaleClaims(w)

OperatorStep ==
    \/ \E p \in Payments : \/ ManualAccept(p)
                           \/ ReviewAcknowledge(p)
                           \/ ReviewResolve(p)
                           \/ ReviewResend(p)
    \/ \E S \in SUBSET Payments : ResolveReviews(S)
    \/ RequeueFailedDeliveries

TimePasses == \E p \in Payments : RetryComesDue(p) \/ ClaimGoesStale(p)

DeliveryStep == (\E w \in Workers : WorkerStep(w)) \/ OperatorStep \/ TimePasses

Next == Handover \/ DeliveryStep

Spec == Init /\ [][Next]_vars

(* Workers poll forever and are restarted when they die.  A worker takes   *)
(* the due payment with the oldest next_retry_at and starts every pass     *)
(* with the stale claims, so a payment that keeps being claimable is       *)
(* claimed and a claim that keeps being stale is released.  Nothing is     *)
(* assumed of operators, of the bot's answers, or of crashes.              *)
Fairness ==
    /\ \A w \in Workers :
          /\ WF_vars(\E outcome \in Outcomes : Send(w, outcome))
          /\ WF_vars(RecordAttemptResult(w) \/ DiscardAttemptResult(w))
    /\ \A p \in Payments :
          /\ SF_vars(\E w \in Workers : ClaimNextDue(w, p))
          /\ WF_vars(RetryComesDue(p))
          /\ WF_vars(ClaimGoesStale(p))
    /\ SF_vars(\E w \in Workers : ReleaseStaleClaims(w))

FairSpec == Spec /\ Fairness

-----------------------------------------------------------------------------
(* Properties. *)

(* In safe mode the customer's bot can have processed the notification of  *)
(* a payment at most once, however workers stall, die, are overtaken by    *)
(* stale-claim recovery, or race operators: safe-mode ambiguity is never   *)
(* resent (record_attempt_result, release_stale_claims, the resend gates). *)
SafeModeAtMostOnce ==
    RetryMode = "safe" => \A p \in Payments : bot[p].effects <= 1

(* Attempts are bounded in every path: on failures, on interrupted         *)
(* attempts and after requeues, one requeue buys at most one more attempt  *)
(* beyond the limit, because no requeue resets the counter.                *)
AttemptsBounded ==
    \A p \in Payments : delivery[p].attempts <= MaxAttempts + resends[p]

(* A payment is shown as accepted only if the bot answered 2xx to one of   *)
(* its requests or an operator attested the delivery: a late result is     *)
(* never recorded for another payment or on another attempt's claim.       *)
AcceptedIsJustified ==
    \A p \in Payments : status[p] = "bot_notify_accepted" =>
        verified[p] /\ (bot[p].acked \/ bot[p].told)

(* A claim exists only on a pending payment, and a pending payment that    *)
(* nobody holds is scheduled: no row can be left where neither the claim   *)
(* query nor stale-claim recovery ever selects it.                         *)
NoStrandedPayment ==
    \A p \in Payments :
        IF Pending(p)
        THEN \/ delivery[p].claim # "none" /\ delivery[p].by # NoOne
             \/ delivery[p].claim = "none" /\ delivery[p].retry # "null" /\ verified[p]
        ELSE delivery[p].claim = "none" /\ delivery[p].by = NoOne

(* Accepted is final: no straggler, recovery or command reopens it. *)
AcceptedIsFinal ==
    [][\A p \in Payments : status[p] = "bot_notify_accepted" =>
                              status'[p] = "bot_notify_accepted"]_vars

(* A payment leaves manual review only by an operator's requeue of a       *)
(* verified payment in idempotent mode; workers never take it back.        *)
ReviewNotBypassed ==
    [][\A p \in Payments : InReview(p) /\ status'[p] # "manual_review" =>
          /\ RetryMode = "idempotent"
          /\ verified[p]
          /\ resends'[p] = resends[p] + 1]_vars

(* Every queued payment ends accepted or with an administrator, whatever   *)
(* the bot answers and however often workers die.                          *)
DeliveryResolves ==
    \A p \in Payments : Pending(p) ~> (status[p] = "bot_notify_accepted" \/ InReview(p))

(* What app.adminbot.queries.open_manual_review_conditions promises: a     *)
(* payment that a failed delivery has just put into manual review needs    *)
(* operator attention, so it is on the open worklist.                      *)
NewReviewIsOpen ==
    [][\A p \in Payments : Pending(p) /\ status'[p] = "manual_review" =>
          delivery'[p].review # "resolved"]_vars

=============================================================================
