------------------------- MODULE NotificationProofs -------------------------
(***************************************************************************)
(* Proofs about Notification, for every set of payments and workers, every *)
(* retry mode and every limit.                                             *)
(***************************************************************************)
EXTENDS Notification, TLAPS

USE RetryModeAssumption, MaxAttemptsAssumption, MaxResendsAssumption, NoOneAssumption

-----------------------------------------------------------------------------
(* What the column updates do. *)

LEMMA ClearClaimLemma ==
    ASSUME NEW d \in Delivery
    PROVE  /\ ClearClaim(d) \in Delivery
           /\ ClearClaim(d).attempts = d.attempts
           /\ ClearClaim(d).claim = "none"
           /\ ClearClaim(d).by = NoOne
           /\ ClearClaim(d).reason = d.reason
  BY DEF Delivery, ClearClaim

LEMMA AcceptedStateLemma ==
    ASSUME NEW d \in Delivery
    PROVE  /\ AcceptedState(d) \in Delivery
           /\ AcceptedState(d).attempts = d.attempts
           /\ AcceptedState(d).claim = "none"
           /\ AcceptedState(d).by = NoOne
           /\ AcceptedState(d).retry = "null"
           /\ AcceptedState(d).reason = "accepted"
  <1> DEFINE c == ClearClaim(d)
  <1>1. /\ c \in Delivery
        /\ c.attempts = d.attempts
        /\ c.claim = "none"
        /\ c.by = NoOne
        /\ c.reason = d.reason
    BY ClearClaimLemma
  <1>2. AcceptedState(d) = [c EXCEPT !.reason = "accepted", !.retry = "null"]
    BY DEF AcceptedState
  <1> HIDE DEF c
  <1> QED BY <1>1, <1>2 DEF Delivery, Reasons, Outcomes

LEMMA ReviewStateLemma ==
    ASSUME NEW d \in Delivery, NEW reason \in Reasons
    PROVE  /\ ReviewState(d, reason) \in Delivery
           /\ ReviewState(d, reason).attempts = d.attempts
           /\ ReviewState(d, reason).claim = "none"
           /\ ReviewState(d, reason).by = NoOne
           /\ ReviewState(d, reason).retry = "null"
           /\ ReviewState(d, reason).reason = reason
  <1> DEFINE c == ClearClaim(d)
  <1>1. /\ c \in Delivery
        /\ c.attempts = d.attempts
        /\ c.claim = "none"
        /\ c.by = NoOne
        /\ c.reason = d.reason
    BY ClearClaimLemma
  <1>2. ReviewState(d, reason) = [c EXCEPT !.reason = reason, !.retry = "null"]
    BY DEF ReviewState
  <1> HIDE DEF c
  <1> QED BY <1>1, <1>2 DEF Delivery, Reasons, Outcomes

LEMMA RetryStateLemma ==
    ASSUME NEW d \in Delivery, NEW reason \in Reasons
    PROVE  /\ RetryState(d, reason) \in Delivery
           /\ RetryState(d, reason).attempts = d.attempts
           /\ RetryState(d, reason).claim = "none"
           /\ RetryState(d, reason).by = NoOne
           /\ RetryState(d, reason).retry = "later"
           /\ RetryState(d, reason).reason = reason
  <1> DEFINE c == ClearClaim(d)
  <1>1. /\ c \in Delivery
        /\ c.attempts = d.attempts
        /\ c.claim = "none"
        /\ c.by = NoOne
        /\ c.reason = d.reason
    BY ClearClaimLemma
  <1>2. RetryState(d, reason) = [c EXCEPT !.reason = reason, !.retry = "later"]
    BY DEF RetryState
  <1> HIDE DEF c
  <1> QED BY <1>1, <1>2 DEF Delivery, Reasons, Outcomes

LEMMA RequeuedStateLemma ==
    ASSUME NEW d \in Delivery
    PROVE  /\ RequeuedState(d) \in Delivery
           /\ RequeuedState(d).attempts = d.attempts
           /\ RequeuedState(d).claim = "none"
           /\ RequeuedState(d).by = NoOne
           /\ RequeuedState(d).retry = "due"
           /\ RequeuedState(d).reason = d.reason
  <1> DEFINE c == ClearClaim(d)
  <1>1. /\ c \in Delivery
        /\ c.attempts = d.attempts
        /\ c.claim = "none"
        /\ c.by = NoOne
        /\ c.reason = d.reason
    BY ClearClaimLemma
  <1>2. RequeuedState(d) = [c EXCEPT !.retry = "due"]
    BY DEF RequeuedState
  <1> HIDE DEF c
  <1> QED BY <1>1, <1>2 DEF Delivery, Reasons, Outcomes

LEMMA QueuedStateLemma ==
    ASSUME NEW d \in Delivery
    PROVE  /\ QueuedState(d) \in Delivery
           /\ QueuedState(d).attempts = d.attempts
           /\ QueuedState(d).claim = d.claim
           /\ QueuedState(d).by = d.by
           /\ QueuedState(d).retry = "due"
           /\ QueuedState(d).reason = "none"
  BY DEF Delivery, QueuedState, Reasons

LEMMA ClaimedStateLemma ==
    ASSUME NEW d \in Delivery, NEW w \in Workers
    PROVE  /\ ClaimedState(d, w) \in Delivery
           /\ ClaimedState(d, w).attempts = d.attempts + 1
           /\ ClaimedState(d, w).claim = "fresh"
           /\ ClaimedState(d, w).by = w
           /\ ClaimedState(d, w).reason = d.reason
  <1> DEFINE n == d.attempts + 1
  <1>1. n \in Nat
    BY DEF Delivery
  <1>2. ClaimedState(d, w) = [d EXCEPT !.attempts = n, !.claim = "fresh", !.by = w]
    BY DEF ClaimedState
  <1>3. n = d.attempts + 1
    OBVIOUS
  <1> HIDE DEF n
  <1> QED BY <1>1, <1>2, <1>3 DEF Delivery

LEMMA AnsweredLemma ==
    ASSUME NEW c \in Worker, NEW outcome \in Outcomes
    PROVE  /\ Answered(c, outcome) \in Worker
           /\ Answered(c, outcome).pc = "answered"
           /\ Answered(c, outcome).payment = c.payment
           /\ Answered(c, outcome).attempt = c.attempt
           /\ Answered(c, outcome).outcome = outcome
  BY DEF Worker, Answered

(* Only an outcome after which the bot may have processed the request      *)
(* counts as an effect, and an acknowledgement is never forgotten.         *)
LEMMA ProcessedLemma ==
    ASSUME NEW b \in Bot, NEW outcome \in Outcomes
    PROVE  /\ Processed(b, outcome) \in Bot
           /\ outcome \in SideEffecting => Processed(b, outcome).effects = b.effects + 1
           /\ outcome \notin SideEffecting => Processed(b, outcome).effects = b.effects
           /\ b.acked \/ outcome = "accepted" => Processed(b, outcome).acked
           /\ Processed(b, outcome).told = b.told
  <1> DEFINE effects == IF outcome \in SideEffecting THEN b.effects + 1 ELSE b.effects
             acked == b.acked \/ outcome = "accepted"
  <1>1. effects \in Nat /\ acked \in BOOLEAN
    BY DEF Bot
  <1>2. Processed(b, outcome) = [b EXCEPT !.effects = effects, !.acked = acked]
    BY DEF Processed
  <1>3. /\ outcome \in SideEffecting => effects = b.effects + 1
        /\ outcome \notin SideEffecting => effects = b.effects
        /\ b.acked \/ outcome = "accepted" => acked
    OBVIOUS
  <1> HIDE DEF effects, acked
  <1> QED BY <1>1, <1>2, <1>3 DEF Bot

(* The review columns are independent of the delivery columns. *)
LEMMA ReviewColumnLemma ==
    ASSUME NEW d \in Delivery, NEW review \in {"acknowledged", "resolved"}
    PROVE  LET e == [d EXCEPT !.review = review]
           IN  /\ e \in Delivery
               /\ e.attempts = d.attempts
               /\ e.claim = d.claim
               /\ e.by = d.by
               /\ e.retry = d.retry
               /\ e.reason = d.reason
  BY DEF Delivery

(* Recording a result keeps the attempt count, clears the claim, and       *)
(* leaves the payment pending only with a later retry below the limit, for *)
(* an outcome the retry mode allows to be repeated.                        *)
LEMMA RecordedLemma ==
    ASSUME TypeOK, NEW w \in Workers, worker[w].pc = "answered"
    PROVE  /\ RecordedDelivery(w) \in Delivery
           /\ RecordedDelivery(w).attempts = delivery[worker[w].payment].attempts
           /\ RecordedDelivery(w).claim = "none"
           /\ RecordedDelivery(w).by = NoOne
           /\ RecordedDelivery(w).reason # "none"
           /\ RecordedStatus(w) \in {"bot_notify_pending", "bot_notify_accepted",
                                     "manual_review"}
           /\ RecordedStatus(w) = "bot_notify_pending" =>
                 /\ RecordedDelivery(w).retry = "later"
                 /\ worker[w].attempt < MaxAttempts
                 /\ RetryMode = "safe" => worker[w].outcome \notin SideEffecting
           /\ RecordedStatus(w) = "bot_notify_accepted" =>
                 worker[w].outcome = "accepted"
  <1> DEFINE p == worker[w].payment
             d == delivery[p]
             outcome == worker[w].outcome
             kind == EffectiveKind(outcome)
  <1>1. p \in Payments /\ d \in Delivery /\ outcome \in Outcomes /\ worker[w].attempt \in Nat
    BY DEF TypeOK, Worker
  <1>2. outcome \in Reasons /\ "retry_limit_reached" \in Reasons /\ outcome # "none"
    BY <1>1 DEF Reasons, Outcomes
  <1>3. /\ kind \in {"ACCEPTED", "RETRYABLE", "AMBIGUOUS", "MANUAL"}
        /\ kind = "ACCEPTED" => outcome = "accepted"
        /\ kind = "RETRYABLE" /\ RetryMode = "safe" => outcome \notin SideEffecting
    BY <1>1 DEF EffectiveKind, Kind, Outcomes, SideEffecting
  <1>4. CASE kind = "ACCEPTED"
    <2>1. RecordedStatus(w) = "bot_notify_accepted" /\ RecordedDelivery(w) = AcceptedState(d)
      BY <1>4 DEF RecordedStatus, RecordedDelivery
    <2>2. /\ AcceptedState(d) \in Delivery
          /\ AcceptedState(d).attempts = d.attempts
          /\ AcceptedState(d).claim = "none"
          /\ AcceptedState(d).by = NoOne
          /\ AcceptedState(d).reason = "accepted"
      BY <1>1, AcceptedStateLemma
    <2> QED BY <2>1, <2>2, <1>3, <1>4
  <1>5. CASE kind = "RETRYABLE" /\ worker[w].attempt >= MaxAttempts
    <2>1. /\ RecordedStatus(w) = "manual_review"
          /\ RecordedDelivery(w) = ReviewState(d, "retry_limit_reached")
      BY <1>5, <1>1 DEF RecordedStatus, RecordedDelivery
    <2>2. /\ ReviewState(d, "retry_limit_reached") \in Delivery
          /\ ReviewState(d, "retry_limit_reached").attempts = d.attempts
          /\ ReviewState(d, "retry_limit_reached").claim = "none"
          /\ ReviewState(d, "retry_limit_reached").by = NoOne
          /\ ReviewState(d, "retry_limit_reached").reason = "retry_limit_reached"
      BY <1>1, <1>2, ReviewStateLemma
    <2> QED BY <2>1, <2>2
  <1>6. CASE kind = "RETRYABLE" /\ worker[w].attempt < MaxAttempts
    <2>1. /\ RecordedStatus(w) = "bot_notify_pending"
          /\ RecordedDelivery(w) = RetryState(d, outcome)
      BY <1>6, <1>1 DEF RecordedStatus, RecordedDelivery
    <2>2. /\ RetryState(d, outcome) \in Delivery
          /\ RetryState(d, outcome).attempts = d.attempts
          /\ RetryState(d, outcome).claim = "none"
          /\ RetryState(d, outcome).by = NoOne
          /\ RetryState(d, outcome).retry = "later"
          /\ RetryState(d, outcome).reason = outcome
      BY <1>1, <1>2, RetryStateLemma
    <2> QED BY <2>1, <2>2, <1>2, <1>3, <1>6
  <1>7. CASE kind \notin {"ACCEPTED", "RETRYABLE"}
    <2>1. /\ RecordedStatus(w) = "manual_review"
          /\ RecordedDelivery(w) = ReviewState(d, outcome)
      BY <1>7 DEF RecordedStatus, RecordedDelivery
    <2>2. /\ ReviewState(d, outcome) \in Delivery
          /\ ReviewState(d, outcome).attempts = d.attempts
          /\ ReviewState(d, outcome).claim = "none"
          /\ ReviewState(d, outcome).by = NoOne
          /\ ReviewState(d, outcome).reason = outcome
      BY <1>1, <1>2, ReviewStateLemma
    <2> QED BY <2>1, <2>2, <1>2
  <1> QED BY <1>1, <1>4, <1>5, <1>6, <1>7

(* Releasing a stale claim does the same, and keeps the payment pending    *)
(* only in idempotent mode.                                                *)
LEMMA RecoveredLemma ==
    ASSUME TypeOK, NEW p \in Payments
    PROVE  /\ RecoveredDelivery(p) \in Delivery
           /\ RecoveredDelivery(p).attempts = delivery[p].attempts
           /\ RecoveredDelivery(p).claim = "none"
           /\ RecoveredDelivery(p).by = NoOne
           /\ RecoveredDelivery(p).reason # "none"
           /\ RecoveredStatus(p) \in {"bot_notify_pending", "manual_review"}
           /\ RecoveredStatus(p) = "bot_notify_pending" =>
                 /\ RecoveredDelivery(p).retry = "later"
                 /\ delivery[p].attempts < MaxAttempts
                 /\ RetryMode # "safe"
  <1> DEFINE d == delivery[p]
  <1>1. d \in Delivery /\ d.attempts \in Nat
    BY DEF TypeOK, Delivery
  <1>2. "ambiguous" \in Reasons /\ "retry_limit_reached" \in Reasons
    BY DEF Reasons, Outcomes
  <1>3. \A reason \in Reasons :
           /\ ReviewState(d, reason) \in Delivery
           /\ ReviewState(d, reason).attempts = d.attempts
           /\ ReviewState(d, reason).claim = "none"
           /\ ReviewState(d, reason).by = NoOne
           /\ ReviewState(d, reason).reason = reason
    BY <1>1, ReviewStateLemma
  <1>4. /\ RetryState(d, "ambiguous") \in Delivery
        /\ RetryState(d, "ambiguous").attempts = d.attempts
        /\ RetryState(d, "ambiguous").claim = "none"
        /\ RetryState(d, "ambiguous").by = NoOne
        /\ RetryState(d, "ambiguous").retry = "later"
        /\ RetryState(d, "ambiguous").reason = "ambiguous"
    BY <1>1, <1>2, RetryStateLemma
  <1>5. CASE RetryMode = "idempotent" /\ d.attempts >= MaxAttempts
    <2>1. /\ RecoveredStatus(p) = "manual_review"
          /\ RecoveredDelivery(p) = ReviewState(d, "retry_limit_reached")
      BY <1>5, <1>1 DEF RecoveredStatus, RecoveredDelivery
    <2> QED BY <2>1, <1>2, <1>3
  <1>6. CASE RetryMode = "idempotent" /\ d.attempts < MaxAttempts
    <2>1. /\ RecoveredStatus(p) = "bot_notify_pending"
          /\ RecoveredDelivery(p) = RetryState(d, "ambiguous")
      BY <1>6, <1>1 DEF RecoveredStatus, RecoveredDelivery
    <2> QED BY <2>1, <1>4, <1>6
  <1>7. CASE RetryMode = "safe"
    <2>1. /\ RecoveredStatus(p) = "manual_review"
          /\ RecoveredDelivery(p) = ReviewState(d, "ambiguous")
      BY <1>7 DEF RecoveredStatus, RecoveredDelivery
    <2> QED BY <2>1, <1>2, <1>3
  <1> QED BY <1>1, <1>5, <1>6, <1>7

-----------------------------------------------------------------------------
(* Type correctness. *)

LEMMA TypeInit == Init => TypeOK
  <1> SUFFICES ASSUME Init PROVE TypeOK
    OBVIOUS
  <1>1. IdleWorker \in Worker
    BY DEF IdleWorker, Worker
  <1>2. [effects |-> 0, acked |-> FALSE, told |-> FALSE] \in Bot
    BY DEF Bot
  <1>3. [reason |-> "none", attempts |-> 0, claim |-> "none", by |-> NoOne,
         retry |-> "null", review |-> "open"] \in Delivery
    BY DEF Delivery, Reasons
  <1> QED BY <1>1, <1>2, <1>3 DEF Init, TypeOK, PaymentStatus, IdleWorker

LEMMA TypeStep == TypeOK /\ [Next]_vars => TypeOK'
  <1> SUFFICES ASSUME TypeOK, [Next]_vars PROVE TypeOK'
    OBVIOUS
  <1> USE DEF TypeOK
  <1>1. ASSUME NEW p \in Payments, QueueNotification(p) PROVE TypeOK'
    <2>1. QueuedState(delivery[p]) \in Delivery
      BY QueuedStateLemma
    <2> QED BY <1>1, <2>1 DEF QueueNotification, PaymentStatus
  <1>2. ASSUME NEW p \in Payments, FinancialReview(p) PROVE TypeOK'
    BY <1>2 DEF FinancialReview, PaymentStatus
  <1>3. ASSUME NEW w \in Workers, NEW p \in Payments, ClaimNextDue(w, p) PROVE TypeOK'
    <2>1. ClaimedState(delivery[p], w) \in Delivery
      BY ClaimedStateLemma
    <2>2. [pc |-> "claimed", payment |-> p, attempt |-> delivery[p].attempts + 1,
           outcome |-> "none"] \in Worker
      BY DEF Worker, Delivery
    <2> QED BY <1>3, <2>1, <2>2 DEF ClaimNextDue
  <1>4. ASSUME NEW w \in Workers, NEW outcome \in Outcomes, Send(w, outcome) PROVE TypeOK'
    <2>1. /\ Answered(worker[w], outcome) \in Worker
          /\ Answered(worker[w], outcome).payment = worker[w].payment
          /\ Answered(worker[w], outcome).outcome = outcome
      BY AnsweredLemma
    <2>2. worker[w].payment \in Payments
      BY <1>4 DEF Send
    <2>3. Processed(bot[worker[w].payment], outcome) \in Bot
      BY <2>2, ProcessedLemma
    <2> QED BY <1>4, <2>1, <2>2, <2>3 DEF Send
  <1>5. ASSUME NEW w \in Workers, RecordAttemptResult(w) PROVE TypeOK'
    <2>1. /\ RecordedDelivery(w) \in Delivery
          /\ RecordedStatus(w) \in {"bot_notify_pending", "bot_notify_accepted",
                                    "manual_review"}
      BY <1>5, RecordedLemma DEF RecordAttemptResult
    <2> QED BY <1>5, <2>1 DEF RecordAttemptResult, IdleWorker, Worker, PaymentStatus
  <1>6. ASSUME NEW w \in Workers, DiscardAttemptResult(w) PROVE TypeOK'
    BY <1>6 DEF DiscardAttemptResult, IdleWorker, Worker
  <1>7. ASSUME NEW w \in Workers, Crash(w) PROVE TypeOK'
    <2>1. IdleWorker \in Worker /\ IdleWorker.pc = "idle"
      BY DEF IdleWorker, Worker
    <2>2. bot' \in [Payments -> Bot]
      BY <1>7 DEF Crash, Bot
    <2> QED BY <1>7, <2>1, <2>2 DEF Crash
  <1>8. ASSUME NEW w \in Workers, ReleaseStaleClaims(w) PROVE TypeOK'
    <2>1. \A p \in Payments :
             /\ RecoveredDelivery(p) \in Delivery
             /\ RecoveredStatus(p) \in {"bot_notify_pending", "manual_review"}
      BY RecoveredLemma
    <2> QED BY <1>8, <2>1 DEF ReleaseStaleClaims, PaymentStatus
  <1>9. ASSUME NEW p \in Payments, ManualAccept(p) PROVE TypeOK'
    <2>1. AcceptedState(delivery[p]) \in Delivery
      BY AcceptedStateLemma
    <2>2. bot' \in [Payments -> Bot]
      BY <1>9 DEF ManualAccept, Bot
    <2> QED BY <1>9, <2>1, <2>2 DEF ManualAccept, PaymentStatus
  <1>10. ASSUME NEW p \in Payments, ReviewAcknowledge(p) PROVE TypeOK'
    <2>1. delivery' \in [Payments -> Delivery]
      BY <1>10 DEF ReviewAcknowledge, Delivery
    <2> QED BY <1>10, <2>1 DEF ReviewAcknowledge
  <1>11. ASSUME NEW p \in Payments, ReviewResolve(p) PROVE TypeOK'
    <2>1. [delivery[p] EXCEPT !.review = "resolved"] \in Delivery
      BY DEF Delivery
    <2>2. delivery' = [delivery EXCEPT ![p] = [delivery[p] EXCEPT !.review = "resolved"]]
      BY <1>11 DEF ReviewResolve
    <2> QED BY <1>11, <2>1, <2>2 DEF ReviewResolve
  <1>12. ASSUME NEW p \in Payments, ReviewResend(p) PROVE TypeOK'
    <2>1. RequeuedState(delivery[p]) \in Delivery
      BY RequeuedStateLemma
    <2> QED BY <1>12, <2>1 DEF ReviewResend, PaymentStatus
  <1>13. ASSUME NEW S \in SUBSET Payments, ResolveReviews(S) PROVE TypeOK'
    <2>1. \A p \in Payments : [delivery[p] EXCEPT !.review = "resolved"] \in Delivery
      BY ReviewColumnLemma
    <2>2. delivery' \in [Payments -> Delivery]
      BY <1>13, <2>1 DEF ResolveReviews
    <2> QED BY <1>13, <2>2 DEF ResolveReviews
  <1>14. ASSUME RequeueFailedDeliveries PROVE TypeOK'
    <2>1. \A p \in Payments : RequeuedState(delivery[p]) \in Delivery
      BY RequeuedStateLemma
    <2> QED BY <1>14, <2>1 DEF RequeueFailedDeliveries, PaymentStatus
  <1>15. ASSUME NEW p \in Payments, RetryComesDue(p) PROVE TypeOK'
    BY <1>15 DEF RetryComesDue, Delivery
  <1>16. ASSUME NEW p \in Payments, ClaimGoesStale(p) PROVE TypeOK'
    BY <1>16 DEF ClaimGoesStale, Delivery
  <1>17. CASE UNCHANGED vars
    BY <1>17 DEF vars
  <1> QED
    BY <1>1, <1>2, <1>3, <1>4, <1>5, <1>6, <1>7, <1>8, <1>9, <1>10, <1>11, <1>12,
       <1>13, <1>14, <1>15, <1>16, <1>17
       DEF Next, Handover, DeliveryStep, WorkerStep, OperatorStep, TimePasses

(* Every value the delivery code writes stays in its column's domain, for  *)
(* any number of payments and workers, in either retry mode.               *)
THEOREM TypeCorrect == Spec => []TypeOK
  BY TypeInit, TypeStep, PTL DEF Spec

-----------------------------------------------------------------------------
(* Attempts. *)

(* AttemptsBounded is not inductive: a claim adds one.  What is preserved  *)
(* is that a payment waiting to be claimed is strictly below its limit.    *)
AttemptsInv ==
    /\ AttemptsBounded
    /\ \A p \in Payments :
          /\ Pending(p) /\ delivery[p].claim = "none" =>
                delivery[p].attempts < MaxAttempts + resends[p]
          /\ status[p] = "link_created" => delivery[p].attempts = 0

LEMMA AttemptsInit == Init => AttemptsInv
  BY DEF Init, AttemptsInv, AttemptsBounded, Pending

LEMMA AttemptsStep == TypeOK /\ AttemptsInv /\ [Next]_vars => AttemptsInv'
  <1> SUFFICES ASSUME TypeOK, AttemptsInv, [Next]_vars PROVE AttemptsInv'
    OBVIOUS
  <1> USE DEF AttemptsInv, AttemptsBounded, Pending
  <1>0. \A p \in Payments : delivery[p] \in Delivery /\ delivery[p].attempts \in Nat
                            /\ resends[p] \in Nat
    BY DEF TypeOK, Delivery
  <1>1. ASSUME NEW p \in Payments, QueueNotification(p) PROVE AttemptsInv'
    <2>1. QueuedState(delivery[p]).attempts = delivery[p].attempts
      BY <1>0, QueuedStateLemma
    <2> QED BY <1>0, <1>1, <2>1 DEF QueueNotification, TypeOK
  <1>2. ASSUME NEW p \in Payments, FinancialReview(p) PROVE AttemptsInv'
    BY <1>0, <1>2 DEF FinancialReview, TypeOK
  <1>3. ASSUME NEW w \in Workers, NEW p \in Payments, ClaimNextDue(w, p) PROVE AttemptsInv'
    <2>1. /\ ClaimedState(delivery[p], w).attempts = delivery[p].attempts + 1
          /\ ClaimedState(delivery[p], w).claim = "fresh"
      BY <1>0, ClaimedStateLemma
    <2> QED BY <1>0, <1>3, <2>1 DEF ClaimNextDue, Claimable, TypeOK
  <1>4. ASSUME NEW w \in Workers, NEW outcome \in Outcomes, Send(w, outcome) PROVE AttemptsInv'
    BY <1>4 DEF Send
  <1>5. ASSUME NEW w \in Workers, RecordAttemptResult(w) PROVE AttemptsInv'
    <2> DEFINE p == worker[w].payment
    <2>1. p \in Payments
      BY <1>5 DEF RecordAttemptResult, TypeOK
    <2>2. /\ RecordedDelivery(w).attempts = delivery[p].attempts
          /\ RecordedStatus(w) # "link_created"
          /\ RecordedStatus(w) = "bot_notify_pending" => worker[w].attempt < MaxAttempts
      BY <1>5, RecordedLemma DEF RecordAttemptResult
    <2>3. delivery[p].attempts = worker[w].attempt
      BY <1>5 DEF RecordAttemptResult, OwnsClaim
    <2> QED BY <1>0, <1>5, <2>1, <2>2, <2>3 DEF RecordAttemptResult, TypeOK
  <1>6. ASSUME NEW w \in Workers, DiscardAttemptResult(w) PROVE AttemptsInv'
    BY <1>6 DEF DiscardAttemptResult
  <1>7. ASSUME NEW w \in Workers, Crash(w) PROVE AttemptsInv'
    BY <1>7 DEF Crash
  <1>8. ASSUME NEW w \in Workers, ReleaseStaleClaims(w) PROVE AttemptsInv'
    <2>1. \A p \in Payments :
             /\ RecoveredDelivery(p).attempts = delivery[p].attempts
             /\ RecoveredStatus(p) # "link_created"
             /\ RecoveredStatus(p) = "bot_notify_pending" => delivery[p].attempts < MaxAttempts
      BY RecoveredLemma
    <2> QED BY <1>0, <1>8, <2>1 DEF ReleaseStaleClaims, TypeOK
  <1>9. ASSUME NEW p \in Payments, ManualAccept(p) PROVE AttemptsInv'
    <2>1. AcceptedState(delivery[p]).attempts = delivery[p].attempts
      BY <1>0, AcceptedStateLemma
    <2> QED BY <1>0, <1>9, <2>1 DEF ManualAccept, TypeOK
  <1>10. ASSUME NEW p \in Payments, ReviewAcknowledge(p) PROVE AttemptsInv'
    BY <1>0, <1>10 DEF ReviewAcknowledge, TypeOK, Delivery
  <1>11. ASSUME NEW p \in Payments, ReviewResolve(p) PROVE AttemptsInv'
    BY <1>0, <1>11 DEF ReviewResolve, TypeOK, Delivery
  <1>12. ASSUME NEW p \in Payments, ReviewResend(p) PROVE AttemptsInv'
    <2>1. RequeuedState(delivery[p]).attempts = delivery[p].attempts
      BY <1>0, RequeuedStateLemma
    <2> QED BY <1>0, <1>12, <2>1 DEF ReviewResend, TypeOK
  <1>13. ASSUME NEW S \in SUBSET Payments, ResolveReviews(S) PROVE AttemptsInv'
    <2>1. \A p \in Payments :
             /\ [delivery[p] EXCEPT !.review = "resolved"].attempts = delivery[p].attempts
             /\ [delivery[p] EXCEPT !.review = "resolved"].claim = delivery[p].claim
      BY <1>0, ReviewColumnLemma
    <2>2. \A p \in Payments : /\ delivery'[p].attempts = delivery[p].attempts
                              /\ delivery'[p].claim = delivery[p].claim
      BY <1>13, <2>1 DEF ResolveReviews
    <2> QED BY <1>13, <2>2 DEF ResolveReviews
  <1>14. ASSUME RequeueFailedDeliveries PROVE AttemptsInv'
    <2>1. \A p \in Payments : RequeuedState(delivery[p]).attempts = delivery[p].attempts
      BY <1>0, RequeuedStateLemma
    <2> QED BY <1>0, <1>14, <2>1 DEF RequeueFailedDeliveries, TypeOK
  <1>15. ASSUME NEW p \in Payments, RetryComesDue(p) PROVE AttemptsInv'
    BY <1>0, <1>15 DEF RetryComesDue, TypeOK, Delivery
  <1>16. ASSUME NEW p \in Payments, ClaimGoesStale(p) PROVE AttemptsInv'
    BY <1>0, <1>16 DEF ClaimGoesStale, TypeOK, Delivery
  <1>17. CASE UNCHANGED vars
    BY <1>17 DEF vars
  <1> QED
    BY <1>1, <1>2, <1>3, <1>4, <1>5, <1>6, <1>7, <1>8, <1>9, <1>10, <1>11, <1>12,
       <1>13, <1>14, <1>15, <1>16, <1>17
       DEF Next, Handover, DeliveryStep, WorkerStep, OperatorStep, TimePasses

(* Whatever the bot answers and however workers and operators interleave,  *)
(* a payment is sent at most BOT_NOTIFY_MAX_ATTEMPTS times plus once per   *)
(* operator requeue.                                                       *)
THEOREM AttemptsAreBounded == Spec => []AttemptsBounded
  <1>1. AttemptsInv => AttemptsBounded
    BY DEF AttemptsInv
  <1> QED BY <1>1, TypeCorrect, AttemptsInit, AttemptsStep, PTL DEF Spec

-----------------------------------------------------------------------------
(* At most one delivery in safe mode. *)

Holds(w, p) == worker[w].pc # "idle" /\ worker[w].payment = p

(* A payment that may still be claimed has never reached the bot and is in *)
(* nobody's memory; a worker that has it, and has not seen it reach the    *)
(* bot, is the only one that has it.                                       *)
SafeInv ==
    RetryMode = "safe" => \A p \in Payments :
        /\ bot[p].effects <= 1
        /\ status[p] = "link_created" \/ (Pending(p) /\ delivery[p].claim = "none") =>
              bot[p].effects = 0 /\ \A w \in Workers : ~Holds(w, p)
        /\ \A w \in Workers :
              Holds(w, p) /\ (worker[w].pc = "claimed" \/ worker[w].outcome \notin SideEffecting)
                 => bot[p].effects = 0
        /\ \A v, w \in Workers : Holds(v, p) /\ Holds(w, p) => v = w

LEMMA SafeInit == Init => SafeInv
  BY DEF Init, SafeInv, Holds, IdleWorker

LEMMA SafeStep == TypeOK /\ SafeInv /\ [Next]_vars => SafeInv'
  <1> SUFFICES ASSUME TypeOK, SafeInv, [Next]_vars, RetryMode = "safe" PROVE SafeInv'
    BY DEF SafeInv
  <1> USE DEF SafeInv, Holds, Pending
  <1>0. \A p \in Payments : delivery[p] \in Delivery /\ bot[p] \in Bot /\ bot[p].effects \in Nat
    BY DEF TypeOK, Bot
  <1>1. ASSUME NEW p \in Payments, QueueNotification(p) PROVE SafeInv'
    <2>1. QueuedState(delivery[p]).claim = delivery[p].claim
      BY <1>0, QueuedStateLemma
    <2> QED BY <1>0, <1>1, <2>1 DEF QueueNotification, TypeOK
  <1>2. ASSUME NEW p \in Payments, FinancialReview(p) PROVE SafeInv'
    BY <1>0, <1>2 DEF FinancialReview, TypeOK
  <1>3. ASSUME NEW w \in Workers, NEW p \in Payments, ClaimNextDue(w, p) PROVE SafeInv'
    <2>1. ClaimedState(delivery[p], w).claim = "fresh"
      BY <1>0, ClaimedStateLemma
    <2> QED BY <1>0, <1>3, <2>1 DEF ClaimNextDue, Claimable, TypeOK
  <1>4. ASSUME NEW w \in Workers, NEW outcome \in Outcomes, Send(w, outcome) PROVE SafeInv'
    <2> DEFINE p == worker[w].payment
    <2>1. p \in Payments /\ Holds(w, p) /\ bot[p].effects = 0
      BY <1>0, <1>4 DEF Send, TypeOK
    <2>2. /\ outcome \in SideEffecting => Processed(bot[p], outcome).effects = 1
          /\ outcome \notin SideEffecting => Processed(bot[p], outcome).effects = 0
      BY <1>0, <2>1, ProcessedLemma
    <2>3. /\ Answered(worker[w], outcome).pc = "answered"
          /\ Answered(worker[w], outcome).payment = p
          /\ Answered(worker[w], outcome).outcome = outcome
      BY AnsweredLemma DEF TypeOK
    <2>4. /\ \A q \in Payments : bot'[q] = IF q = p THEN Processed(bot[p], outcome) ELSE bot[q]
          /\ \A v \in Workers : worker'[v] = IF v = w THEN Answered(worker[w], outcome)
                                                      ELSE worker[v]
          /\ status' = status /\ delivery' = delivery
      BY <1>4, <2>1 DEF Send, TypeOK
    <2> QED BY <1>0, <2>1, <2>2, <2>3, <2>4
  <1>5. ASSUME NEW w \in Workers, RecordAttemptResult(w) PROVE SafeInv'
    <2> DEFINE p == worker[w].payment
    <2>1. p \in Payments /\ Holds(w, p)
      BY <1>5 DEF RecordAttemptResult, TypeOK
    <2>2. /\ RecordedStatus(w) # "link_created"
          /\ RecordedStatus(w) = "bot_notify_pending" => worker[w].outcome \notin SideEffecting
      BY <1>5, RecordedLemma DEF RecordAttemptResult
    <2>3. /\ \A v \in Workers : worker'[v] = IF v = w THEN IdleWorker ELSE worker[v]
          /\ IdleWorker.pc = "idle"
          /\ status'[p] = RecordedStatus(w)
          /\ \A q \in Payments \ {p} : status'[q] = status[q] /\ delivery'[q] = delivery[q]
          /\ bot' = bot
      BY <1>5, <2>1 DEF RecordAttemptResult, IdleWorker, TypeOK
    <2> QED BY <1>0, <2>1, <2>2, <2>3
  <1>6. ASSUME NEW w \in Workers, DiscardAttemptResult(w) PROVE SafeInv'
    BY <1>0, <1>6 DEF DiscardAttemptResult, IdleWorker, TypeOK
  <1>7. ASSUME NEW w \in Workers, Crash(w) PROVE SafeInv'
    <2> DEFINE p == worker[w].payment
    <2>1. p \in Payments /\ Holds(w, p)
      BY <1>7 DEF Crash, TypeOK
    <2>2. /\ \A v \in Workers : worker'[v] = IF v = w THEN IdleWorker ELSE worker[v]
          /\ IdleWorker.pc = "idle"
          /\ status' = status /\ delivery' = delivery
          /\ \A q \in Payments \ {p} : bot'[q] = bot[q]
          /\ \/ bot'[p].effects = bot[p].effects
             \/ worker[w].pc = "claimed" /\ bot'[p].effects = bot[p].effects + 1
      BY <1>0, <1>7, <2>1 DEF Crash, IdleWorker, TypeOK, Bot
    <2> QED BY <1>0, <2>1, <2>2
  <1>8. ASSUME NEW w \in Workers, ReleaseStaleClaims(w) PROVE SafeInv'
    <2>1. \A p \in Payments : RecoveredStatus(p) = "manual_review"
      BY RecoveredLemma
    <2> QED BY <1>0, <1>8, <2>1 DEF ReleaseStaleClaims, TypeOK
  <1>9. ASSUME NEW p \in Payments, ManualAccept(p) PROVE SafeInv'
    <2>1. /\ status'[p] = "bot_notify_accepted" /\ worker' = worker
          /\ \A q \in Payments \ {p} : status'[q] = status[q] /\ delivery'[q] = delivery[q]
          /\ \A q \in Payments : bot'[q].effects = bot[q].effects
      BY <1>0, <1>9 DEF ManualAccept, TypeOK, Bot
    <2> QED BY <1>0, <2>1
  <1>10. ASSUME NEW p \in Payments, ReviewAcknowledge(p) PROVE SafeInv'
    BY <1>0, <1>10 DEF ReviewAcknowledge, TypeOK, Delivery
  <1>11. ASSUME NEW p \in Payments, ReviewResolve(p) PROVE SafeInv'
    BY <1>0, <1>11 DEF ReviewResolve, TypeOK, Delivery
  <1>12. ASSUME NEW p \in Payments, ReviewResend(p) PROVE SafeInv'
    BY <1>12 DEF ReviewResend
  <1>13. ASSUME NEW S \in SUBSET Payments, ResolveReviews(S) PROVE SafeInv'
    <2>1. \A p \in Payments :
             [delivery[p] EXCEPT !.review = "resolved"].claim = delivery[p].claim
      BY <1>0, ReviewColumnLemma
    <2>2. \A p \in Payments : delivery'[p].claim = delivery[p].claim
      BY <1>13, <2>1 DEF ResolveReviews
    <2> QED BY <1>0, <1>13, <2>2 DEF ResolveReviews
  <1>14. ASSUME RequeueFailedDeliveries PROVE SafeInv'
    BY <1>14 DEF RequeueFailedDeliveries
  <1>15. ASSUME NEW p \in Payments, RetryComesDue(p) PROVE SafeInv'
    BY <1>0, <1>15 DEF RetryComesDue, TypeOK, Delivery
  <1>16. ASSUME NEW p \in Payments, ClaimGoesStale(p) PROVE SafeInv'
    BY <1>0, <1>16 DEF ClaimGoesStale, TypeOK, Delivery
  <1>17. CASE UNCHANGED vars
    BY <1>17 DEF vars
  <1> QED
    BY <1>1, <1>2, <1>3, <1>4, <1>5, <1>6, <1>7, <1>8, <1>9, <1>10, <1>11, <1>12,
       <1>13, <1>14, <1>15, <1>16, <1>17
       DEF Next, Handover, DeliveryStep, WorkerStep, OperatorStep, TimePasses

(* In safe mode no payment's notification is ever processed twice by the   *)
(* bot, for any number of workers and payments.                            *)
THEOREM DeliveredAtMostOnce == Spec => []SafeModeAtMostOnce
  <1>1. SafeInv => SafeModeAtMostOnce
    BY DEF SafeInv, SafeModeAtMostOnce
  <1> QED BY <1>1, TypeCorrect, SafeInit, SafeStep, PTL DEF Spec

-----------------------------------------------------------------------------
(* Acceptance is justified, and nothing is stranded. *)

(* A verified status means gateway_verified_at is set, and a 2xx in a      *)
(* worker's memory was really given for the payment it holds.              *)
JustifiedInv ==
    /\ AcceptedIsJustified
    /\ NoStrandedPayment
    /\ \A p \in Payments : status[p] \in VERIFIED_STATUSES => verified[p]
    /\ \A w \in Workers : worker[w].pc = "answered" /\ worker[w].outcome = "accepted" =>
          bot[worker[w].payment].acked

LEMMA JustifiedInit == Init => JustifiedInv
  BY DEF Init, JustifiedInv, AcceptedIsJustified, NoStrandedPayment, Pending,
         VERIFIED_STATUSES, IdleWorker

LEMMA JustifiedStep == TypeOK /\ JustifiedInv /\ [Next]_vars => JustifiedInv'
  <1> SUFFICES ASSUME TypeOK, JustifiedInv, [Next]_vars PROVE JustifiedInv'
    OBVIOUS
  <1> USE DEF JustifiedInv, AcceptedIsJustified, NoStrandedPayment, Pending, VERIFIED_STATUSES
  <1>0. \A p \in Payments : /\ delivery[p] \in Delivery
                            /\ bot[p] \in Bot
                            /\ delivery[p].claim \in {"none", "fresh", "stale"}
    BY DEF TypeOK, Delivery
  <1>1. ASSUME NEW p \in Payments, QueueNotification(p) PROVE JustifiedInv'
    <2>1. /\ QueuedState(delivery[p]).claim = delivery[p].claim
          /\ QueuedState(delivery[p]).retry = "due"
      BY <1>0, QueuedStateLemma
    <2> QED BY <1>0, <1>1, <2>1 DEF QueueNotification, TypeOK
  <1>2. ASSUME NEW p \in Payments, FinancialReview(p) PROVE JustifiedInv'
    BY <1>0, <1>2 DEF FinancialReview, TypeOK
  <1>3. ASSUME NEW w \in Workers, NEW p \in Payments, ClaimNextDue(w, p) PROVE JustifiedInv'
    <2>1. /\ ClaimedState(delivery[p], w).claim = "fresh"
          /\ ClaimedState(delivery[p], w).by = w
      BY <1>0, ClaimedStateLemma
    <2> QED BY <1>0, <1>3, <2>1 DEF ClaimNextDue, Claimable, TypeOK
  <1>4. ASSUME NEW w \in Workers, NEW outcome \in Outcomes, Send(w, outcome) PROVE JustifiedInv'
    <2> DEFINE p == worker[w].payment
    <2>1. p \in Payments
      BY <1>4 DEF Send, TypeOK
    <2>2. /\ bot[p].acked \/ outcome = "accepted" => Processed(bot[p], outcome).acked
          /\ Processed(bot[p], outcome).told = bot[p].told
      BY <1>0, <2>1, ProcessedLemma
    <2>3. /\ Answered(worker[w], outcome).payment = p
          /\ Answered(worker[w], outcome).outcome = outcome
      BY AnsweredLemma DEF TypeOK
    <2>4. /\ \A q \in Payments : bot'[q] = IF q = p THEN Processed(bot[p], outcome) ELSE bot[q]
          /\ \A v \in Workers : worker'[v] = IF v = w THEN Answered(worker[w], outcome)
                                                      ELSE worker[v]
          /\ status' = status /\ delivery' = delivery /\ verified' = verified
      BY <1>4, <2>1 DEF Send, TypeOK
    <2>5. \A q \in Payments : /\ bot[q].acked => bot'[q].acked
                              /\ bot[q].told => bot'[q].told
      BY <2>2, <2>4
    <2>6. \A v \in Workers : worker'[v].pc = "answered" /\ worker'[v].outcome = "accepted" =>
             bot'[worker'[v].payment].acked
      BY <2>1, <2>2, <2>3, <2>4 DEF TypeOK
    <2> QED BY <2>4, <2>5, <2>6
  <1>5. ASSUME NEW w \in Workers, RecordAttemptResult(w) PROVE JustifiedInv'
    <2> DEFINE p == worker[w].payment
    <2>1. /\ p \in Payments
          /\ status[p] = "bot_notify_pending"
          /\ worker[w].outcome = "accepted" => bot[p].acked
      BY <1>5 DEF RecordAttemptResult, OwnsClaim, TypeOK
    <2>2. /\ RecordedDelivery(w).claim = "none"
          /\ RecordedDelivery(w).by = NoOne
          /\ RecordedStatus(w) = "bot_notify_pending" => RecordedDelivery(w).retry = "later"
          /\ RecordedStatus(w) = "bot_notify_accepted" => worker[w].outcome = "accepted"
      BY <1>5, RecordedLemma DEF RecordAttemptResult
    <2>3. /\ \A v \in Workers : worker'[v] = IF v = w THEN IdleWorker ELSE worker[v]
          /\ IdleWorker.pc = "idle"
          /\ status'[p] = RecordedStatus(w) /\ delivery'[p] = RecordedDelivery(w)
          /\ \A q \in Payments \ {p} : status'[q] = status[q] /\ delivery'[q] = delivery[q]
          /\ bot' = bot /\ verified' = verified
      BY <1>5, <2>1 DEF RecordAttemptResult, IdleWorker, TypeOK
    <2> QED BY <2>1, <2>2, <2>3
  <1>6. ASSUME NEW w \in Workers, DiscardAttemptResult(w) PROVE JustifiedInv'
    BY <1>0, <1>6 DEF DiscardAttemptResult, IdleWorker, TypeOK
  <1>7. ASSUME NEW w \in Workers, Crash(w) PROVE JustifiedInv'
    <2> DEFINE p == worker[w].payment
    <2>1. p \in Payments
      BY <1>7 DEF Crash, TypeOK
    <2>2. /\ \A v \in Workers : worker'[v] = IF v = w THEN IdleWorker ELSE worker[v]
          /\ IdleWorker.pc = "idle"
          /\ status' = status /\ delivery' = delivery /\ verified' = verified
          /\ \A q \in Payments : bot'[q].acked = bot[q].acked /\ bot'[q].told = bot[q].told
      BY <1>0, <1>7, <2>1 DEF Crash, IdleWorker, TypeOK, Bot
    <2> QED BY <2>1, <2>2 DEF TypeOK
  <1>8. ASSUME NEW w \in Workers, ReleaseStaleClaims(w) PROVE JustifiedInv'
    <2>1. \A p \in Payments :
             /\ RecoveredDelivery(p).claim = "none"
             /\ RecoveredDelivery(p).by = NoOne
             /\ RecoveredStatus(p) \in {"bot_notify_pending", "manual_review"}
             /\ RecoveredStatus(p) = "bot_notify_pending" => RecoveredDelivery(p).retry = "later"
      BY RecoveredLemma
    <2> QED BY <1>0, <1>8, <2>1 DEF ReleaseStaleClaims, StaleClaims, TypeOK
  <1>9. ASSUME NEW p \in Payments, ManualAccept(p) PROVE JustifiedInv'
    <2>1. /\ AcceptedState(delivery[p]).claim = "none"
          /\ AcceptedState(delivery[p]).by = NoOne
      BY <1>0, AcceptedStateLemma
    <2>2. /\ status'[p] = "bot_notify_accepted" /\ delivery'[p] = AcceptedState(delivery[p])
          /\ verified[p] /\ bot'[p].told
          /\ worker' = worker /\ verified' = verified
          /\ \A q \in Payments \ {p} : status'[q] = status[q] /\ delivery'[q] = delivery[q]
                                       /\ bot'[q] = bot[q]
          /\ \A q \in Payments : bot'[q].acked = bot[q].acked
      BY <1>0, <1>9 DEF ManualAccept, TypeOK, Bot
    <2> QED BY <2>1, <2>2 DEF TypeOK
  <1>10. ASSUME NEW p \in Payments, ReviewAcknowledge(p) PROVE JustifiedInv'
    BY <1>0, <1>10 DEF ReviewAcknowledge, TypeOK, Delivery
  <1>11. ASSUME NEW p \in Payments, ReviewResolve(p) PROVE JustifiedInv'
    BY <1>0, <1>11 DEF ReviewResolve, TypeOK, Delivery
  <1>12. ASSUME NEW p \in Payments, ReviewResend(p) PROVE JustifiedInv'
    <2>1. /\ RequeuedState(delivery[p]).claim = "none"
          /\ RequeuedState(delivery[p]).retry = "due"
      BY <1>0, RequeuedStateLemma
    <2> QED BY <1>0, <1>12, <2>1 DEF ReviewResend, TypeOK
  <1>13. ASSUME NEW S \in SUBSET Payments, ResolveReviews(S) PROVE JustifiedInv'
    <2>1. \A p \in Payments :
             /\ [delivery[p] EXCEPT !.review = "resolved"].claim = delivery[p].claim
             /\ [delivery[p] EXCEPT !.review = "resolved"].by = delivery[p].by
             /\ [delivery[p] EXCEPT !.review = "resolved"].retry = delivery[p].retry
      BY <1>0, ReviewColumnLemma
    <2>2. \A p \in Payments : /\ delivery'[p].claim = delivery[p].claim
                              /\ delivery'[p].by = delivery[p].by
                              /\ delivery'[p].retry = delivery[p].retry
      BY <1>13, <2>1 DEF ResolveReviews
    <2> QED BY <1>13, <2>2 DEF ResolveReviews
  <1>14. ASSUME RequeueFailedDeliveries PROVE JustifiedInv'
    <2>1. \A p \in Payments : /\ RequeuedState(delivery[p]).claim = "none"
                              /\ RequeuedState(delivery[p]).retry = "due"
      BY <1>0, RequeuedStateLemma
    <2> QED BY <1>0, <1>14, <2>1 DEF RequeueFailedDeliveries, Resendable, BulkResendable, TypeOK
  <1>15. ASSUME NEW p \in Payments, RetryComesDue(p) PROVE JustifiedInv'
    BY <1>0, <1>15 DEF RetryComesDue, TypeOK, Delivery
  <1>16. ASSUME NEW p \in Payments, ClaimGoesStale(p) PROVE JustifiedInv'
    BY <1>0, <1>16 DEF ClaimGoesStale, TypeOK, Delivery
  <1>17. CASE UNCHANGED vars
    BY <1>17 DEF vars
  <1> QED
    BY <1>1, <1>2, <1>3, <1>4, <1>5, <1>6, <1>7, <1>8, <1>9, <1>10, <1>11, <1>12,
       <1>13, <1>14, <1>15, <1>16, <1>17
       DEF Next, Handover, DeliveryStep, WorkerStep, OperatorStep, TimePasses

(* A payment is recorded as accepted only after a 2xx for that payment or  *)
(* an operator's attestation, and only if the gateway verified it.         *)
THEOREM AcceptanceIsJustified == Spec => []AcceptedIsJustified
  <1>1. JustifiedInv => AcceptedIsJustified
    BY DEF JustifiedInv
  <1> QED BY <1>1, TypeCorrect, JustifiedInit, JustifiedStep, PTL DEF Spec

(* Every pending payment is claimed or scheduled, and no claim survives on *)
(* a payment that is not pending: the claim query and stale-claim recovery *)
(* between them reach every payment that still has to be delivered.        *)
THEOREM NothingIsStranded == Spec => []NoStrandedPayment
  <1>1. JustifiedInv => NoStrandedPayment
    BY DEF JustifiedInv
  <1> QED BY <1>1, TypeCorrect, JustifiedInit, JustifiedStep, PTL DEF Spec

-----------------------------------------------------------------------------
(* What a worklist may conclude from the columns. *)

(* Only a verified payment is held by a worker or carries a delivery       *)
(* reason, and a verified payment under review carries one.                *)
ReasonInv ==
    /\ \A p \in Payments :
          /\ verified[p] => status[p] # "link_created"
          /\ delivery[p].reason # "none" => verified[p]
          /\ InReview(p) /\ verified[p] => delivery[p].reason # "none"
    /\ \A w \in Workers : worker[w].pc # "idle" => verified[worker[w].payment]

LEMMA ReasonInit == Init => ReasonInv
  BY DEF Init, ReasonInv, InReview, IdleWorker

LEMMA ReasonStep == TypeOK /\ JustifiedInv /\ ReasonInv /\ [Next]_vars => ReasonInv'
  <1> SUFFICES ASSUME TypeOK, JustifiedInv, ReasonInv, [Next]_vars PROVE ReasonInv'
    OBVIOUS
  <1> USE DEF ReasonInv, Pending, InReview
  <1>0. /\ \A p \in Payments : delivery[p] \in Delivery /\ bot[p] \in Bot
        /\ \A p \in Payments : Pending(p) => verified[p]
        /\ IdleWorker.pc = "idle"
    BY DEF TypeOK, JustifiedInv, VERIFIED_STATUSES, IdleWorker
  <1>1. ASSUME NEW p \in Payments, QueueNotification(p) PROVE ReasonInv'
    <2>1. QueuedState(delivery[p]).reason = "none"
      BY <1>0, QueuedStateLemma
    <2> QED BY <1>0, <1>1, <2>1 DEF QueueNotification, TypeOK
  <1>2. ASSUME NEW p \in Payments, FinancialReview(p) PROVE ReasonInv'
    BY <1>0, <1>2 DEF FinancialReview, TypeOK
  <1>3. ASSUME NEW w \in Workers, NEW p \in Payments, ClaimNextDue(w, p) PROVE ReasonInv'
    <2>1. ClaimedState(delivery[p], w).reason = delivery[p].reason
      BY <1>0, ClaimedStateLemma
    <2>2. /\ verified[p] /\ UNCHANGED <<status, verified>>
          /\ \A v \in Workers \ {w} : worker'[v] = worker[v]
          /\ worker'[w].payment = p
      BY <1>3 DEF ClaimNextDue, Claimable, TypeOK
    <2>3. \A q \in Payments : delivery'[q].reason = delivery[q].reason
      BY <1>3, <2>1 DEF ClaimNextDue, TypeOK
    <2> QED BY <2>2, <2>3
  <1>4. ASSUME NEW w \in Workers, NEW outcome \in Outcomes, Send(w, outcome) PROVE ReasonInv'
    <2>1. Answered(worker[w], outcome).payment = worker[w].payment
      BY AnsweredLemma DEF TypeOK
    <2> QED BY <1>4, <2>1 DEF Send, TypeOK
  <1>5. ASSUME NEW w \in Workers, RecordAttemptResult(w) PROVE ReasonInv'
    <2> DEFINE p == worker[w].payment
    <2>1. p \in Payments /\ status[p] = "bot_notify_pending"
      BY <1>5 DEF RecordAttemptResult, OwnsClaim, TypeOK
    <2>2. /\ RecordedDelivery(w).reason # "none"
          /\ RecordedStatus(w) # "link_created"
      BY <1>5, RecordedLemma DEF RecordAttemptResult
    <2>3. /\ \A v \in Workers : worker'[v] = IF v = w THEN IdleWorker ELSE worker[v]
          /\ status'[p] = RecordedStatus(w) /\ delivery'[p] = RecordedDelivery(w)
          /\ \A q \in Payments \ {p} : status'[q] = status[q] /\ delivery'[q] = delivery[q]
          /\ verified' = verified
      BY <1>5, <2>1 DEF RecordAttemptResult, TypeOK
    <2> QED BY <1>0, <2>1, <2>2, <2>3
  <1>6. ASSUME NEW w \in Workers, DiscardAttemptResult(w) \/ Crash(w) PROVE ReasonInv'
    <2>1. /\ \A v \in Workers : worker'[v] = IF v = w THEN IdleWorker ELSE worker[v]
          /\ UNCHANGED <<status, verified, delivery>>
      BY <1>6 DEF DiscardAttemptResult, Crash, TypeOK
    <2> QED BY <1>0, <2>1
  <1>7. ASSUME NEW w \in Workers, ReleaseStaleClaims(w) PROVE ReasonInv'
    <2>1. \A p \in Payments :
             /\ RecoveredDelivery(p).reason # "none"
             /\ RecoveredStatus(p) \in {"bot_notify_pending", "manual_review"}
      BY RecoveredLemma
    <2> QED BY <1>0, <1>7, <2>1 DEF ReleaseStaleClaims, StaleClaims, TypeOK
  <1>8. ASSUME NEW p \in Payments, ManualAccept(p) PROVE ReasonInv'
    <2>1. /\ verified[p] /\ status'[p] = "bot_notify_accepted"
          /\ \A q \in Payments \ {p} : status'[q] = status[q] /\ delivery'[q] = delivery[q]
          /\ UNCHANGED <<verified, worker>>
      BY <1>8 DEF ManualAccept, TypeOK
    <2> QED BY <2>1
  <1>9. ASSUME NEW p \in Payments, ReviewAcknowledge(p) \/ ReviewResolve(p) PROVE ReasonInv'
    <2>1. \A review \in {"acknowledged", "resolved"} :
             [delivery[p] EXCEPT !.review = review].reason = delivery[p].reason
      BY <1>0, ReviewColumnLemma
    <2>2. /\ \A q \in Payments : delivery'[q].reason = delivery[q].reason
          /\ UNCHANGED <<status, verified, worker>>
      BY <1>9, <2>1 DEF ReviewAcknowledge, ReviewResolve, TypeOK
    <2> QED BY <2>2
  <1>10. ASSUME NEW p \in Payments, ReviewResend(p) PROVE ReasonInv'
    <2>1. RequeuedState(delivery[p]).reason = delivery[p].reason
      BY <1>0, RequeuedStateLemma
    <2> QED BY <1>0, <1>10, <2>1 DEF ReviewResend, TypeOK
  <1>11. ASSUME NEW S \in SUBSET Payments, ResolveReviews(S) PROVE ReasonInv'
    <2>1. \A p \in Payments :
             [delivery[p] EXCEPT !.review = "resolved"].reason = delivery[p].reason
      BY <1>0, ReviewColumnLemma
    <2>2. \A p \in Payments : delivery'[p].reason = delivery[p].reason
      BY <1>11, <2>1 DEF ResolveReviews
    <2> QED BY <1>11, <2>2 DEF ResolveReviews
  <1>12. ASSUME RequeueFailedDeliveries PROVE ReasonInv'
    <2>1. \A p \in Payments : RequeuedState(delivery[p]).reason = delivery[p].reason
      BY <1>0, RequeuedStateLemma
    <2> QED BY <1>0, <1>12, <2>1 DEF RequeueFailedDeliveries, Resendable, BulkResendable, TypeOK
  <1>13. ASSUME NEW p \in Payments, RetryComesDue(p) \/ ClaimGoesStale(p) PROVE ReasonInv'
    BY <1>0, <1>13 DEF RetryComesDue, ClaimGoesStale, TypeOK, Delivery
  <1>14. CASE UNCHANGED vars
    BY <1>14 DEF vars
  <1> QED
    BY <1>1, <1>2, <1>3, <1>4, <1>5, <1>6, <1>7, <1>8, <1>9, <1>10, <1>11, <1>12,
       <1>13, <1>14
       DEF Next, Handover, DeliveryStep, WorkerStep, OperatorStep, TimePasses

(* A delivery reason marks exactly the reviews of verified payments: the   *)
(* column the admin bot's worklists divide reviews by tells money trouble  *)
(* from delivery trouble.                                                  *)
THEOREM ReasonsAreTruthful == Spec => []ReasonInv
  BY TypeCorrect, JustifiedInit, JustifiedStep, ReasonInit, ReasonStep, PTL DEF Spec

-----------------------------------------------------------------------------
(* What no step may do. *)

(* A step that changes the status of a payment takes it out of             *)
(* link_created, out of bot_notify_pending, or, by a requeue, back from    *)
(* manual_review.                                                          *)
LEMMA StatusStep ==
    ASSUME TypeOK, [Next]_vars, NEW q \in Payments, status'[q] # status[q]
    PROVE  \/ status[q] \in {"link_created", "bot_notify_pending"}
           \/ /\ status[q] = "manual_review"
              /\ RetryMode = "idempotent"
              /\ verified[q]
              /\ resends'[q] = resends[q] + 1
  <1> DEFINE Goal == \/ status[q] \in {"link_created", "bot_notify_pending"}
                     \/ /\ status[q] = "manual_review"
                        /\ RetryMode = "idempotent"
                        /\ verified[q]
                        /\ resends'[q] = resends[q] + 1
  <1> USE DEF TypeOK, Pending, InReview
  <1>1. ASSUME NEW p \in Payments, QueueNotification(p) \/ FinancialReview(p) PROVE Goal
    BY <1>1 DEF QueueNotification, FinancialReview
  <1>2. ASSUME NEW w \in Workers, RecordAttemptResult(w) PROVE Goal
    BY <1>2 DEF RecordAttemptResult, OwnsClaim
  <1>3. ASSUME NEW w \in Workers, ReleaseStaleClaims(w) PROVE Goal
    BY <1>3 DEF ReleaseStaleClaims, StaleClaims
  <1>4. ASSUME NEW p \in Payments, ManualAccept(p) PROVE Goal
    BY <1>4 DEF ManualAccept
  <1>5. ASSUME NEW p \in Payments, ReviewResend(p) PROVE Goal
    BY <1>5 DEF ReviewResend
  <1>6. ASSUME RequeueFailedDeliveries PROVE Goal
    BY <1>6 DEF RequeueFailedDeliveries, Resendable, BulkResendable
  <1>7. CASE status' = status
    BY <1>7
  <1> QED
    BY <1>1, <1>2, <1>3, <1>4, <1>5, <1>6, <1>7
       DEF Next, vars, Handover, DeliveryStep, WorkerStep, OperatorStep, TimePasses,
           ClaimNextDue, Send, DiscardAttemptResult, Crash, ReviewAcknowledge,
           ReviewResolve, ResolveReviews, RetryComesDue, ClaimGoesStale

(* No late result, stale-claim recovery or operator command ever moves a   *)
(* payment out of bot_notify_accepted.                                     *)
THEOREM AcceptedStaysAccepted == Spec => AcceptedIsFinal
  <1>1. TypeOK /\ [Next]_vars =>
          [\A p \in Payments : status[p] = "bot_notify_accepted" =>
                                  status'[p] = "bot_notify_accepted"]_vars
    BY StatusStep
  <1> QED BY <1>1, TypeCorrect, PTL DEF Spec, AcceptedIsFinal

(* Only an operator's requeue, in idempotent mode and of a payment the     *)
(* gateway verified, takes a payment out of manual review.                 *)
THEOREM ReviewIsNotBypassed == Spec => ReviewNotBypassed
  <1>1. TypeOK /\ [Next]_vars =>
          [\A p \in Payments : InReview(p) /\ status'[p] # "manual_review" =>
              /\ RetryMode = "idempotent"
              /\ verified[p]
              /\ resends'[p] = resends[p] + 1]_vars
    BY StatusStep DEF InReview
  <1> QED BY <1>1, TypeCorrect, PTL DEF Spec, ReviewNotBypassed

=============================================================================
