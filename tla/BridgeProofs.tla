---------------------------- MODULE BridgeProofs ----------------------------
(***************************************************************************)
(* The whole path of an order, for any orders, workers and limits: what    *)
(* SettlementProofs and NotificationProofs show of the two components      *)
(* holds of the bridge they make up.                                       *)
(***************************************************************************)
EXTENDS Worklist, SettlementProofs, FiniteSetTheorems

(* What is proved of delivery alone, for delivery as the bridge shows it. *)
N == INSTANCE NotificationProofs WITH Payments <- Orders, status <- SeenStatus

NotifyInv == N!TypeOK /\ N!SafeInv /\ N!JustifiedInv /\ N!ReasonInv

LEMMA NotifyInit == N!Init => NotifyInv
  <1> USE DEF N!RetryModeAssumption, N!MaxAttemptsAssumption, N!MaxResendsAssumption,
              N!NoOneAssumption
  <1>1. N!Init => N!TypeOK
    BY N!TypeInit, DeliveryAssumption DEF N!TypeInit
  <1>2. N!Init => N!SafeInv
    BY N!SafeInit, DeliveryAssumption DEF N!SafeInit
  <1>3. N!Init => N!JustifiedInv
    BY N!JustifiedInit, DeliveryAssumption DEF N!JustifiedInit
  <1>4. N!Init => N!ReasonInv
    BY N!ReasonInit, DeliveryAssumption DEF N!ReasonInit
  <1> QED BY <1>1, <1>2, <1>3, <1>4 DEF NotifyInv

LEMMA NotifyStep ==
    ASSUME NotifyInv, [N!Next]_N!vars
    PROVE  NotifyInv'
  <1> USE DEF N!RetryModeAssumption, N!MaxAttemptsAssumption, N!MaxResendsAssumption,
              N!NoOneAssumption
  <1>1. N!TypeOK'
    BY N!TypeStep, DeliveryAssumption DEF N!TypeStep, NotifyInv
  <1>2. N!SafeInv'
    BY N!SafeStep, DeliveryAssumption DEF N!SafeStep, NotifyInv
  <1>3. N!JustifiedInv'
    BY N!JustifiedStep, DeliveryAssumption DEF N!JustifiedStep, NotifyInv
  <1>4. N!ReasonInv'
    BY N!ReasonStep, DeliveryAssumption DEF N!ReasonStep, NotifyInv
  <1> QED BY <1>1, <1>2, <1>3, <1>4 DEF NotifyInv

-----------------------------------------------------------------------------
(* What delivery sees of an order. *)

DELIVERY_STATUSES == {"bot_notify_pending", "bot_notify_accepted", "manual_review"}

LEMMA Seen ==
    ASSUME NEW o \in Orders
    PROVE  /\ SeenStatus[o] = IF status[o] \in DELIVERY_STATUSES THEN status[o] ELSE "link_created"
           /\ Answer(o) = "open" <=> status[o] \notin DELIVERY_STATUSES
  BY DEF SeenStatus, Answer, DELIVERY_STATUSES

LEMMA SeenNext ==
    ASSUME NEW o \in Orders
    PROVE  SeenStatus'[o] = IF status'[o] \in DELIVERY_STATUSES THEN status'[o] ELSE "link_created"
  BY DEF SeenStatus, Answer, DELIVERY_STATUSES

LEMMA SeenSame ==
    ASSUME \A o \in Orders : \/ status'[o] = status[o]
                             \/ /\ status[o] \notin DELIVERY_STATUSES
                                /\ status'[o] \notin DELIVERY_STATUSES
    PROVE  SeenStatus' = SeenStatus
  <1>1. \A o \in Orders : SeenStatus'[o] = SeenStatus[o]
    BY Seen, SeenNext
  <1> QED BY <1>1 DEF SeenStatus

LEMMA SeenMoves ==
    ASSUME NEW f \in [Orders -> DELIVERY_STATUSES \cup {"keep"}],
           \A o \in Orders : status'[o] = IF f[o] = "keep" THEN status[o] ELSE f[o]
    PROVE  SeenStatus' = [o \in Orders |-> IF f[o] = "keep" THEN SeenStatus[o] ELSE f[o]]
  <1>1. \A o \in Orders : SeenStatus'[o] = IF f[o] = "keep" THEN SeenStatus[o] ELSE f[o]
    BY Seen, SeenNext DEF DELIVERY_STATUSES
  <1> QED BY <1>1 DEF SeenStatus

LEMMA SeenOneMove ==
    ASSUME NEW p \in Orders, NEW s \in DELIVERY_STATUSES,
           status'[p] = s, \A o \in Orders \ {p} : status'[o] = status[o]
    PROVE  SeenStatus' = [SeenStatus EXCEPT ![p] = s]
  <1>1. \A o \in Orders : SeenStatus'[o] = IF o = p THEN s ELSE SeenStatus[o]
    BY Seen, SeenNext
  <1> QED BY <1>1 DEF SeenStatus

-----------------------------------------------------------------------------
(* A delivery step of the bridge is a step of delivery alone. *)

LEMMA SameViews ==
    ASSUME NEW o \in Orders
    PROVE  /\ N!Pending(o) <=> D!Pending(o)
           /\ N!InReview(o) <=> D!InReview(o)
  BY Seen DEF N!Pending, D!Pending, N!InReview, D!InReview, DELIVERY_STATUSES

(* The definitions that do not look at the status are the same. *)
LEMMA SameRecords ==
    /\ N!IdleWorker = D!IdleWorker
    /\ N!Outcomes = D!Outcomes
    /\ \A d : N!AcceptedState(d) = D!AcceptedState(d) /\ N!RequeuedState(d) = D!RequeuedState(d)
    /\ \A d : N!QueuedState(d) = D!QueuedState(d)
    /\ \A d, reason : /\ N!ReviewState(d, reason) = D!ReviewState(d, reason)
                      /\ N!RetryState(d, reason) = D!RetryState(d, reason)
    /\ \A outcome : N!EffectiveKind(outcome) = D!EffectiveKind(outcome)
    /\ \A c, outcome : N!Answered(c, outcome) = D!Answered(c, outcome)
    /\ \A b, outcome : N!Processed(b, outcome) = D!Processed(b, outcome)
    /\ \A d, w : N!ClaimedState(d, w) = D!ClaimedState(d, w)
  <1>1. N!IdleWorker = D!IdleWorker /\ N!Outcomes = D!Outcomes
    BY DEF N!IdleWorker, D!IdleWorker, N!Outcomes, D!Outcomes
  <1>2. \A d : N!ClearClaim(d) = D!ClearClaim(d)
    BY DEF N!ClearClaim, D!ClearClaim
  <1>3. /\ \A d : N!AcceptedState(d) = D!AcceptedState(d) /\ N!RequeuedState(d) = D!RequeuedState(d)
        /\ \A d, reason : /\ N!ReviewState(d, reason) = D!ReviewState(d, reason)
                          /\ N!RetryState(d, reason) = D!RetryState(d, reason)
    BY <1>2 DEF N!AcceptedState, D!AcceptedState, N!RequeuedState, D!RequeuedState,
                N!ReviewState, D!ReviewState, N!RetryState, D!RetryState
  <1>4. \A d : N!QueuedState(d) = D!QueuedState(d)
    BY DEF N!QueuedState, D!QueuedState
  <1>5. \A outcome : N!EffectiveKind(outcome) = D!EffectiveKind(outcome)
    BY DEF N!EffectiveKind, D!EffectiveKind, N!Kind, D!Kind
  <1>6. \A c, outcome : N!Answered(c, outcome) = D!Answered(c, outcome)
    BY DEF N!Answered, D!Answered
  <1>7. \A b, outcome : N!Processed(b, outcome) = D!Processed(b, outcome)
    BY DEF N!Processed, D!Processed, N!SideEffecting, D!SideEffecting
  <1>8. \A d, w : N!ClaimedState(d, w) = D!ClaimedState(d, w)
    BY DEF N!ClaimedState, D!ClaimedState
  <1> QED BY <1>1, <1>3, <1>4, <1>5, <1>6, <1>7, <1>8

LEMMA SameResults ==
    /\ \A w : N!RecordedStatus(w) = D!RecordedStatus(w) /\ N!RecordedDelivery(w) = D!RecordedDelivery(w)
    /\ \A p : N!RecoveredStatus(p) = D!RecoveredStatus(p) /\ N!RecoveredDelivery(p) = D!RecoveredDelivery(p)
    /\ \A w : D!RecordedStatus(w) \in DELIVERY_STATUSES
    /\ \A p : D!RecoveredStatus(p) \in DELIVERY_STATUSES
  BY SameRecords
     DEF N!RecordedStatus, D!RecordedStatus, N!RecordedDelivery, D!RecordedDelivery,
         N!RecoveredStatus, D!RecoveredStatus, N!RecoveredDelivery, D!RecoveredDelivery,
         DELIVERY_STATUSES

LEMMA WorkerView ==
    ASSUME TypeOK, N!TypeOK, NEW w \in Workers, D!WorkerStep(w)
    PROVE  N!WorkerStep(w)
  <1>1. worker[w].pc # "idle" => worker[w].payment \in Orders
    BY DEF N!TypeOK
  <1>2. ASSUME D!RecordAttemptResult(w) PROVE N!RecordAttemptResult(w)
    <2> DEFINE p == worker[w].payment
    <2>1. p \in Orders
      BY <1>1, <1>2 DEF D!RecordAttemptResult
    <2>2. SeenStatus' = [SeenStatus EXCEPT ![p] = D!RecordedStatus(w)]
      BY <1>2, <2>1, SeenOneMove, SameResults DEF D!RecordAttemptResult, TypeOK
    <2> QED BY <1>2, <2>1, <2>2, SameViews, SameRecords, SameResults
            DEF D!RecordAttemptResult, N!RecordAttemptResult, D!OwnsClaim, N!OwnsClaim
  <1>3. ASSUME D!ReleaseStaleClaims(w) PROVE N!ReleaseStaleClaims(w)
    <2>1. N!StaleClaims = D!StaleClaims
      BY SameViews DEF N!StaleClaims, D!StaleClaims
    <2>2. \A p \in Orders : SeenStatus'[p] =
             IF p \in D!StaleClaims THEN D!RecoveredStatus(p) ELSE SeenStatus[p]
      BY <1>3, Seen, SeenNext, SameResults DEF D!ReleaseStaleClaims
    <2>3. SeenStatus' = [p \in Orders |->
             IF p \in D!StaleClaims THEN D!RecoveredStatus(p) ELSE SeenStatus[p]]
      BY <2>2 DEF SeenStatus
    <2> QED BY <1>3, <2>1, <2>3, SameResults DEF D!ReleaseStaleClaims, N!ReleaseStaleClaims
  <1>4. CASE status' = status
    <2>1. SeenStatus' = SeenStatus
      BY <1>4, SeenSame
    <2>2. ASSUME NEW p \in Orders, D!ClaimNextDue(w, p) PROVE N!ClaimNextDue(w, p)
      BY <2>1, <2>2, SameViews, SameRecords
         DEF D!ClaimNextDue, N!ClaimNextDue, D!Claimable, N!Claimable
    <2>3. ASSUME NEW outcome \in D!Outcomes, D!Send(w, outcome) PROVE N!Send(w, outcome)
      BY <2>1, <2>3, SameRecords DEF D!Send, N!Send
    <2>4. ASSUME D!DiscardAttemptResult(w) PROVE N!DiscardAttemptResult(w)
      BY <1>1, <2>1, <2>4, SameViews, SameRecords
         DEF D!DiscardAttemptResult, N!DiscardAttemptResult, D!OwnsClaim, N!OwnsClaim
    <2>5. ASSUME D!Crash(w) PROVE N!Crash(w)
      BY <2>1, <2>5, SameRecords DEF D!Crash, N!Crash
    <2> QED BY <2>2, <2>3, <2>4, <2>5, <1>2, <1>3, SameRecords DEF D!WorkerStep, N!WorkerStep
  <1> QED BY <1>4, <1>2, <1>3
          DEF D!WorkerStep, N!WorkerStep, D!ClaimNextDue, D!Send, D!DiscardAttemptResult, D!Crash

LEMMA OperatorView ==
    ASSUME TypeOK, D!OperatorStep \/ D!TimePasses
    PROVE  N!OperatorStep \/ N!TimePasses
  <1>1. ASSUME NEW p \in Orders, D!ManualAccept(p) PROVE N!ManualAccept(p)
    <2>1. SeenStatus' = [SeenStatus EXCEPT ![p] = "bot_notify_accepted"]
      BY <1>1, SeenOneMove DEF D!ManualAccept, TypeOK, DELIVERY_STATUSES
    <2> QED BY <1>1, <2>1, SameViews, SameRecords DEF D!ManualAccept, N!ManualAccept
  <1>2. ASSUME NEW p \in Orders, D!ReviewResend(p) PROVE N!ReviewResend(p)
    <2>1. SeenStatus' = [SeenStatus EXCEPT ![p] = "bot_notify_pending"]
      BY <1>2, SeenOneMove DEF D!ReviewResend, TypeOK, DELIVERY_STATUSES
    <2> QED BY <1>2, <2>1, SameViews, SameRecords DEF D!ReviewResend, N!ReviewResend
  <1>3. ASSUME D!RequeueFailedDeliveries PROVE N!RequeueFailedDeliveries
    <2>1. N!Resendable = D!Resendable
      BY SameViews DEF N!Resendable, D!Resendable, N!BulkResendable, D!BulkResendable,
                       D!ELIGIBLE_RESEND_REASONS, N!ELIGIBLE_RESEND_REASONS
    <2>2. \A p \in Orders : SeenStatus'[p] =
             IF p \in D!Resendable THEN "bot_notify_pending" ELSE SeenStatus[p]
      BY <1>3, Seen, SeenNext DEF D!RequeueFailedDeliveries, DELIVERY_STATUSES
    <2>3. SeenStatus' = [p \in Orders |->
             IF p \in D!Resendable THEN "bot_notify_pending" ELSE SeenStatus[p]]
      BY <2>2 DEF SeenStatus
    <2> QED BY <1>3, <2>1, <2>3, SameRecords DEF D!RequeueFailedDeliveries, N!RequeueFailedDeliveries
  <1>4. CASE status' = status
    <2>1. SeenStatus' = SeenStatus
      BY <1>4, SeenSame
    <2>2. ASSUME NEW p \in Orders, D!ReviewAcknowledge(p) PROVE N!ReviewAcknowledge(p)
      BY <2>1, <2>2, SameViews DEF D!ReviewAcknowledge, N!ReviewAcknowledge
    <2>3. ASSUME NEW p \in Orders, D!ReviewResolve(p) PROVE N!ReviewResolve(p)
      BY <2>1, <2>3, SameViews DEF D!ReviewResolve, N!ReviewResolve
    <2>4. ASSUME NEW S \in SUBSET Orders, D!ResolveReviews(S) PROVE N!ResolveReviews(S)
      <3>1. \A p \in S : D!BulkResolvable(p) => N!BulkResolvable(p)
        BY SameViews DEF D!BulkResolvable, N!BulkResolvable,
                         D!ELIGIBLE_RESEND_REASONS, N!ELIGIBLE_RESEND_REASONS
      <3> QED BY <2>1, <2>4, <3>1 DEF D!ResolveReviews, N!ResolveReviews
    <2>5. ASSUME NEW p \in Orders, D!RetryComesDue(p) PROVE N!RetryComesDue(p)
      BY <2>1, <2>5 DEF D!RetryComesDue, N!RetryComesDue
    <2>6. ASSUME NEW p \in Orders, D!ClaimGoesStale(p) PROVE N!ClaimGoesStale(p)
      BY <2>1, <2>6 DEF D!ClaimGoesStale, N!ClaimGoesStale
    <2> QED BY <2>2, <2>3, <2>4, <2>5, <2>6, <1>1, <1>2, <1>3
            DEF D!OperatorStep, N!OperatorStep, D!TimePasses, N!TimePasses
  <1> QED BY <1>4, <1>1, <1>2, <1>3
          DEF D!OperatorStep, N!OperatorStep, D!TimePasses, D!ReviewAcknowledge,
              D!ReviewResolve, D!ResolveReviews, D!RetryComesDue, D!ClaimGoesStale

LEMMA DeliveryView ==
    ASSUME TypeOK, N!TypeOK, D!DeliveryStep
    PROVE  N!DeliveryStep
  BY WorkerView, OperatorView DEF D!DeliveryStep, N!DeliveryStep

-----------------------------------------------------------------------------
(* Delivery leaves the money path's invariant alone. *)

(* What delivery may do to a status. *)
StatusMoves(o) ==
    \/ status'[o] = status[o]
    \/ status[o] = "bot_notify_pending" /\ status'[o] \in DELIVERY_STATUSES
    \/ status[o] = "manual_review" /\ verified[o] /\ status'[o] = "bot_notify_pending"

LEMMA StatusesMove ==
    ASSUME TypeOK, N!TypeOK, D!DeliveryStep
    PROVE  /\ verified' = verified
           /\ status' \in [Orders -> PaymentStatus]
           /\ \A o \in Orders : StatusMoves(o)
  <1> DEFINE Goal == /\ verified' = verified
                     /\ status' \in [Orders -> PaymentStatus]
                     /\ \A o \in Orders : StatusMoves(o)
  <1>0. /\ status \in [Orders -> PaymentStatus]
        /\ DELIVERY_STATUSES \subseteq PaymentStatus
        /\ \A s : s \in DELIVERY_STATUSES =>
              s \in {"bot_notify_pending", "bot_notify_accepted", "manual_review"}
        /\ {"bot_notify_pending", "bot_notify_accepted"} \subseteq DELIVERY_STATUSES
    BY DEF TypeOK, DELIVERY_STATUSES, PaymentStatus
  <1>1. ASSUME NEW w \in Workers, D!RecordAttemptResult(w) PROVE Goal
    <2>1. worker[w].payment \in Orders
      BY <1>1 DEF N!TypeOK, D!RecordAttemptResult
    <2> QED BY <1>0, <1>1, <2>1, SameResults
            DEF D!RecordAttemptResult, D!OwnsClaim, D!Pending, StatusMoves
  <1>2. ASSUME NEW w \in Workers, D!ReleaseStaleClaims(w) PROVE Goal
    BY <1>0, <1>2, SameResults DEF D!ReleaseStaleClaims, D!StaleClaims, D!Pending, StatusMoves
  <1>3. ASSUME NEW p \in Orders, D!ManualAccept(p) PROVE Goal
    BY <1>0, <1>3 DEF D!ManualAccept, D!Pending, StatusMoves
  <1>4. ASSUME NEW p \in Orders, D!ReviewResend(p) PROVE Goal
    BY <1>0, <1>4 DEF D!ReviewResend, D!InReview, StatusMoves
  <1>5. ASSUME D!RequeueFailedDeliveries PROVE Goal
    BY <1>0, <1>5 DEF D!RequeueFailedDeliveries, D!Resendable, D!BulkResendable, D!InReview,
                      StatusMoves
  <1>6. ASSUME UNCHANGED <<status, verified>> PROVE Goal
    BY <1>0, <1>6 DEF StatusMoves
  <1> HIDE DEF Goal
  <1>7. Goal
    BY <1>1, <1>2, <1>3, <1>4, <1>5, <1>6
       DEF D!DeliveryStep, D!WorkerStep, D!OperatorStep, D!TimePasses, D!ClaimNextDue, D!Send,
           D!DiscardAttemptResult, D!Crash, D!ReviewAcknowledge, D!ReviewResolve,
           D!ResolveReviews, D!RetryComesDue, D!ClaimGoesStale
  <1> QED BY <1>7 DEF Goal

LEMMA MoneyUndisturbed ==
    ASSUME MoneyInv, N!TypeOK, DeliveryStep
    PROVE  MoneyInv'
  <1>1. /\ TypeOK /\ ExclusiveSettlement
        /\ RowInv /\ MappedInv /\ CreateInv /\ DraftInv /\ ExemptInv /\ SettleInv
        /\ VerifiedIsPaid /\ UniqueRefs /\ GidInv
        /\ OfferInv /\ IssuedInv /\ OneLiveLink /\ NoCrossUserLink /\ ReceiptInv /\ TokenInv
    BY DEF MoneyInv
  <1>2. /\ UNCHANGED <<verified, link, reference, recon, lock, ctx, rate, ids, tokens, known,
                       offers, issued, receipt>>
        /\ status' \in [Orders -> PaymentStatus]
        /\ \A o \in Orders : StatusMoves(o)
    BY <1>1, StatusesMove DEF DeliveryStep, drawVars, gatewayVars
  <1>3. TypeOK'
    BY <1>1, <1>2 DEF TypeOK
  <1>4. \A o \in Orders :
           /\ status[o] = "absent" <=> status'[o] = "absent"
           /\ status[o] \notin DELIVERY_STATUSES => status'[o] = status[o]
           /\ status'[o] \notin DELIVERY_STATUSES => status'[o] = status[o]
           /\ status[o] \in LINKED_STATUSES => status'[o] \in LINKED_STATUSES
           /\ Settled(o)' => Settled(o)
           /\ ~Settled(o) /\ status[o] # "manual_review" => status'[o] = status[o]
    BY <1>2 DEF StatusMoves, DELIVERY_STATUSES, LINKED_STATUSES, Settled, VERIFIED_STATUSES
  <1>5. \A x \in Procs : ctx[x].pc # "idle" => ctx[x].order \in Orders
    BY <1>1 DEF TypeOK
  <1>6. ExclusiveSettlement'
    BY <1>1, <1>2, <1>4, <1>5 DEF ExclusiveSettlement
  <1>7. RowInv'
    <2>1. \A o \in Orders : verified[o] => status'[o] \in VERIFIED_STATUSES \cup {"manual_review"}
      BY <1>1, <1>2 DEF RowInv, StatusMoves, VERIFIED_STATUSES, DELIVERY_STATUSES
    <2>2. \A o \in Orders : status'[o] \in {"created", "getlink_failed", "link_created"}
                               => status'[o] = status[o]
      BY <1>4 DEF DELIVERY_STATUSES
    <2> QED BY <1>1, <1>2, <1>4, <2>1, <2>2 DEF RowInv
  <1>8. MappedInv'
    BY <1>1, <1>2, <1>4 DEF MappedInv, Mapped
  <1>9. CreateInv'
    BY <1>1, <1>2, <1>4, <1>5 DEF CreateInv
  <1>10. DraftInv'
    <2>1. \A o \in Orders : status[o] \in {"created", "getlink_failed"} => status'[o] = status[o]
      BY <1>4 DEF DELIVERY_STATUSES
    <2> QED BY <1>1, <1>2, <1>5, <2>1 DEF DraftInv, SameUser, Mapped
  <1>11. ExemptInv'
    <2>1. \A x \in Procs : ctx[x].exempt => ctx[x].order \in Orders
      BY <1>1, <1>5 DEF ExemptInv
    <2> QED BY <1>1, <1>2, <1>4, <2>1 DEF ExemptInv
  <1>12. SettleInv'
    BY <1>1, <1>2, <1>4, <1>5 DEF SettleInv
  <1>13. VerifiedIsPaid'
    BY <1>1, <1>2, <1>4 DEF VerifiedIsPaid
  <1>14. UniqueRefs' /\ ReceiptInv' /\ OneLiveLink' /\ NoCrossUserLink' /\ TokenInv'
    BY <1>1, <1>2 DEF UniqueRefs, ReceiptInv, OneLiveLink, NoCrossUserLink, TokenInv, LinkOffer
  <1>15. GidInv'
    BY <1>1, <1>2, <1>4 DEF GidInv
  <1>16. \A l \in offers : l.order \in Orders
    BY <1>1 DEF TypeOK, Offer
  <1>17. \A i \in issued : i.offer.order \in Orders
    BY <1>1 DEF TypeOK, Offer
  <1>18. OfferInv' /\ IssuedInv'
    BY <1>1, <1>2, <1>4, <1>16, <1>17 DEF OfferInv, IssuedInv
  <1> QED BY <1>3, <1>6, <1>7, <1>8, <1>9, <1>10, <1>11, <1>12, <1>13, <1>14, <1>15, <1>18
          DEF MoneyInv

-----------------------------------------------------------------------------
(* A step of the money path hands one order to delivery, or delivery does  *)
(* not notice it.                                                          *)

RowsQuiet ==
    /\ verified' = verified
    /\ \A o \in Orders : \/ status'[o] = status[o]
                         \/ /\ status[o] \notin DELIVERY_STATUSES
                            /\ status'[o] \notin DELIVERY_STATUSES

(* The order of a verify call or commit is still open. *)
LEMMA OpenRow ==
    ASSUME MoneyInv, NEW x \in Procs, ctx[x].pc \in {"verify", "settle"}
    PROVE  /\ ctx[x].order \in Orders
           /\ ~verified[ctx[x].order]
           /\ status[ctx[x].order] \notin DELIVERY_STATUSES
  BY DEF MoneyInv, TypeOK, ExclusiveSettlement, Settled, VERIFIED_STATUSES, DELIVERY_STATUSES

LEMMA HandoverCases ==
    ASSUME MoneyInv, [Next]_ledgerVars
    PROVE  \/ RowsQuiet
           \/ \E o \in Orders, x \in Procs :
                 /\ RowReferred(o, x) \/ RowSettled(o, x)
                 /\ status[o] \notin DELIVERY_STATUSES /\ ~verified[o]
                 /\ \A q \in Orders \ {o} : RowStays(q)
  <1>1. TypeOK /\ DraftInv /\ TypeOK' /\ RowsStep
    BY MoneyInvStep DEF MoneyInv
  <1>2. \A o \in Orders : RowStep(o)
    BY <1>1 DEF RowsStep
  <1>3. ASSUME NEW o \in Orders, NEW x \in Procs, RowReferred(o, x) \/ RowSettled(o, x)
        PROVE  /\ RowReferred(o, x) \/ RowSettled(o, x)
               /\ status[o] \notin DELIVERY_STATUSES /\ ~verified[o]
               /\ \A q \in Orders \ {o} : RowStays(q)
    <2>1. ctx[x].order = o /\ ctx[x].pc \in {"verify", "settle"}
      BY <1>3 DEF RowReferred, RowSettled, VerifyAnomaly, CommitSettlement
    <2>2. status[o] \notin DELIVERY_STATUSES /\ ~verified[o]
      BY <2>1, OpenRow
    <2>3. status'[o] \in DELIVERY_STATUSES
      BY <1>3 DEF RowReferred, RowSettled, DELIVERY_STATUSES
    <2>4. ~RowStays(o)
      BY <2>2, <2>3 DEF RowStays
    <2> QED BY <1>1, <1>3, <2>2, <2>4 DEF RowsStep
  <1>4. ASSUME \A o \in Orders, x \in Procs : ~RowReferred(o, x) /\ ~RowSettled(o, x)
        PROVE  RowsQuiet
    <2>1. \A o \in Orders :
             /\ verified'[o] = verified[o]
             /\ \/ status'[o] = status[o]
                \/ /\ status[o] \notin DELIVERY_STATUSES
                   /\ status'[o] \notin DELIVERY_STATUSES
      <3> TAKE o \in Orders
      <3>1. CASE RowStays(o)
        BY <3>1 DEF RowStays
      <3>2. CASE RowInserted(o)
        BY <3>2 DEF RowInserted, DELIVERY_STATUSES
      <3>3. ASSUME NEW h \in Handlers, RowLinked(o, h)
            PROVE  /\ verified'[o] = verified[o]
                   /\ status[o] \notin DELIVERY_STATUSES
                   /\ status'[o] \notin DELIVERY_STATUSES
        BY <1>1, <3>3, HandlersAreProcs DEF RowLinked, DraftInv, DELIVERY_STATUSES
      <3> QED BY <1>2, <1>4, <3>1, <3>2, <3>3 DEF RowStep
    <2>2. verified' = verified
      BY <1>1, <2>1 DEF TypeOK
    <2> QED BY <2>1, <2>2 DEF RowsQuiet
  <1> QED BY <1>3, <1>4

LEMMA MoneyView ==
    ASSUME MoneyInv, N!TypeOK, MoneyStep
    PROVE  [N!Next]_N!vars
  <1>1. TypeOK /\ TypeOK'
    BY MoneyInvStep DEF MoneyInv, MoneyStep
  <1>2. /\ delivery' = [o \in Orders |->
                          IF EntersDelivery(o) THEN D!QueuedState(delivery[o]) ELSE delivery[o]]
        /\ UNCHANGED <<worker, bot, resends>>
        /\ delivery = [o \in Orders |-> delivery[o]]
    BY DEF MoneyStep, N!TypeOK
  <1>3. CASE RowsQuiet
    <2>1. SeenStatus' = SeenStatus
      BY <1>3, SeenSame DEF RowsQuiet
    <2>2. \A o \in Orders : ~EntersDelivery(o)
      BY <1>3 DEF RowsQuiet, EntersDelivery, DELIVERY_STATUSES
    <2>3. delivery' = delivery
      BY <1>2, <2>2
    <2> QED BY <1>2, <1>3, <2>1, <2>3 DEF N!vars, RowsQuiet
  <1>4. ASSUME NEW o \in Orders, NEW x \in Procs,
               RowReferred(o, x) \/ RowSettled(o, x),
               status[o] \notin DELIVERY_STATUSES, ~verified[o],
               \A q \in Orders \ {o} : RowStays(q)
        PROVE  N!Next
    <2>1. SeenStatus[o] = "link_created"
      BY <1>4, Seen
    <2>2. \A q \in Orders \ {o} : status'[q] = status[q] /\ verified'[q] = verified[q]
                                  /\ ~EntersDelivery(q)
      BY <1>4 DEF RowStays, EntersDelivery
    <2>3. CASE RowReferred(o, x)
      <3>1. status'[o] = "manual_review" /\ verified'[o] = verified[o] /\ ~EntersDelivery(o)
        BY <2>3 DEF RowReferred, EntersDelivery
      <3>2. SeenStatus' = [SeenStatus EXCEPT ![o] = "manual_review"]
        BY <2>2, <3>1, SeenOneMove DEF DELIVERY_STATUSES
      <3>3. verified' = verified
        BY <1>1, <2>2, <3>1 DEF TypeOK
      <3>4. delivery' = delivery
        BY <1>2, <2>2, <3>1
      <3>5. N!FinancialReview(o)
        BY <1>2, <2>1, <3>2, <3>3, <3>4 DEF N!FinancialReview
      <3> QED BY <3>5 DEF N!Next, N!Handover
    <2>4. CASE RowSettled(o, x)
      <3>1. status'[o] = "bot_notify_pending" /\ verified'[o] /\ EntersDelivery(o)
        BY <1>4, <2>4 DEF RowSettled, EntersDelivery, DELIVERY_STATUSES
      <3>2. SeenStatus' = [SeenStatus EXCEPT ![o] = "bot_notify_pending"]
        BY <2>2, <3>1, SeenOneMove DEF DELIVERY_STATUSES
      <3>3. verified' = [verified EXCEPT ![o] = TRUE]
        BY <1>1, <2>2, <3>1 DEF TypeOK
      <3>4. delivery' = [delivery EXCEPT ![o] = N!QueuedState(delivery[o])]
        BY <1>2, <2>2, <3>1, SameRecords
      <3>5. N!QueueNotification(o)
        BY <1>2, <2>1, <3>2, <3>3, <3>4 DEF N!QueueNotification
      <3> QED BY <3>5 DEF N!Next, N!Handover
    <2> QED BY <1>4, <2>3, <2>4
  <1> QED BY <1>3, <1>4, HandoverCases DEF MoneyStep

-----------------------------------------------------------------------------
(* The invariant of the bridge. *)

(* Only a paid order is put under review. *)
ReviewInv ==
    \A o \in Orders : status[o] = "manual_review" => receipt[link[o].gid] # Unpaid

WorkInv == attention \in [Orders -> Attention] /\ overdue \in [Orders -> BOOLEAN]

BridgeInv == MoneyInv /\ NotifyInv /\ ReviewInv /\ WorkInv

(* A payment once made stays. *)
LEMMA ReceiptKept ==
    ASSUME TypeOK, GatewayStep, NEW o \in Orders, receipt[link[o].gid] # Unpaid
    PROVE  receipt'[link[o].gid] # Unpaid
  <1>1. link[o].gid \in GatewayIds
    BY DEF TypeOK, Link
  <1> QED BY <1>1 DEF GatewayStep, ReceiptStays

LEMMA SettledIsPaid ==
    ASSUME VerifiedIsPaid, NEW o \in Orders, Settled(o)
    PROVE  receipt[link[o].gid] # Unpaid /\ Money(o) = "right" /\ verified[o]
  <1>1. /\ receipt[link[o].gid] = [ref |-> reference[o], amount |-> link[o].payable,
                                   payer |-> link[o].payer]
        /\ reference[o] # NoRef /\ verified[o]
    BY DEF VerifiedIsPaid
  <1>2. /\ receipt[link[o].gid].ref # NoRef
        /\ receipt[link[o].gid].amount = link[o].payable
        /\ receipt[link[o].gid].payer = link[o].payer
    BY <1>1
  <1>3. Unpaid.ref = NoRef
    BY DEF Unpaid
  <1> QED BY <1>1, <1>2, <1>3 DEF Money

LEMMA ReviewInvMoney ==
    ASSUME MoneyInv, ReviewInv, [Next]_ledgerVars
    PROVE  ReviewInv'
  <1>1. TypeOK /\ GatewayStep
    BY MoneyInvStep DEF MoneyInv
  <1> SUFFICES ASSUME NEW o \in Orders, status'[o] = "manual_review"
               PROVE  receipt'[link'[o].gid] # Unpaid
    BY DEF ReviewInv
  <1>2. CASE status[o] = "manual_review"
    <2>1. link'[o] = link[o]
      BY <1>2, FrozenRow DEF RowStays
    <2> QED BY <1>1, <1>2, <2>1, ReceiptKept DEF ReviewInv
  <1>3. CASE status[o] # "manual_review"
    <2>1. PICK x \in Procs : RowReferred(o, x)
      <3>1. ~RowsQuiet
        BY <1>3 DEF RowsQuiet, DELIVERY_STATUSES
      <3> QED BY <1>3, <3>1, HandoverCases DEF RowStays, RowSettled
    <2>2. receipt[link[o].gid] # Unpaid /\ link'[o] = link[o]
      BY <2>1 DEF RowReferred, VerifyAnomaly
    <2> QED BY <1>1, <2>2, ReceiptKept
  <1> QED BY <1>2, <1>3

LEMMA ReviewInvDelivery ==
    ASSUME MoneyInv, N!TypeOK, ReviewInv, DeliveryStep
    PROVE  ReviewInv'
  <1>1. TypeOK /\ VerifiedIsPaid
    BY DEF MoneyInv
  <1>2. \A o \in Orders : StatusMoves(o)
    BY <1>1, StatusesMove DEF DeliveryStep
  <1>3. UNCHANGED <<link, receipt>>
    BY DEF DeliveryStep, gatewayVars
  <1>4. \A o \in Orders : status[o] = "bot_notify_pending" => receipt[link[o].gid] # Unpaid
    BY <1>1, SettledIsPaid DEF Settled, VERIFIED_STATUSES
  <1> QED BY <1>2, <1>3, <1>4 DEF ReviewInv, StatusMoves

LEMMA BridgeStep ==
    ASSUME BridgeInv, [BridgeNext]_bridgeVars
    PROVE  BridgeInv' /\ [N!Next]_N!vars
  <1> USE DEF BridgeInv, NotifyInv
  <1>0. TypeOK
    BY DEF MoneyInv
  <1>1. CASE MoneyStep
    <2>1. MoneyInv' /\ ReviewInv'
      BY <1>1, MoneyInvStep, ReviewInvMoney DEF MoneyStep
    <2>2. [N!Next]_N!vars
      BY <1>1, MoneyView
    <2>3. NotifyInv'
      BY <2>2, NotifyStep
    <2>4. WorkInv'
      BY <1>1 DEF MoneyStep, WorkInv, Attention
    <2> QED BY <2>1, <2>2, <2>3, <2>4
  <1>2. CASE DeliveryStep
    <2>1. MoneyInv' /\ ReviewInv'
      BY <1>2, MoneyUndisturbed, ReviewInvDelivery
    <2>2. [N!Next]_N!vars
      BY <1>0, <1>2, DeliveryView DEF DeliveryStep, N!Next
    <2>3. NotifyInv'
      BY <2>2, NotifyStep
    <2>4. WorkInv'
      BY <1>2 DEF DeliveryStep, WorkInv
    <2> QED BY <2>1, <2>2, <2>3, <2>4
  <1>3. ASSUME UNCHANGED <<ledgerVars, deliveryVars>>, WorkInv' PROVE BridgeInv' /\ [N!Next]_N!vars
    <2>1. MoneyInv' /\ ReviewInv'
      BY <1>3, MoneyInvStep, ReviewInvMoney
    <2>2. UNCHANGED <<status, verified, delivery, worker, bot, resends>>
      BY <1>3 DEF ledgerVars, deliveryVars
    <2>3. UNCHANGED N!vars
      BY <2>2, SeenSame DEF N!vars
    <2>4. NotifyInv'
      BY <2>3, NotifyStep
    <2> QED BY <1>3, <2>1, <2>3, <2>4
  <1>4. ASSUME NEW o \in Orders, ResolveAttention(o) \/ GraceEnds(o) \/ PendingTooLong(o)
        PROVE  UNCHANGED <<ledgerVars, deliveryVars>> /\ WorkInv'
    BY <1>4 DEF ResolveAttention, GraceEnds, PendingTooLong, WorkInv, Attention
  <1>5. CASE UNCHANGED bridgeVars
    BY <1>3, <1>5 DEF bridgeVars, worklistVars, WorkInv
  <1> QED BY <1>1, <1>2, <1>3, <1>4, <1>5 DEF BridgeNext

LEMMA BridgeStart == BridgeInit => BridgeInv /\ N!Init
  <1> SUFFICES ASSUME BridgeInit PROVE BridgeInv /\ N!Init
    OBVIOUS
  <1>1. Init
    BY DEF BridgeInit
  <1>2. /\ \A o \in Orders : status[o] \notin DELIVERY_STATUSES
        /\ verified = [o \in Orders |-> FALSE]
    BY <1>1, InitFacts DEF Init, DELIVERY_STATUSES
  <1>3. SeenStatus = [o \in Orders |-> "link_created"]
    BY <1>2, Seen DEF SeenStatus
  <1>4. N!Init
    BY <1>2, <1>3 DEF BridgeInit, N!Init, N!IdleWorker, D!IdleWorker
  <1>5. MoneyInv /\ NotifyInv
    BY <1>1, <1>4, MoneyInit, NotifyInit
  <1>6. ReviewInv
    BY <1>2 DEF ReviewInv, DELIVERY_STATUSES
  <1>7. WorkInv
    BY DEF BridgeInit, WorkInv, Attention
  <1> QED BY <1>4, <1>5, <1>6, <1>7 DEF BridgeInv

(* The composed system keeps the invariants of both its components. *)
THEOREM BridgeInvariant == BridgeSpec => []BridgeInv
  <1>1. BridgeInv /\ [BridgeNext]_bridgeVars => BridgeInv'
    BY BridgeStep
  <1> QED BY <1>1, BridgeStart, PTL DEF BridgeSpec

-----------------------------------------------------------------------------
(* Delivery in the bridge. *)

LEMMA SameNext == N!Next <=> Delivered!Next
  BY DEF
         N!Next, Delivered!Next, N!Handover, Delivered!Handover, N!QueueNotification,
         Delivered!QueueNotification, N!FinancialReview, Delivered!FinancialReview,
         N!DeliveryStep, Delivered!DeliveryStep, N!WorkerStep, Delivered!WorkerStep,
         N!OperatorStep, Delivered!OperatorStep, N!TimePasses, Delivered!TimePasses,
         N!ClaimNextDue, Delivered!ClaimNextDue, N!Claimable, Delivered!Claimable,
         N!Send, Delivered!Send, N!RecordAttemptResult, Delivered!RecordAttemptResult,
         N!DiscardAttemptResult, Delivered!DiscardAttemptResult, N!Crash,
         Delivered!Crash, N!ReleaseStaleClaims, Delivered!ReleaseStaleClaims,
         N!OwnsClaim, Delivered!OwnsClaim, N!RecordedStatus, Delivered!RecordedStatus,
         N!RecordedDelivery, Delivered!RecordedDelivery, N!StaleClaims,
         Delivered!StaleClaims, N!RecoveredStatus, Delivered!RecoveredStatus,
         N!RecoveredDelivery, Delivered!RecoveredDelivery, N!EffectiveKind,
         Delivered!EffectiveKind, N!Kind, Delivered!Kind, N!SideEffecting,
         Delivered!SideEffecting, N!Outcomes, Delivered!Outcomes, N!Answered,
         Delivered!Answered, N!Processed, Delivered!Processed, N!IdleWorker,
         Delivered!IdleWorker, N!ManualAccept, Delivered!ManualAccept,
         N!ReviewAcknowledge, Delivered!ReviewAcknowledge, N!ReviewResolve,
         Delivered!ReviewResolve, N!ReviewResend, Delivered!ReviewResend,
         N!ResolveReviews, Delivered!ResolveReviews, N!BulkResolvable,
         Delivered!BulkResolvable, N!RequeueFailedDeliveries,
         Delivered!RequeueFailedDeliveries, N!Resendable, Delivered!Resendable,
         N!BulkResendable, Delivered!BulkResendable, N!ELIGIBLE_RESEND_REASONS,
         Delivered!ELIGIBLE_RESEND_REASONS, N!RetryComesDue, Delivered!RetryComesDue,
         N!ClaimGoesStale, Delivered!ClaimGoesStale, N!Pending, Delivered!Pending,
         N!InReview, Delivered!InReview, N!AcceptedState, Delivered!AcceptedState,
         N!ReviewState, Delivered!ReviewState, N!RetryState, Delivered!RetryState,
         N!RequeuedState, Delivered!RequeuedState, N!QueuedState, Delivered!QueuedState,
         N!ClaimedState, Delivered!ClaimedState, N!ClearClaim, Delivered!ClearClaim

LEMMA SameStart == N!Init <=> Delivered!Init
  BY DEF N!Init, Delivered!Init, N!IdleWorker, Delivered!IdleWorker

(* Composed with link creation, settlement, reconciliation and attention,  *)
(* delivery does nothing that delivery alone would not do.                 *)
THEOREM BridgeDelivers == BridgeSpec => ImplementsNotification
  <1>1. BridgeInit => Delivered!Init
    BY BridgeStart, SameStart
  <1>2. BridgeInv /\ [BridgeNext]_bridgeVars => [Delivered!Next]_Delivered!vars
    BY BridgeStep, SameNext DEF N!vars, Delivered!vars
  <1> QED BY <1>1, <1>2, BridgeInvariant, PTL DEF BridgeSpec, ImplementsNotification, Delivered!Spec

(* What is proved of each component holds of the bridge they make up: the  *)
(* money path although delivery writes the same rows, and delivery         *)
(* although settlement and operators feed it.                              *)
THEOREM ComponentsStaySafe ==
    BridgeSpec => []( /\ VerifiedIsPaid /\ OneLiveLink /\ NoCrossUserLink
                      /\ OnePricePerOrder /\ DbCheckClean
                      /\ Delivered!SafeModeAtMostOnce
                      /\ Delivered!AcceptedIsJustified
                      /\ Delivered!NoStrandedPayment )
  <1>1. BridgeInv => /\ VerifiedIsPaid /\ OneLiveLink /\ NoCrossUserLink
                     /\ OnePricePerOrder /\ DbCheckClean
    BY CleanTable DEF BridgeInv, MoneyInv, OfferInv, OnePricePerOrder
  <1>2. BridgeInv => Delivered!SafeModeAtMostOnce
    BY DEF BridgeInv, NotifyInv, N!SafeInv, Delivered!SafeModeAtMostOnce
  <1>3. BridgeInv => Delivered!AcceptedIsJustified /\ Delivered!NoStrandedPayment
    BY DEF BridgeInv, NotifyInv, N!JustifiedInv, N!AcceptedIsJustified, N!NoStrandedPayment,
           N!Pending, Delivered!AcceptedIsJustified, Delivered!NoStrandedPayment,
           Delivered!Pending
  <1> QED BY <1>1, <1>2, <1>3, BridgeInvariant, PTL

(* What a delivery step may do to an order is all that any step of the     *)
(* bridge does to one that delivery has seen.                              *)
LEMMA SeenStatusStep ==
    ASSUME BridgeInv, [BridgeNext]_bridgeVars, NEW o \in Orders,
           SeenStatus'[o] # SeenStatus[o]
    PROVE  \/ SeenStatus[o] \in {"link_created", "bot_notify_pending"}
           \/ /\ SeenStatus[o] = "manual_review"
              /\ RetryMode = "idempotent"
              /\ verified[o]
              /\ resends'[o] = resends[o] + 1
  <1>1. N!TypeOK /\ [N!Next]_N!vars
    BY BridgeStep DEF BridgeInv, NotifyInv
  <1> QED
    BY <1>1, N!StatusStep, DeliveryAssumption
       DEF N!StatusStep, N!RetryModeAssumption, N!MaxAttemptsAssumption,
           N!MaxResendsAssumption, N!NoOneAssumption

LEMMA BridgeAttemptsStep ==
    BridgeInv /\ N!AttemptsInv /\ [BridgeNext]_bridgeVars => N!AttemptsInv'
  <1> SUFFICES ASSUME BridgeInv, N!AttemptsInv, [BridgeNext]_bridgeVars
               PROVE  N!AttemptsInv'
    OBVIOUS
  <1>1. N!TypeOK /\ [N!Next]_N!vars
    BY BridgeStep DEF BridgeInv, NotifyInv
  <1> QED
    BY <1>1, N!AttemptsStep, DeliveryAssumption
       DEF N!AttemptsStep, N!RetryModeAssumption, N!MaxAttemptsAssumption,
           N!MaxResendsAssumption, N!NoOneAssumption

(* The attempt limit of the notification worker holds whatever feeds it:   *)
(* callbacks, the reconciler and operators hand an order over with no      *)
(* attempts used, and none of them resets the counter.                     *)
THEOREM BridgeAttemptsBounded == BridgeSpec => []Delivered!AttemptsBounded
  <1>1. BridgeInit => N!AttemptsInv
    <2>1. N!Init => N!AttemptsInv
      BY N!AttemptsInit, DeliveryAssumption
         DEF N!AttemptsInit, N!RetryModeAssumption, N!MaxAttemptsAssumption,
             N!MaxResendsAssumption, N!NoOneAssumption
    <2> QED BY <2>1, BridgeStart
  <1>2. N!AttemptsInv => Delivered!AttemptsBounded
    BY DEF N!AttemptsInv, N!AttemptsBounded, Delivered!AttemptsBounded
  <1> QED BY <1>1, <1>2, BridgeAttemptsStep, BridgeInvariant, PTL DEF BridgeSpec

(* An accepted order stays accepted in the whole bridge: no late callback, *)
(* reconciliation, expiry or operator command reopens it.                  *)
THEOREM BridgeAcceptedIsFinal == BridgeSpec => Delivered!AcceptedIsFinal
  <1>1. BridgeInv /\ [BridgeNext]_bridgeVars =>
          [\A p \in Orders : SeenStatus[p] = "bot_notify_accepted" =>
                                SeenStatus'[p] = "bot_notify_accepted"]_Delivered!vars
    BY SeenStatusStep
  <1>2. BridgeSpec => [][\A p \in Orders : SeenStatus[p] = "bot_notify_accepted" =>
                             SeenStatus'[p] = "bot_notify_accepted"]_Delivered!vars
    BY <1>1, BridgeInvariant, PTL DEF BridgeSpec
  <1> QED BY <1>2, PTL DEF Delivered!AcceptedIsFinal

(* No callback, reconciliation or late answer takes an order out of manual *)
(* review: only an operator's requeue of a verified payment, in idempotent *)
(* mode, does.                                                             *)
THEOREM BridgeReviewNotBypassed == BridgeSpec => Delivered!ReviewNotBypassed
  <1>1. BridgeInv /\ [BridgeNext]_bridgeVars =>
          [\A p \in Orders : Delivered!InReview(p) /\ SeenStatus'[p] # "manual_review" =>
              /\ RetryMode = "idempotent"
              /\ verified[p]
              /\ resends'[p] = resends[p] + 1]_Delivered!vars
    BY SeenStatusStep DEF Delivered!InReview
  <1>2. BridgeSpec =>
          [][\A p \in Orders : Delivered!InReview(p) /\ SeenStatus'[p] # "manual_review" =>
              /\ RetryMode = "idempotent"
              /\ verified[p]
              /\ resends'[p] = resends[p] + 1]_Delivered!vars
    BY <1>1, BridgeInvariant, PTL DEF BridgeSpec
  <1> QED BY <1>2, PTL DEF Delivered!ReviewNotBypassed

-----------------------------------------------------------------------------
(* What operators see. *)

(* An order an operator closed as abandoned was never handed a link, and   *)
(* a payment on the link its last attempt left at the gateway would still  *)
(* be settled.                                                             *)
THEOREM ClosedOrdersCanStillSettle == BridgeSpec => []ClosedCanStillSettle
  <1>1. ASSUME BridgeInv PROVE ClosedCanStillSettle
    <2> SUFFICES ASSUME NEW o \in Orders, status[o] \in RESOLVABLE_STATUSES
                 PROVE  /\ ~Handed(o)
                        /\ \A l \in offers : l.order = o /\ l.token = link[o].token =>
                               l = LinkOffer(o, link[o]) /\ CallbackAccepted(o)
      BY DEF ClosedCanStillSettle
    <2>1. RowInv /\ IssuedInv /\ TokenInv
      BY <1>1 DEF BridgeInv, MoneyInv
    <2>2. ~Handed(o)
      BY <2>1 DEF Handed, IssuedInv, RESOLVABLE_STATUSES, LINKED_STATUSES
    <2>3. ~Settled(o) /\ status[o] # "manual_review"
      BY <2>1 DEF RowInv, Settled, RESOLVABLE_STATUSES, VERIFIED_STATUSES
    <2>4. ASSUME NEW l \in offers, l.order = o, l.token = link[o].token
          PROVE  l = LinkOffer(o, link[o]) /\ CallbackAccepted(o)
      <3>1. l = LinkOffer(o, link[o])
        BY <2>1, <2>4 DEF TokenInv
      <3>2. l.gid = link[o].gid
        BY <3>1 DEF LinkOffer
      <3> QED BY <2>3, <2>4, <3>1, <3>2 DEF CallbackAccepted
    <2> QED BY <2>2, <2>4
  <1>2. BridgeInv => ClosedCanStillSettle
    BY <1>1
  <1> QED BY <1>2, BridgeInvariant, PTL

(* The four views of an order are disjoint. *)
LEMMA OneCategory ==
    ASSUME BridgeInv, NEW o \in Orders
    PROVE  /\ ~(BotDelivery(o) /\ OtherAttention(o))
           /\ ~(BotDelivery(o) /\ (WaitingGateway(o) \/ Expired(o)))
           /\ ~(OtherAttention(o) /\ (WaitingGateway(o) \/ Expired(o)))
           /\ ~(WaitingGateway(o) /\ Expired(o))
           /\ Unfinished(o) <=> \/ BotDelivery(o)
                                \/ OtherAttention(o)
                                \/ WaitingGateway(o)
                                \/ Expired(o)
  <1>1. TypeOK /\ RowInv
    BY DEF BridgeInv, MoneyInv
  <1>2. recon[o].attempts \in Nat /\ MaxReconcile \in Nat
    BY <1>1, BoundsAssumption DEF TypeOK, Recon
  <1>3. status[o] = "link_created" => ~verified[o]
    BY <1>1 DEF RowInv, VERIFIED_STATUSES
  <1>4. attention[o] \in Attention
    BY DEF BridgeInv, WorkInv
  <1>5. /\ WaitingGateway(o) => status[o] = "link_created" /\ ~Exhausted(o)
        /\ Exhausted(o) => status[o] = "link_created"
        /\ Expired(o) => status[o] = "link_created" /\ ~Exhausted(o) /\ ~WaitingGateway(o)
        /\ status[o] = "link_created" => WaitingGateway(o) \/ Exhausted(o) \/ Expired(o)
    BY <1>2, <1>3 DEF WaitingGateway, Exhausted, Expired, Unpolled
  <1> QED BY <1>4, <1>5
          DEF BotDelivery, OtherAttention, DeliveryReview, FinancialReview, OpenReview,
              StalePending, UnexpectedStatus, Unfinished, RESOLVABLE_STATUSES, Attention

LEMMA CategorySet ==
    ASSUME BridgeInv, NEW o \in Orders
    PROVE  /\ ~Unfinished(o) => Categories(o) = {}
           /\ Unfinished(o) => \E c : Categories(o) = {c}
           /\ Categories(o) \cap {"bot_delivery", "other"} # {}
                 <=> BotDelivery(o) \/ OtherAttention(o)
  <1>1. /\ "bot_delivery" \in Categories(o) <=> BotDelivery(o)
        /\ "other" \in Categories(o) <=> OtherAttention(o)
        /\ "waiting" \in Categories(o) <=> WaitingGateway(o)
        /\ "expired" \in Categories(o) <=> Expired(o)
        /\ Categories(o) \subseteq {"bot_delivery", "other", "waiting", "expired"}
    BY DEF Categories
  <1> QED BY <1>1, OneCategory

LEMMA SingletonCardinality ==
    ASSUME NEW S, NEW c, S = {c}
    PROVE  Cardinality(S) = 1
  BY FS_Singleton

(* Each unfinished order is shown to operators in exactly one place and no *)
(* finished one in any, the command line and the admin bot agree, and a    *)
(* delivery problem is never shown for an order that was not rightly paid. *)
THEOREM WorklistIsComplete == BridgeSpec => []WorklistComplete
  <1>1. ASSUME BridgeInv PROVE WorklistComplete
    <2> SUFFICES ASSUME NEW o \in Orders
                 PROVE  /\ Cardinality(Categories(o)) = IF Unfinished(o) THEN 1 ELSE 0
                        /\ NeedsAttention(o) <=> Categories(o) \cap {"bot_delivery", "other"} # {}
                        /\ BotDelivery(o) => Money(o) = "right" /\ verified[o]
                        /\ FinancialReview(o) => ~verified[o]
      BY DEF WorklistComplete
    <2>1. Cardinality(Categories(o)) = IF Unfinished(o) THEN 1 ELSE 0
      BY <1>1, CategorySet, SingletonCardinality, FS_EmptySet
    <2>2. NeedsAttention(o) <=> Categories(o) \cap {"bot_delivery", "other"} # {}
      BY <1>1, CategorySet
         DEF NeedsAttention, ReusedAttention, BotDelivery, OtherAttention, DeliveryReview,
             FinancialReview, OpenReview
    <2>3. /\ delivery[o].reason # "none" => verified[o]
          /\ status[o] = "manual_review" /\ verified[o] => delivery[o].reason # "none"
      BY <1>1, Seen DEF BridgeInv, NotifyInv, N!ReasonInv, N!InReview, DELIVERY_STATUSES
    <2>4. BotDelivery(o) => Settled(o)
      BY <2>3 DEF BotDelivery, DeliveryReview, StalePending, Settled, VERIFIED_STATUSES
    <2>5. BotDelivery(o) => Money(o) = "right" /\ verified[o]
      BY <1>1, <2>4, SettledIsPaid DEF BridgeInv, MoneyInv
    <2>6. FinancialReview(o) => ~verified[o]
      BY <2>3 DEF FinancialReview, OpenReview
    <2> QED BY <2>1, <2>2, <2>5, <2>6
  <1>2. BridgeInv => WorklistComplete
    BY <1>1
  <1> QED BY <1>2, BridgeInvariant, PTL

-----------------------------------------------------------------------------
(* The promise about an order: steps of OrderLifecycle, from what happens  *)
(* to each order.                                                          *)

MoneySame   == \A o \in Orders : Money(o)' = Money(o)
AnswerSame  == \A o \in Orders : Answer(o)' = Answer(o)
CreditsSame == \A o \in Orders : bot'[o].effects = bot[o].effects
HandedSame  == \A o \in Orders : Handed(o)' = Handed(o)

LEMMA LifeStutter ==
    ASSUME MoneySame, HandedSame, AnswerSame, CreditsSame
    PROVE  UNCHANGED Lifecycle!lifecycle
  BY DEF MoneySame, HandedSame, AnswerSame, CreditsSame, Lifecycle!lifecycle

LEMMA LifePay ==
    ASSUME NEW o \in Orders, Money(o) = "unpaid", Answer(o) = "open",
           Money(o)' \in {"right", "wrong"},
           \A q \in Orders \ {o} : Money(q)' = Money(q),
           HandedSame, AnswerSame, CreditsSame
    PROVE  Lifecycle!Next
  <1>1. Lifecycle!Pay(o, Money(o)')
    BY DEF HandedSame, AnswerSame, CreditsSame, Lifecycle!Pay
  <1> QED BY <1>1 DEF Lifecycle!Next

LEMMA LifeRelink ==
    ASSUME NEW o \in Orders, ~Handed(o), Answer(o) = "open",
           Money(o) = "unpaid" => Money(o)' = "unpaid",
           \A q \in Orders \ {o} : Money(q)' = Money(q) /\ Handed(q)' = Handed(q),
           AnswerSame, CreditsSame
    PROVE  Lifecycle!Next
  <1> DEFINE hand  == [q \in Orders |-> Handed(q)]
             after == [q \in Orders |-> Handed(q)']
  <1>1. Money(o)' \in {"unpaid", "right", "wrong"}
    BY DEF Money
  <1>2. after \in {hand, [hand EXCEPT ![o] = TRUE]}
    <2>1. CASE Handed(o)'
      <3>1. Handed(o)' = TRUE
        BY <2>1 DEF Handed
      <3>2. \A q \in Orders : after[q] = [hand EXCEPT ![o] = TRUE][q]
        BY <3>1
      <3> QED BY <3>2
    <2>2. CASE ~Handed(o)'
      <3>1. Handed(o)' = Handed(o)
        BY <2>2 DEF Handed
      <3>2. \A q \in Orders : after[q] = hand[q]
        BY <3>1
      <3> QED BY <3>2
    <2> QED BY <2>1, <2>2
  <1>3. Lifecycle!Relink(o, Money(o)')
    BY <1>2 DEF AnswerSame, CreditsSame, Lifecycle!Relink
  <1> QED BY <1>1, <1>3 DEF Lifecycle!Next

LEMMA LifeConfirm ==
    ASSUME NEW o \in Orders, Money(o) = "right", Answer(o) = "open",
           Answer(o)' = "confirmed",
           \A q \in Orders \ {o} : Answer(q)' = Answer(q),
           MoneySame, HandedSame, CreditsSame
    PROVE  Lifecycle!Next
  <1>1. Lifecycle!Confirm(o)
    BY DEF MoneySame, HandedSame, CreditsSame, Lifecycle!Confirm
  <1> QED BY <1>1 DEF Lifecycle!Next

LEMMA LifeClose ==
    ASSUME NEW o \in Orders, Answer(o) = "confirmed", Answer(o)' = "closed",
           \A q \in Orders \ {o} : Answer(q)' = Answer(q),
           MoneySame, HandedSame, CreditsSame
    PROVE  Lifecycle!Next
  <1>1. Lifecycle!Close(o)
    BY DEF MoneySame, HandedSame, CreditsSame, Lifecycle!Close
  <1> QED BY <1>1 DEF Lifecycle!Next

LEMMA LifeRefer ==
    ASSUME NEW S \in SUBSET Orders,
           \A o \in S : /\ Answer(o) \in {"open", "confirmed"} /\ Money(o) # "unpaid"
                        /\ Answer(o)' = "referred",
           \A q \in Orders \ S : Answer(q)' = Answer(q),
           MoneySame, HandedSame, CreditsSame
    PROVE  Lifecycle!Next
  <1>1. Lifecycle!Refer(S)
    BY DEF MoneySame, HandedSame, CreditsSame, Lifecycle!Refer
  <1> QED BY <1>1 DEF Lifecycle!Next

LEMMA LifeCredit ==
    ASSUME NEW o \in Orders, Money(o) = "right", Answer(o) # "open",
           bot[o].effects = 0, bot'[o].effects = 1,
           \A q \in Orders \ {o} : bot'[q].effects = bot[q].effects,
           MoneySame, HandedSame, AnswerSame
    PROVE  Lifecycle!Next
  <1>1. Lifecycle!Credit(o)
    BY DEF MoneySame, HandedSame, AnswerSame, Lifecycle!Credit
  <1> QED BY <1>1 DEF Lifecycle!Next

(* Answers follow the status. *)
LEMMA Answers ==
    ASSUME NEW o \in Orders
    PROVE  /\ Answer(o) = "open" <=> status[o] \notin DELIVERY_STATUSES
           /\ Answer(o)' = "open" <=> status'[o] \notin DELIVERY_STATUSES
           /\ Answer(o) = "confirmed" <=> status[o] = "bot_notify_pending"
           /\ Answer(o)' = "confirmed" <=> status'[o] = "bot_notify_pending"
           /\ Answer(o) = "closed" <=> status[o] = "bot_notify_accepted"
           /\ Answer(o)' = "closed" <=> status'[o] = "bot_notify_accepted"
           /\ Answer(o) = "referred" <=> status[o] = "manual_review"
           /\ Answer(o)' = "referred" <=> status'[o] = "manual_review"
           /\ status'[o] = status[o] => Answer(o)' = Answer(o)
  BY DEF Answer, DELIVERY_STATUSES

-----------------------------------------------------------------------------
(* Steps of the money path. *)

PaidInv == \A o \in Orders : Settled(o) => Money(o) = "right"

LEMMA MoneyFacts == MoneyInv => PaidInv
  BY SettledIsPaid DEF PaidInv, MoneyInv

LEMMA MoneyFactsNext == MoneyInv' => PaidInv'
  BY MoneyFacts, PTL

(* Only the payer changes a receipt. *)
LEMMA ReceiptChanges ==
    ASSUME Kinds
    PROVE  receipt' = receipt \/ \E l \in offers : Pay(l)
  BY DEF Kinds, Quiet, AdmitReplay, BeginCreate, BeginReplay, EnsureRow, ReturnExistingLink,
         StartGetLink, GetLinkEnds, GetLinkSucceeds, GetLinkFails, CrashDuringCreate, Asks,
         Callback, RecoverAgedOut, DiagnosticVerify, ClaimDue, VerifyPaid, Settles,
         VerifyAnomaly, CommitSettlement, gatewayVars

LEMMA MoneyUnpaid ==
    ASSUME NEW o \in Orders
    PROVE  /\ Money(o) = "unpaid" <=> receipt[link[o].gid] = Unpaid
           /\ Money(o)' = "unpaid" <=> receipt'[link'[o].gid] = Unpaid
  BY DEF Money

(* An id nothing was registered under was not paid. *)
LEMMA UnregisteredIsUnpaid ==
    ASSUME ReceiptInv, NEW g \in GatewayIds, \A l \in offers : l.gid # g
    PROVE  receipt[g] = Unpaid
  BY DEF ReceiptInv

(* What was paid for an order changes only with the payer or its link. *)
LEMMA MoneyKept ==
    ASSUME MoneyInv, [Next]_ledgerVars, receipt' = receipt,
           NEW o \in Orders, \A h \in Handlers : ~RowLinked(o, h)
    PROVE  Money(o)' = Money(o)
  <1>1. /\ TypeOK /\ RowInv /\ OfferInv /\ ReceiptInv /\ TokenInv
        /\ TypeOK' /\ RowStep(o)
    BY MoneyInvStep DEF MoneyInv, RowsStep
  <1>2. CASE link'[o] = link[o]
    BY <1>2 DEF Money
  <1>3. CASE RowInserted(o)
    <2>1. link[o].gid \in GatewayIds /\ link'[o].gid \in GatewayIds
      BY <1>1 DEF TypeOK, Link
    <2>2. link[o].gid = 0
      BY <1>1, <1>3 DEF RowInserted, RowInv, BlankLink
    <2>3. \A l \in offers : l.gid # 0
      BY <1>1 DEF OfferInv
    <2>4. \A l \in offers : l.gid # ids + 1
      <3> TAKE l \in offers
      <3>1. ids \in Nat /\ l.gid \in Nat /\ l.gid <= ids
        BY <1>1 DEF TypeOK, TokenInv, Offer, GatewayIds
      <3> QED BY <3>1
    <2>5. receipt[link[o].gid] = Unpaid
      BY <1>1, <2>1, <2>2, <2>3, UnregisteredIsUnpaid
    <2>6. receipt[link'[o].gid] = Unpaid
      BY <1>1, <1>3, <2>1, <2>4, UnregisteredIsUnpaid DEF RowInserted
    <2> QED BY <2>5, <2>6, MoneyUnpaid
  <1> QED BY <1>1, <1>2, <1>3 DEF RowStep, RowStays, RowReferred, RowSettled

(* The bot is given a link by the two steps that return one. *)
LEMMA HandedKept ==
    ASSUME MoneyInv, [Next]_ledgerVars, NEW o \in Orders,
           \A h \in Handlers : ~RowLinked(o, h),
           \A h \in Handlers : ReturnExistingLink(h) => ctx[h].order # o
    PROVE  Handed(o)' = Handed(o)
  <1>1. DraftInv /\ RowStep(o) /\ GatewayStep
    BY MoneyInvStep DEF MoneyInv, RowsStep
  <1>2. ASSUME NEW i \in issued', i.offer.order = o, i \notin issued
        PROVE  FALSE
    <2>1. ~LinkReturned(i)
      BY <1>2 DEF LinkReturned
    <2>2. LinkMade(i)
      BY <1>1, <1>2, <2>1 DEF GatewayStep
    <2>3. PICK h \in Handlers, q \in Orders :
             /\ ctx[h].pc = "getlink" /\ ctx[h].order = q
             /\ i.offer = LinkOffer(q, ctx[h].draft)
             /\ status'[q] = "link_created" /\ link'[q] = Live(ctx[h].draft)
      BY <2>2 DEF LinkMade
    <2>4. q = o
      BY <1>2, <2>3 DEF LinkOffer
    <2>5. status[o] # "link_created"
      BY <1>1, <2>3, <2>4, HandlersAreProcs DEF DraftInv
    <2> QED BY <1>1, <2>3, <2>4, <2>5
            DEF RowStep, RowStays, RowInserted, RowReferred, RowSettled
  <1>3. issued \subseteq issued'
    BY <1>1 DEF GatewayStep
  <1>4. Handed(o)' <=> Handed(o)
    BY <1>2, <1>3 DEF Handed
  <1> QED BY <1>4 DEF Handed

(* An attempt to create a link ends. *)
LEMMA LinkLife ==
    ASSUME MoneyInv, [Next]_ledgerVars, receipt' = receipt, CreditsSame,
           NEW o \in Orders, NEW h \in Handlers, RowLinked(o, h)
    PROVE  Lifecycle!Next
  <1>1. /\ TypeOK /\ DraftInv /\ IssuedInv /\ ReceiptInv /\ TokenInv /\ RowsStep
    BY MoneyInvStep DEF MoneyInv
  <1>2. /\ h \in Procs /\ ctx[h].pc = "getlink" /\ ctx[h].order = o /\ ctx[h].draft \in Link
        /\ status[o] \in {"created", "getlink_failed"}
        /\ status'[o] \in {"link_created", "getlink_failed"}
    BY <1>1, HandlersAreProcs DEF RowLinked, TypeOK, Context, DraftInv
  <1>3. link'[o].gid = ctx[h].draft.gid /\ link'[o].token = ctx[h].draft.token
    BY <1>2, LiveLemma DEF RowLinked
  <1>4. ~RowStays(o)
    BY <1>1, <1>2, <1>3 DEF TokenInv, RowStays
  <1>5. \A q \in Orders \ {o} : RowStays(q)
    BY <1>1, <1>4 DEF RowsStep
  <1>6. \A g \in Handlers : ~ReturnExistingLink(g)
    BY <1>4 DEF ReturnExistingLink, rowVars, RowStays
  <1>7. ASSUME NEW q \in Orders \ {o}, NEW g \in Handlers PROVE ~RowLinked(q, g)
    <2> SUFFICES ASSUME RowLinked(q, g) PROVE FALSE
      OBVIOUS
    <2>1. g \in Procs /\ ctx[g].pc = "getlink" /\ ctx[g].order = q /\ ctx[g].draft \in Link
      BY <1>1, HandlersAreProcs DEF RowLinked, TypeOK, Context
    <2>2. link'[q].token = ctx[g].draft.token
      BY <2>1, LiveLemma DEF RowLinked
    <2> QED BY <1>1, <1>5, <2>1, <2>2 DEF TokenInv, RowStays
  <1>8. \A q \in Orders \ {o} : Money(q)' = Money(q) /\ Handed(q)' = Handed(q)
    BY <1>6, <1>7, MoneyKept, HandedKept
  <1>9. ~Handed(o)
    BY <1>1, <1>2 DEF Handed, IssuedInv, LINKED_STATUSES
  <1>10. Answer(o) = "open" /\ AnswerSame
    BY <1>2, <1>5, Answers DEF RowStays, AnswerSame, DELIVERY_STATUSES
  <1>11. Money(o) = "unpaid" => Money(o)' = "unpaid"
    <2>1. CASE ctx[h].draft.gid = link[o].gid
      BY <1>3, <2>1, MoneyUnpaid
    <2>2. CASE \A l \in offers : l.gid # ctx[h].draft.gid
      <3>1. ctx[h].draft.gid \in GatewayIds
        BY <1>2 DEF Link
      <3> QED BY <1>1, <1>3, <2>2, <3>1, UnregisteredIsUnpaid, MoneyUnpaid
    <2> QED BY <1>1, <1>2, <2>1, <2>2 DEF TokenInv
  <1> QED BY <1>8, <1>9, <1>10, <1>11, LifeRelink

(* The stored link is returned. *)
LEMMA ReturnLife ==
    ASSUME MoneyInv, [Next]_ledgerVars, CreditsSame,
           NEW h \in Handlers, ReturnExistingLink(h)
    PROVE  [Lifecycle!Next]_Lifecycle!lifecycle
  <1>1. /\ TypeOK /\ h \in Procs
    BY HandlersAreProcs DEF MoneyInv
  <1>2. PICK o \in Orders : o = ctx[h].order
    BY <1>1, BusyOrder DEF ReturnExistingLink
  <1>3. UNCHANGED <<status, link, receipt>> /\ status[o] = "link_created"
    BY <1>2 DEF ReturnExistingLink, HasLink, rowVars
  <1>4. MoneySame /\ AnswerSame
    BY <1>3 DEF MoneySame, AnswerSame, Money, Answer
  <1>5. issued \subseteq issued' /\ \A i \in issued' : i \in issued \/ i.offer.order = o
    BY <1>2 DEF ReturnExistingLink, LinkOffer
  <1>6. \A q \in Orders \ {o} : Handed(q)' = Handed(q)
    <2>1. \A q \in Orders \ {o} : Handed(q)' <=> Handed(q)
      BY <1>5 DEF Handed
    <2> QED BY <2>1 DEF Handed
  <1>7. CASE Handed(o)
    <2>1. Handed(o)'
      BY <1>5, <1>7 DEF Handed
    <2>2. Handed(o)' = Handed(o)
      BY <1>7, <2>1 DEF Handed
    <2>3. HandedSame
      BY <1>6, <2>2 DEF HandedSame
    <2> QED BY <1>4, <2>3, LifeStutter
  <1>8. CASE ~Handed(o)
    <2>1. Answer(o) = "open"
      BY <1>3, Answers DEF DELIVERY_STATUSES
    <2> QED BY <1>4, <1>6, <1>8, <2>1, LifeRelink DEF MoneySame
  <1> QED BY <1>7, <1>8

LEMMA PayLife ==
    ASSUME BridgeInv, NEW f \in offers, Pay(f), CreditsSame
    PROVE  [Lifecycle!Next]_Lifecycle!lifecycle
  <1>1. TypeOK /\ RowInv /\ GidInv /\ OfferInv /\ VerifiedIsPaid /\ ReviewInv
    BY DEF BridgeInv, MoneyInv
  <1>2. /\ f.order \in Orders /\ f.gid \in GatewayIds /\ f.amount \in Nat
        /\ f.gid # 0 /\ status[f.order] # "absent" /\ f.amount = link[f.order].payable
    BY <1>1 DEF OfferInv, TypeOK, Offer
  <1>3. f.amount # 0
    <2>1. link[f.order].payable \in Nat /\ link[f.order].amount \in Nat
      BY <1>1, <1>2 DEF TypeOK, Link
    <2> QED BY <1>1, <1>2, <2>1 DEF RowInv
  <1>4. /\ receipt[f.gid] = Unpaid
        /\ UNCHANGED <<status, link, issued>>
    BY DEF Pay, rowVars
  <1>5. PICK ref \in Refs \cup {NoRef}, amount \in {f.amount, f.amount + 1}, payer \in {f.payer, Stranger} :
           receipt' = [receipt EXCEPT ![f.gid] = [ref |-> ref, amount |-> amount, payer |-> payer]]
    BY DEF Pay
  <1>6. receipt'[f.gid] # Unpaid
    <2>1. receipt'[f.gid].amount = amount /\ amount # 0
      BY <1>1, <1>2, <1>3, <1>5 DEF TypeOK
    <2> QED BY <2>1 DEF Unpaid
  <1>7. AnswerSame /\ HandedSame
    BY <1>4 DEF AnswerSame, HandedSame, Answer, Handed
  <1>8. ASSUME NEW q \in Orders, link[q].gid # f.gid PROVE Money(q)' = Money(q)
    <2>1. receipt'[link[q].gid] = receipt[link[q].gid]
      BY <1>1, <1>5, <1>8 DEF TypeOK, Link
    <2> QED BY <1>4, <2>1 DEF Money
  <1>9. CASE \A q \in Orders : link[q].gid # f.gid
    BY <1>7, <1>8, <1>9, LifeStutter DEF MoneySame
  <1>10. ASSUME NEW o \in Orders, link[o].gid = f.gid PROVE Lifecycle!Next
    <2>1. status[o] # "absent"
      BY <1>1, <1>2, <1>10 DEF RowInv, BlankLink
    <2>2. \A q \in Orders \ {o} : link[q].gid # f.gid
      BY <1>1, <1>2, <1>10, <2>1 DEF GidInv, RowInv, BlankLink
    <2>3. \A q \in Orders \ {o} : Money(q)' = Money(q)
      BY <1>8, <2>2
    <2>4. Money(o) = "unpaid" /\ Money(o)' \in {"right", "wrong"}
      BY <1>4, <1>6, <1>10 DEF Money
    <2>5. ~Settled(o) /\ status[o] # "manual_review"
      BY <1>1, <1>4, <1>10, SettledIsPaid DEF ReviewInv
    <2>6. Answer(o) = "open"
      BY <2>5, Answers DEF Settled, VERIFIED_STATUSES, DELIVERY_STATUSES
    <2> QED BY <1>7, <2>3, <2>4, <2>6, LifePay
  <1> QED BY <1>9, <1>10

LEMMA MoneyLife ==
    ASSUME BridgeInv, MoneyStep
    PROVE  [Lifecycle!Next]_Lifecycle!lifecycle
  <1>1. MoneyInv /\ ReviewInv /\ [Next]_ledgerVars /\ CreditsSame
    BY DEF BridgeInv, MoneyStep, CreditsSame
  <1>2. MoneyInv' /\ Kinds /\ RowsStep
    BY <1>1, MoneyInvStep
  <1>3. CASE \E l \in offers : Pay(l)
    BY <1>1, <1>3, PayLife
  <1>4. CASE receipt' = receipt /\ \E o \in Orders, h \in Handlers : RowLinked(o, h)
    BY <1>1, <1>4, LinkLife
  <1>5. CASE \E h \in Handlers : ReturnExistingLink(h)
    BY <1>1, <1>5, ReturnLife
  <1>6. CASE /\ receipt' = receipt
             /\ \A o \in Orders, h \in Handlers : ~RowLinked(o, h)
             /\ \A h \in Handlers : ~ReturnExistingLink(h)
    <2>1. MoneySame /\ HandedSame
      BY <1>1, <1>6, MoneyKept, HandedKept DEF MoneySame, HandedSame
    <2>2. CASE RowsQuiet
      <3>1. AnswerSame
        BY <2>2, Answers DEF RowsQuiet, AnswerSame
      <3> QED BY <1>1, <2>1, <3>1, LifeStutter
    <2>3. ASSUME NEW o \in Orders, NEW x \in Procs,
                 RowReferred(o, x) \/ RowSettled(o, x),
                 status[o] \notin DELIVERY_STATUSES,
                 \A q \in Orders \ {o} : RowStays(q)
          PROVE  Lifecycle!Next
      <3>1. Answer(o) = "open" /\ \A q \in Orders \ {o} : Answer(q)' = Answer(q)
        BY <2>3, Answers DEF RowStays
      <3>2. CASE RowReferred(o, x)
        <4>1. Money(o) # "unpaid"
          BY <3>2 DEF RowReferred, VerifyAnomaly, Money
        <4>2. Answer(o)' = "referred"
          BY <3>2, Answers DEF RowReferred
        <4> QED BY <1>1, <2>1, <3>1, <4>1, <4>2, LifeRefer
      <3>3. CASE RowSettled(o, x)
        <4>1. Answer(o)' = "confirmed" /\ Settled(o)'
          BY <3>3, Answers DEF RowSettled, Settled
        <4>2. Money(o) = "right"
          BY <1>2, <2>1, <4>1, MoneyFactsNext DEF PaidInv, MoneySame
        <4> QED BY <1>1, <2>1, <3>1, <4>1, <4>2, LifeConfirm
      <3> QED BY <2>3, <3>2, <3>3
    <2> QED BY <1>1, <2>2, <2>3, HandoverCases
  <1> QED BY <1>2, <1>3, <1>4, <1>5, <1>6, ReceiptChanges

-----------------------------------------------------------------------------
(* Steps of delivery in safe mode. *)

(* A worker that has claimed an order may credit it, and is the first to. *)
LEMMA ClaimedIsRight ==
    ASSUME BridgeInv, NEW w \in Workers, worker[w].pc # "idle"
    PROVE  /\ worker[w].payment \in Orders
           /\ Money(worker[w].payment) = "right"
           /\ Answer(worker[w].payment) # "open"
           /\ RetryMode = "safe" /\ worker[w].pc = "claimed" => bot[worker[w].payment].effects = 0
  <1> DEFINE p == worker[w].payment
  <1>1. MoneyInv /\ RowInv /\ N!TypeOK /\ N!SafeInv /\ N!ReasonInv
    BY DEF BridgeInv, NotifyInv, MoneyInv
  <1>2. p \in Orders /\ verified[p]
    BY <1>1 DEF N!TypeOK, N!ReasonInv
  <1>3. Settled(p)
    BY <1>2 DEF Settled
  <1>4. Money(p) = "right"
    BY <1>1, <1>2, <1>3, MoneyFacts DEF PaidInv
  <1>5. Answer(p) # "open"
    BY <1>1, <1>2, Answers DEF RowInv, VERIFIED_STATUSES, DELIVERY_STATUSES
  <1>6. RetryMode = "safe" /\ worker[w].pc = "claimed" => bot[p].effects = 0
    BY <1>1, <1>2 DEF N!SafeInv, N!Holds
  <1> QED BY <1>2, <1>4, <1>5, <1>6

LEMMA CreditOnce ==
    ASSUME BridgeInv, RetryMode = "safe", NEW w \in Workers, worker[w].pc = "claimed",
           MoneySame, HandedSame, AnswerSame,
           bot'[worker[w].payment].effects \in {0, 1},
           \A q \in Orders \ {worker[w].payment} : bot'[q].effects = bot[q].effects
    PROVE  [Lifecycle!Next]_Lifecycle!lifecycle
  <1> DEFINE p == worker[w].payment
  <1>1. p \in Orders /\ Money(p) = "right" /\ Answer(p) # "open" /\ bot[p].effects = 0
    BY ClaimedIsRight
  <1>2. CASE bot'[p].effects = 0
    BY <1>1, <1>2, LifeStutter DEF CreditsSame
  <1>3. CASE bot'[p].effects = 1
    BY <1>1, <1>3, LifeCredit
  <1> QED BY <1>2, <1>3

LEMMA WorkerLife ==
    ASSUME BridgeInv, RetryMode = "safe", MoneySame, HandedSame, NEW w \in Workers, D!WorkerStep(w)
    PROVE  [Lifecycle!Next]_Lifecycle!lifecycle
  <1>1. /\ TypeOK /\ N!TypeOK /\ MoneyInv
        /\ \A o \in Orders : bot[o] \in N!Bot /\ bot[o].effects \in Nat
    BY DEF BridgeInv, NotifyInv, MoneyInv, N!TypeOK, N!Bot
  <1>2. \A o \in Orders : status[o] = "bot_notify_pending" => Money(o) = "right"
    BY <1>1, MoneyFacts DEF PaidInv, Settled, VERIFIED_STATUSES
  <1>3. ASSUME NEW p \in Orders, D!ClaimNextDue(w, p) PROVE UNCHANGED <<status, bot>>
    BY <1>3 DEF D!ClaimNextDue
  <1>4. ASSUME D!DiscardAttemptResult(w) PROVE UNCHANGED <<status, bot>>
    BY <1>4 DEF D!DiscardAttemptResult
  <1>5. ASSUME UNCHANGED <<status, bot>> PROVE UNCHANGED Lifecycle!lifecycle
    BY <1>5, Answers, LifeStutter DEF AnswerSame, CreditsSame
  <1>6. ASSUME NEW outcome \in D!Outcomes, D!Send(w, outcome)
        PROVE  [Lifecycle!Next]_Lifecycle!lifecycle
    <2> DEFINE p == worker[w].payment
    <2>1. worker[w].pc = "claimed" /\ status' = status
      BY <1>6 DEF D!Send
    <2>2. p \in Orders /\ bot[p].effects = 0
      BY <2>1, ClaimedIsRight
    <2>3. bot' = [bot EXCEPT ![p] = D!Processed(bot[p], outcome)]
      BY <1>6 DEF D!Send
    <2>4. D!Processed(bot[p], outcome).effects \in {0, 1}
      <3> DEFINE e == IF outcome \in D!SideEffecting THEN bot[p].effects + 1 ELSE bot[p].effects
                 a == bot[p].acked \/ outcome = "accepted"
      <3>1. e \in {0, 1}
        BY <2>2
      <3>2. D!Processed(bot[p], outcome) = [bot[p] EXCEPT !.effects = e, !.acked = a]
        BY DEF D!Processed
      <3> HIDE DEF e, a
      <3> QED BY <1>1, <2>2, <3>1, <3>2 DEF N!Bot
    <2>5. /\ bot'[p].effects \in {0, 1}
          /\ \A q \in Orders \ {p} : bot'[q].effects = bot[q].effects
      BY <1>1, <2>2, <2>3, <2>4 DEF N!TypeOK
    <2>6. AnswerSame
      BY <2>1, Answers DEF AnswerSame
    <2> QED BY <2>1, <2>5, <2>6, CreditOnce
  <1>7. ASSUME D!Crash(w) PROVE [Lifecycle!Next]_Lifecycle!lifecycle
    <2> DEFINE p == worker[w].payment
    <2>1. status' = status
      BY <1>7 DEF D!Crash
    <2>2. CASE bot' = bot
      BY <1>5, <2>1, <2>2
    <2>3. CASE worker[w].pc = "claimed" /\ bot' = [bot EXCEPT ![p].effects = @ + 1]
      <3>1. p \in Orders /\ bot[p].effects = 0
        BY <2>3, ClaimedIsRight
      <3>2. /\ bot'[p].effects \in {0, 1}
            /\ \A q \in Orders \ {p} : bot'[q].effects = bot[q].effects
        BY <1>1, <2>3, <3>1 DEF N!TypeOK, N!Bot
      <3>3. AnswerSame
        BY <2>1, Answers DEF AnswerSame
      <3> QED BY <2>3, <3>2, <3>3, CreditOnce
    <2> QED BY <1>7, <2>2, <2>3 DEF D!Crash
  <1>8. ASSUME D!RecordAttemptResult(w) PROVE [Lifecycle!Next]_Lifecycle!lifecycle
    <2>1. PICK p \in Orders : p = worker[w].payment
      BY <1>1, <1>8 DEF D!RecordAttemptResult, N!TypeOK
    <2>2. /\ status[p] = "bot_notify_pending"
          /\ status'[p] \in DELIVERY_STATUSES
          /\ \A q \in Orders \ {p} : status'[q] = status[q]
          /\ CreditsSame
      BY <1>1, <1>8, <2>1, SameResults
         DEF D!RecordAttemptResult, D!OwnsClaim, D!Pending, TypeOK, CreditsSame
    <2>3. Answer(p) = "confirmed" /\ \A q \in Orders \ {p} : Answer(q)' = Answer(q)
      BY <2>1, <2>2, Answers
    <2>4. CASE status'[p] = "bot_notify_pending"
      BY <2>1, <2>2, <2>3, <2>4, Answers, LifeStutter DEF AnswerSame
    <2>5. CASE status'[p] = "bot_notify_accepted"
      BY <2>1, <2>2, <2>3, <2>5, Answers, LifeClose
    <2>6. CASE status'[p] = "manual_review"
      <3>1. Money(p) = "right"
        BY <1>2, <2>1, <2>2
      <3>2. Answer(p)' = "referred"
        BY <2>1, <2>6, Answers
      <3>3. /\ {p} \in SUBSET Orders
            /\ \A o \in {p} : /\ Answer(o) \in {"open", "confirmed"} /\ Money(o) # "unpaid"
                             /\ Answer(o)' = "referred"
        BY <2>1, <2>3, <3>1, <3>2
      <3> QED BY <2>2, <2>3, <3>3, LifeRefer
    <2> QED BY <2>2, <2>4, <2>5, <2>6 DEF DELIVERY_STATUSES
  <1>9. ASSUME D!ReleaseStaleClaims(w) PROVE [Lifecycle!Next]_Lifecycle!lifecycle
    <2> DEFINE S == D!StaleClaims
    <2>1. S \in SUBSET Orders /\ CreditsSame
      BY <1>9 DEF D!StaleClaims, D!ReleaseStaleClaims, CreditsSame
    <2>2. \A o \in S : status[o] = "bot_notify_pending" /\ status'[o] = "manual_review"
      BY <1>9 DEF D!StaleClaims, D!Pending, D!ReleaseStaleClaims, D!RecoveredStatus
    <2>3. \A q \in Orders \ S : status'[q] = status[q]
      BY <1>9 DEF D!ReleaseStaleClaims
    <2> HIDE DEF S
    <2>4. \A o \in S : /\ Answer(o) \in {"open", "confirmed"} /\ Money(o) # "unpaid"
                       /\ Answer(o)' = "referred"
      BY <1>2, <2>1, <2>2, Answers
    <2>5. \A q \in Orders \ S : Answer(q)' = Answer(q)
      BY <2>3, Answers
    <2> QED BY <2>1, <2>4, <2>5, LifeRefer
  <1> QED BY <1>3, <1>4, <1>5, <1>6, <1>7, <1>8, <1>9 DEF D!WorkerStep

LEMMA OperatorLife ==
    ASSUME BridgeInv, RetryMode = "safe", MoneySame, HandedSame, D!OperatorStep \/ D!TimePasses
    PROVE  [Lifecycle!Next]_Lifecycle!lifecycle
  <1>1. /\ TypeOK /\ N!TypeOK
        /\ \A o \in Orders : bot[o] \in N!Bot
    BY DEF BridgeInv, NotifyInv, MoneyInv, N!TypeOK
  <1>2. ASSUME NEW p \in Orders, D!ManualAccept(p) PROVE Lifecycle!Next
    <2>1. /\ status[p] = "bot_notify_pending"
          /\ status'[p] = "bot_notify_accepted"
          /\ \A q \in Orders \ {p} : status'[q] = status[q]
      BY <1>1, <1>2 DEF D!ManualAccept, D!Pending, TypeOK
    <2>2. CreditsSame
      BY <1>1, <1>2 DEF D!ManualAccept, N!TypeOK, N!Bot, CreditsSame
    <2> QED BY <2>1, <2>2, Answers, LifeClose
  <1>3. CASE UNCHANGED <<status, bot>>
    BY <1>3, Answers, LifeStutter DEF AnswerSame, CreditsSame
  <1> QED BY <1>2, <1>3
          DEF D!OperatorStep, D!TimePasses, D!ReviewAcknowledge, D!ReviewResolve, D!ReviewResend,
              D!ResolveReviews, D!RequeueFailedDeliveries, D!RetryComesDue, D!ClaimGoesStale

LEMMA LifeStart == BridgeInit => Lifecycle!Init
  <1> SUFFICES ASSUME BridgeInit PROVE Lifecycle!Init
    OBVIOUS
  <1>1. MoneyInv /\ Init
    BY BridgeStart DEF BridgeInit, BridgeInv
  <1>2. \A o \in Orders : link[o].gid \in GatewayIds
    BY <1>1 DEF MoneyInv, TypeOK, Link
  <1>3. \A o \in Orders : Money(o) = "unpaid"
    BY <1>1, <1>2, InitFacts DEF Money
  <1>4. \A o \in Orders : Answer(o) = "open"
    BY <1>1, InitFacts, Answers DEF DELIVERY_STATUSES
  <1>5. \A o \in Orders : bot[o].effects = 0
    BY DEF BridgeInit
  <1>6. [o \in Orders |-> Handed(o)] \in [Orders -> BOOLEAN]
    BY DEF Handed
  <1> QED BY <1>3, <1>4, <1>5, <1>6 DEF Lifecycle!Init

LEMMA LifeStep ==
    ASSUME RetryMode = "safe", BridgeInv, [BridgeNext]_bridgeVars
    PROVE  [Lifecycle!Next]_Lifecycle!lifecycle
  <1>1. CASE MoneyStep
    BY <1>1, MoneyLife
  <1>2. CASE DeliveryStep
    <2>1. MoneySame /\ HandedSame
      BY <1>2 DEF DeliveryStep, gatewayVars, MoneySame, HandedSame, Money, Handed
    <2> QED BY <1>2, <2>1, WorkerLife, OperatorLife DEF DeliveryStep, D!DeliveryStep
  <1>3. CASE UNCHANGED <<ledgerVars, deliveryVars>>
    <2>1. UNCHANGED <<status, link, receipt, issued, bot>>
      BY <1>3 DEF ledgerVars, deliveryVars
    <2>2. MoneySame /\ HandedSame /\ AnswerSame /\ CreditsSame
      BY <2>1 DEF MoneySame, HandedSame, AnswerSame, CreditsSame, Money, Handed, Answer
    <2> QED BY <2>2, LifeStutter
  <1> QED BY <1>1, <1>2, <1>3
          DEF BridgeNext, bridgeVars, ResolveAttention, GraceEnds, PendingTooLong

(* In safe mode, from the first request to the bot's answer and for any    *)
(* number of orders: only the right payment is confirmed, only a confirmed *)
(* order is credited, at most once, no decision is taken back, and money   *)
(* paid on a link the bot was given is never lost sight of.                *)
THEOREM BridgeKeepsItsPromise ==
    ASSUME RetryMode = "safe"
    PROVE  BridgeSpec => ImplementsLifecycle
  <1>1. BridgeInv /\ [BridgeNext]_bridgeVars => [Lifecycle!Next]_Lifecycle!lifecycle
    BY LifeStep
  <1> QED BY <1>1, LifeStart, BridgeInvariant, PTL
          DEF BridgeSpec, ImplementsLifecycle, Lifecycle!Spec

=============================================================================
