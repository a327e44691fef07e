----------------------------- MODULE AlertProofs -----------------------------
(***************************************************************************)
(* Proofs about the alert outbox and the monitor's incidents, for any      *)
(* number of alerts, passes and overlapping monitors.                      *)
(***************************************************************************)
EXTENDS Incidents, FiniteSetTheorems, WellFoundedInduction, TLAPS

-----------------------------------------------------------------------------
(* The outbox. *)

(* Rows are a table, and an open transaction's row is not in it yet: its   *)
(* id was drawn for it alone.  Without this a commit might overwrite a     *)
(* delivered alert.                                                        *)
CreationInv ==
    /\ alert \in [Alerts -> Alert]
    /\ sender \in [Senders -> [work : SUBSET [alert : Alerts, attempt : Nat],
                               result : Results \cup {"none"}]]
    /\ ids \in Nat
    /\ \A a \in Alerts : a > ids => alert[a].status = "absent"
    /\ \A d \in drafts : /\ d.id \in Alerts
                         /\ d.id <= ids
                         /\ d.row \in Alert
                         /\ d.row.status \in {"pending", "suppressed"}
                         /\ alert[d.id].status = "absent"
    /\ \A d, e \in drafts : d.id = e.id => d = e

(* What a column update leaves of a row. *)
LEMMA ReleasedLemma ==
    ASSUME NEW row \in Alert
    PROVE  /\ Released(row) \in Alert
           /\ Released(row).status = "pending"
           /\ Released(row).key = row.key
  BY DEF Released, Alert

LEMMA ClaimedLemma ==
    ASSUME NEW row \in Alert, NEW s \in Senders
    PROVE  /\ Claimed(row, s) \in Alert
           /\ Claimed(row, s).status = "sending"
           /\ Claimed(row, s).key = row.key
  <1>1. row.attempts + 1 \in Nat
    BY DEF Alert
  <1> QED BY <1>1 DEF Claimed, Alert

LEMMA NewAlertLemma ==
    ASSUME NEW st \in {"absent", "pending", "suppressed"}, NEW key \in Keys \cup {NoKey}
    PROVE  /\ NewAlert(st, key) \in Alert
           /\ NewAlert(st, key).status = st
           /\ NewAlert(st, key).key = key
  BY DEF NewAlert, Alert

(* A recorded row is delivered only by a delivered result. *)
LEMMA RecordedLemma ==
    ASSUME NEW s, alert[Current(s).alert] \in Alert
    PROVE  /\ Recorded(s) \in Alert
           /\ Recorded(s).status \in {"delivered", "retry_scheduled", "failed"}
           /\ Recorded(s).status = "delivered" => sender[s].result = "delivered"
           /\ Recorded(s).key = alert[Current(s).alert].key
  <1> DEFINE row == [alert[Current(s).alert] EXCEPT !.claim = "none", !.by = NoOne]
  <1>1. row \in Alert /\ row.key = alert[Current(s).alert].key
    BY DEF Alert
  <1> HIDE DEF row
  <1>2. /\ [row EXCEPT !.status = "delivered", !.retry = "null"] \in Alert
        /\ [row EXCEPT !.status = "retry_scheduled", !.retry = "later"] \in Alert
        /\ [row EXCEPT !.status = "failed", !.retry = "null"] \in Alert
        /\ [row EXCEPT !.status = "delivered", !.retry = "null"].status = "delivered"
        /\ [row EXCEPT !.status = "retry_scheduled", !.retry = "later"].status = "retry_scheduled"
        /\ [row EXCEPT !.status = "failed", !.retry = "null"].status = "failed"
        /\ [row EXCEPT !.status = "delivered", !.retry = "null"].key = row.key
        /\ [row EXCEPT !.status = "retry_scheduled", !.retry = "later"].key = row.key
        /\ [row EXCEPT !.status = "failed", !.retry = "null"].key = row.key
    BY <1>1 DEF Alert
  <1>3. Recorded(s) =
          CASE sender[s].result = "delivered" ->
                 [row EXCEPT !.status = "delivered", !.retry = "null"]
            [] sender[s].result = "retryable" /\ Current(s).attempt < MaxAttempts ->
                 [row EXCEPT !.status = "retry_scheduled", !.retry = "later"]
            [] OTHER -> [row EXCEPT !.status = "failed", !.retry = "null"]
    BY DEF Recorded, row
  <1>4. CASE sender[s].result = "delivered"
    <2>1. Recorded(s) = [row EXCEPT !.status = "delivered", !.retry = "null"]
      BY <1>3, <1>4
    <2> QED BY <1>1, <1>2, <1>4, <2>1
  <1>5. CASE sender[s].result = "retryable" /\ Current(s).attempt < MaxAttempts
    <2>1. Recorded(s) = [row EXCEPT !.status = "retry_scheduled", !.retry = "later"]
      BY <1>3, <1>5
    <2> QED BY <1>1, <1>2, <2>1
  <1>6. CASE /\ sender[s].result # "delivered"
             /\ ~(sender[s].result = "retryable" /\ Current(s).attempt < MaxAttempts)
    <2>1. Recorded(s) = [row EXCEPT !.status = "failed", !.retry = "null"]
      BY <1>3, <1>6
    <2> QED BY <1>1, <1>2, <2>1
  <1> QED BY <1>4, <1>5, <1>6

-----------------------------------------------------------------------------
LEMMA CreationInit == OutboxInit => CreationInv
  <1> SUFFICES ASSUME OutboxInit PROVE CreationInv
    OBVIOUS
  <1>1. NewAlert("absent", NoKey) \in Alert /\ NewAlert("absent", NoKey).status = "absent"
    BY NewAlertLemma
  <1>2. IdleSender \in [work : SUBSET [alert : Alerts, attempt : Nat],
                        result : Results \cup {"none"}]
    BY DEF IdleSender
  <1> QED BY <1>1, <1>2 DEF OutboxInit, CreationInv

(* A row keeps its type and an unused id stays unused when only rows that  *)
(* exist are rewritten.                                                    *)
LEMMA CreationKept ==
    ASSUME CreationInv, UNCHANGED <<drafts, ids>>,
           alert' \in [Alerts -> Alert],
           \A a \in Alerts : alert[a].status = "absent" => alert'[a].status = "absent",
           sender' \in [Senders -> [work : SUBSET [alert : Alerts, attempt : Nat],
                                    result : Results \cup {"none"}]]
    PROVE  CreationInv'
  BY DEF CreationInv, Alerts

LEMMA CreationStepLemma == CreationInv /\ [OutboxNext]_outboxVars => CreationInv'
  <1> SUFFICES ASSUME CreationInv, [OutboxNext]_outboxVars PROVE CreationInv'
    OBVIOUS
  <1>0. /\ alert \in [Alerts -> Alert]
        /\ sender \in [Senders -> [work : SUBSET [alert : Alerts, attempt : Nat],
                                   result : Results \cup {"none"}]]
    BY DEF CreationInv
  <1>1. ASSUME NEW s \in Senders, ClaimDueAlerts(s) PROVE CreationInv'
    <2>1. \A a \in Alerts :
            /\ alert[a] \in Alert
            /\ Claimed(alert[a], s) \in Alert
            /\ alert[a].attempts + 1 \in Nat
      <3> SUFFICES ASSUME NEW a \in Alerts
                   PROVE  /\ alert[a] \in Alert
                          /\ Claimed(alert[a], s) \in Alert
                          /\ alert[a].attempts + 1 \in Nat
        OBVIOUS
      <3>1. alert[a] \in Alert
        BY <1>0
      <3>2. alert[a].attempts + 1 \in Nat
        BY <3>1 DEF Alert
      <3> QED BY <3>1, <3>2, ClaimedLemma
    <2>2. FirstDue \subseteq Alerts
      BY DEF FirstDue, Due
    <2>3. \A a \in FirstDue : alert[a].status # "absent"
      BY DEF FirstDue, Due
    <2>4. alert' \in [Alerts -> Alert]
      BY <1>1, <2>1 DEF ClaimDueAlerts
    <2>5. \A a \in Alerts : alert[a].status = "absent" => alert'[a].status = "absent"
      BY <1>1, <2>3 DEF ClaimDueAlerts
    <2>6. {[alert |-> a, attempt |-> alert[a].attempts + 1] : a \in FirstDue}
             \in SUBSET [alert : Alerts, attempt : Nat]
      <3>1. \A a \in FirstDue : [alert |-> a, attempt |-> alert[a].attempts + 1]
                                   \in [alert : Alerts, attempt : Nat]
        BY <2>1, <2>2
      <3> QED BY <3>1
    <2>7. sender' \in [Senders -> [work : SUBSET [alert : Alerts, attempt : Nat],
                                   result : Results \cup {"none"}]]
      BY <1>0, <1>1, <2>6 DEF ClaimDueAlerts
    <2> QED BY <1>1, <2>4, <2>5, <2>7, CreationKept DEF ClaimDueAlerts
  <1>2. ASSUME NEW s \in Senders, NEW result \in Results, Deliver(s, result) PROVE CreationInv'
    <2>1. sender' \in [Senders -> [work : SUBSET [alert : Alerts, attempt : Nat],
                                   result : Results \cup {"none"}]]
      BY <1>0, <1>2 DEF Deliver
    <2> QED BY <1>0, <1>2, <2>1, CreationKept DEF Deliver
  <1>3. ASSUME NEW s \in Senders, RecordDeliveryResult(s) PROVE CreationInv'
    <2> DEFINE c == Current(s)
    <2>1. sender[s].work \ {c} \in SUBSET [alert : Alerts, attempt : Nat]
      BY <1>0
    <2>2. sender' \in [Senders -> [work : SUBSET [alert : Alerts, attempt : Nat],
                                   result : Results \cup {"none"}]]
      BY <1>0, <1>3, <2>1 DEF RecordDeliveryResult
    <2>3. CASE OwnsAlert(s) /\ c.alert \in Alerts
      <3>1. Recorded(s) \in Alert
        BY <1>0, <2>3, RecordedLemma
      <3>2. alert' = [alert EXCEPT ![c.alert] = Recorded(s)] /\ alert[c.alert].status # "absent"
        BY <1>3, <2>3 DEF RecordDeliveryResult, OwnsAlert
      <3>3. /\ alert' \in [Alerts -> Alert]
            /\ \A a \in Alerts : alert[a].status = "absent" => alert'[a].status = "absent"
        BY <1>0, <3>1, <3>2
      <3> QED BY <1>3, <2>2, <3>3, CreationKept DEF RecordDeliveryResult
    <2>4. CASE ~(OwnsAlert(s) /\ c.alert \in Alerts)
      <3>1. alert' = alert
        BY <1>0, <1>3, <2>4 DEF RecordDeliveryResult
      <3> QED BY <1>0, <1>3, <2>2, <3>1, CreationKept DEF RecordDeliveryResult
    <2> QED BY <2>3, <2>4
  <1>4. ASSUME NEW s \in Senders, AbortPass(s) PROVE CreationInv'
    <2>1. sender' \in [Senders -> [work : SUBSET [alert : Alerts, attempt : Nat],
                                   result : Results \cup {"none"}]]
      BY <1>0, <1>4 DEF AbortPass, IdleSender
    <2> QED BY <1>0, <1>4, <2>1, CreationKept DEF AbortPass
  <1>5. ASSUME NEW s \in Senders, ReleaseStaleAlertClaims(s) PROVE CreationInv'
    <2>1. \A a \in Alerts : alert[a] \in Alert /\ Released(alert[a]) \in Alert
      BY <1>0, ReleasedLemma
    <2>2. \A a \in StaleAlerts : alert[a].status # "absent"
      BY DEF StaleAlerts
    <2>3. /\ alert' \in [Alerts -> Alert]
          /\ \A a \in Alerts : alert[a].status = "absent" => alert'[a].status = "absent"
      BY <1>5, <2>1, <2>2 DEF ReleaseStaleAlertClaims
    <2> QED BY <1>0, <1>5, <2>3, CreationKept DEF ReleaseStaleAlertClaims
  <1>6. ASSUME NEW a \in Alerts, AlertClaimGoesStale(a) PROVE CreationInv'
    <2>1. /\ alert' \in [Alerts -> Alert]
          /\ \A b \in Alerts : alert'[b].status = alert[b].status
      BY <1>0, <1>6 DEF AlertClaimGoesStale, Alert
    <2> QED BY <1>0, <1>6, <2>1, CreationKept DEF AlertClaimGoesStale
  <1>7. ASSUME NEW a \in Alerts, AlertRetryComesDue(a) PROVE CreationInv'
    <2>1. /\ alert' \in [Alerts -> Alert]
          /\ \A b \in Alerts : alert'[b].status = alert[b].status
      BY <1>0, <1>7 DEF AlertRetryComesDue, Alert
    <2> QED BY <1>0, <1>7, <2>1, CreationKept DEF AlertRetryComesDue
  <1>8. ASSUME NEW a \in Alerts, DedupWindowPasses(a) PROVE CreationInv'
    <2>1. /\ alert' \in [Alerts -> Alert]
          /\ \A b \in Alerts : alert'[b].status = alert[b].status
      BY <1>0, <1>8 DEF DedupWindowPasses, Alert
    <2> QED BY <1>0, <1>8, <2>1, CreationKept DEF DedupWindowPasses
  <1>9. ASSUME NEW key \in Keys \cup {NoKey}, CreateAlert(key) PROVE CreationInv'
    <2> DEFINE st == IF Duplicate(key) THEN "suppressed" ELSE "pending"
    <2>1. st \in {"pending", "suppressed"}
      OBVIOUS
    <2> HIDE DEF st
    <2>2. NewAlert(st, key) \in Alert /\ NewAlert(st, key).status = st
      BY <2>1, NewAlertLemma
    <2>3. /\ drafts' = drafts \cup {[id |-> ids + 1, row |-> NewAlert(st, key)]}
          /\ ids' = ids + 1
          /\ ids < MaxAlerts
          /\ UNCHANGED <<alert, sender>>
      BY <1>9 DEF CreateAlert, st
    <2>4. ids + 1 \in Alerts /\ alert[ids + 1].status = "absent"
      BY <2>3, OutboxAssumption DEF CreationInv, Alerts
    <2> QED BY <2>1, <2>2, <2>3, <2>4 DEF CreationInv, Alerts
  <1>10. ASSUME NEW d \in drafts, EndCreation(d) PROVE CreationInv'
    <2>1. /\ drafts' = drafts \ {d}
          /\ UNCHANGED <<ids, sender>>
          /\ alert' = alert \/ alert' = [alert EXCEPT ![d.id] = d.row]
      BY <1>10 DEF EndCreation
    <2>2. alert' \in [Alerts -> Alert]
      BY <2>1 DEF CreationInv
    <2>3. \A a \in Alerts : a # d.id => alert'[a] = alert[a]
      BY <2>1 DEF CreationInv
    <2>4. \A e \in drafts' : e.id # d.id
      BY <2>1 DEF CreationInv
    <2> QED BY <2>1, <2>2, <2>3, <2>4 DEF CreationInv, Alerts
  <1>11. CASE UNCHANGED outboxVars
    BY <1>11 DEF outboxVars, CreationInv
  <1> QED BY <1>1, <1>2, <1>3, <1>4, <1>5, <1>6, <1>7, <1>8, <1>9, <1>10, <1>11
          DEF OutboxNext, DeliveryStep, CreationStep, SenderStep

-----------------------------------------------------------------------------
(* Delivered is real. *)

(* A pass that remembers a delivery really made it, for the alert whose    *)
(* turn it is, and remembers an outcome only while there is such an alert. *)
DeliveredInv ==
    /\ DeliveredIsReal
    /\ \A s \in Senders : sender[s].result = "delivered" => Current(s).alert \in reached
    /\ \A s \in Senders : sender[s].result # "none" => sender[s].work # {}

LEMMA DeliveredInit == OutboxInit => DeliveredInv
  <1>1. NewAlert("absent", NoKey).status = "absent"
    BY DEF NewAlert
  <1> QED BY <1>1 DEF OutboxInit, DeliveredInv, DeliveredIsReal, IdleSender

(* Enough for a step that remembers nothing new and makes no other row     *)
(* delivered.                                                              *)
LEMMA DeliveredKept ==
    ASSUME DeliveredInv, UNCHANGED reached,
           \A a \in Alerts : alert'[a].status = "delivered" =>
                                alert[a].status = "delivered" \/ a \in reached,
           \A s \in Senders : sender'[s].result # "none" => sender'[s] = sender[s]
    PROVE  DeliveredInv'
  <1>1. ASSUME NEW s \in Senders, sender'[s].result = "delivered"
        PROVE  Current(s)'.alert \in reached'
    <2>1. sender'[s] = sender[s] /\ sender[s].result = "delivered"
      BY <1>1
    <2>2. Current(s)' = Current(s)
      BY <2>1 DEF Current
    <2> QED BY <2>1, <2>2 DEF DeliveredInv
  <1>2. ASSUME NEW s \in Senders, sender'[s].result # "none" PROVE sender'[s].work # {}
    BY <1>2 DEF DeliveredInv
  <1> QED BY <1>1, <1>2 DEF DeliveredInv, DeliveredIsReal

LEMMA DeliveredStep == CreationInv /\ DeliveredInv /\ [OutboxNext]_outboxVars => DeliveredInv'
  <1> SUFFICES ASSUME CreationInv, DeliveredInv, [OutboxNext]_outboxVars PROVE DeliveredInv'
    OBVIOUS
  <1>0. /\ alert \in [Alerts -> Alert]
        /\ sender \in [Senders -> [work : SUBSET [alert : Alerts, attempt : Nat],
                                   result : Results \cup {"none"}]]
    BY DEF CreationInv
  <1>1. ASSUME NEW s \in Senders, ClaimDueAlerts(s) PROVE DeliveredInv'
    <2>1. \A a \in Alerts : Claimed(alert[a], s).status = "sending"
      BY <1>0, <1>1, ClaimedLemma
    <2>2. \A a \in Alerts : alert'[a].status = "delivered" => alert[a].status = "delivered"
      BY <1>1, <2>1 DEF ClaimDueAlerts
    <2>3. sender[s].result = "none"
      BY <1>1 DEF ClaimDueAlerts, DeliveredInv
    <2>4. \A t \in Senders : sender'[t].result # "none" => sender'[t] = sender[t]
      BY <1>0, <1>1, <2>3 DEF ClaimDueAlerts
    <2> QED BY <1>1, <2>2, <2>4, DeliveredKept DEF ClaimDueAlerts
  <1>2. ASSUME NEW s \in Senders, NEW result \in Results, Deliver(s, result) PROVE DeliveredInv'
    <2>1. /\ alert' = alert
          /\ reached \subseteq reached'
          /\ result = "delivered" => Current(s).alert \in reached'
          /\ sender[s].work # {}
      BY <1>2 DEF Deliver
    <2>2. /\ sender'[s].result = result
          /\ \A t \in Senders : sender'[t].work = sender[t].work
          /\ \A t \in Senders : t # s => sender'[t] = sender[t]
      BY <1>0, <1>2 DEF Deliver
    <2>3. \A t \in Senders : Current(t)' = Current(t)
      BY <2>2 DEF Current
    <2> QED BY <2>1, <2>2, <2>3 DEF DeliveredInv, DeliveredIsReal
  <1>3. ASSUME NEW s \in Senders, RecordDeliveryResult(s) PROVE DeliveredInv'
    <2> DEFINE c == Current(s)
    <2>1. \A t \in Senders : sender'[t].result # "none" => sender'[t] = sender[t]
      BY <1>0, <1>3 DEF RecordDeliveryResult
    <2>2. CASE OwnsAlert(s) /\ c.alert \in Alerts
      <3>1. Recorded(s).status = "delivered" => sender[s].result = "delivered"
        BY <1>0, <2>2, RecordedLemma
      <3>2. alert' = [alert EXCEPT ![c.alert] = Recorded(s)]
        BY <1>3, <2>2 DEF RecordDeliveryResult
      <3>3. Recorded(s).status = "delivered" => c.alert \in reached
        BY <1>3, <3>1 DEF DeliveredInv
      <3>4. \A a \in Alerts : alert'[a].status = "delivered" =>
                                 alert[a].status = "delivered" \/ a \in reached
        BY <1>0, <3>2, <3>3
      <3> QED BY <1>3, <2>1, <3>4, DeliveredKept DEF RecordDeliveryResult
    <2>3. CASE ~(OwnsAlert(s) /\ c.alert \in Alerts)
      <3>1. alert' = alert
        BY <1>0, <1>3, <2>3 DEF RecordDeliveryResult
      <3> QED BY <1>3, <2>1, <3>1, DeliveredKept DEF RecordDeliveryResult
    <2> QED BY <2>2, <2>3
  <1>4. ASSUME NEW s \in Senders, AbortPass(s) PROVE DeliveredInv'
    <2>1. \A t \in Senders : sender'[t].result # "none" => sender'[t] = sender[t]
      BY <1>0, <1>4 DEF AbortPass, IdleSender
    <2> QED BY <1>4, <2>1, DeliveredKept DEF AbortPass
  <1>5. ASSUME NEW s \in Senders, ReleaseStaleAlertClaims(s) PROVE DeliveredInv'
    <2>1. \A a \in Alerts : Released(alert[a]).status = "pending"
      BY <1>0, ReleasedLemma
    <2>2. \A a \in Alerts : alert'[a].status = "delivered" => alert[a].status = "delivered"
      BY <1>5, <2>1 DEF ReleaseStaleAlertClaims
    <2> QED BY <1>5, <2>2, DeliveredKept DEF ReleaseStaleAlertClaims
  <1>6. ASSUME NEW a \in Alerts, AlertClaimGoesStale(a) PROVE DeliveredInv'
    <2>1. \A b \in Alerts : alert'[b].status = alert[b].status
      BY <1>0, <1>6 DEF AlertClaimGoesStale, Alert
    <2> QED BY <1>6, <2>1, DeliveredKept DEF AlertClaimGoesStale
  <1>7. ASSUME NEW a \in Alerts, AlertRetryComesDue(a) PROVE DeliveredInv'
    <2>1. \A b \in Alerts : alert'[b].status = alert[b].status
      BY <1>0, <1>7 DEF AlertRetryComesDue, Alert
    <2> QED BY <1>7, <2>1, DeliveredKept DEF AlertRetryComesDue
  <1>8. ASSUME NEW a \in Alerts, DedupWindowPasses(a) PROVE DeliveredInv'
    <2>1. \A b \in Alerts : alert'[b].status = alert[b].status
      BY <1>0, <1>8 DEF DedupWindowPasses, Alert
    <2> QED BY <1>8, <2>1, DeliveredKept DEF DedupWindowPasses
  <1>9. ASSUME NEW key \in Keys \cup {NoKey}, CreateAlert(key) PROVE DeliveredInv'
    BY <1>9, DeliveredKept DEF CreateAlert
  <1>10. ASSUME NEW d \in drafts, EndCreation(d) PROVE DeliveredInv'
    <2>1. \A a \in Alerts : alert'[a].status = "delivered" => alert[a].status = "delivered"
      BY <1>10 DEF EndCreation, CreationInv
    <2> QED BY <1>10, <2>1, DeliveredKept DEF EndCreation
  <1>11. CASE UNCHANGED outboxVars
    BY <1>11, DeliveredKept DEF outboxVars
  <1> QED BY <1>1, <1>2, <1>3, <1>4, <1>5, <1>6, <1>7, <1>8, <1>9, <1>10, <1>11
          DEF OutboxNext, DeliveryStep, CreationStep, SenderStep

(* No alert is marked delivered (record_delivery_result) unless Telegram   *)
(* accepted it for some administrator, through any number of overlapping   *)
(* passes, lost claims and dead passes.                                    *)
THEOREM DeliveryIsReal == OutboxSpec => []DeliveredIsReal
  <1>1. OutboxInit => CreationInv /\ DeliveredInv
    BY CreationInit, DeliveredInit
  <1>2. CreationInv /\ DeliveredInv /\ [OutboxNext]_outboxVars => CreationInv' /\ DeliveredInv'
    BY CreationStepLemma, DeliveredStep
  <1>3. DeliveredInv => DeliveredIsReal
    BY DEF DeliveredInv
  <1> QED BY <1>1, <1>2, <1>3, PTL DEF OutboxSpec

-----------------------------------------------------------------------------
(* Outcomes are final. *)

Final == {"delivered", "failed", "suppressed"}

LEMMA FinalStep ==
    ASSUME CreationInv, [OutboxNext]_outboxVars, NEW b \in Alerts, alert[b].status \in Final
    PROVE  alert'[b].status = alert[b].status
  <1>0. alert \in [Alerts -> Alert]
    BY DEF CreationInv
  <1> USE DEF Final
  <1>1. ASSUME NEW s \in Senders, ClaimDueAlerts(s) PROVE alert'[b] = alert[b]
    <2>1. b \notin FirstDue
      BY DEF FirstDue, Due
    <2> QED BY <1>1, <2>1 DEF ClaimDueAlerts
  <1>2. ASSUME NEW s \in Senders, RecordDeliveryResult(s) PROVE alert'[b] = alert[b]
    <2>1. OwnsAlert(s) => Current(s).alert # b
      BY DEF OwnsAlert
    <2> QED BY <1>0, <1>2, <2>1 DEF RecordDeliveryResult
  <1>3. ASSUME NEW s \in Senders, ReleaseStaleAlertClaims(s) PROVE alert'[b] = alert[b]
    <2>1. b \notin StaleAlerts
      BY DEF StaleAlerts
    <2> QED BY <1>3, <2>1 DEF ReleaseStaleAlertClaims
  <1>4. ASSUME NEW a \in Alerts,
               AlertClaimGoesStale(a) \/ AlertRetryComesDue(a) \/ DedupWindowPasses(a)
        PROVE  alert'[b].status = alert[b].status
    BY <1>0, <1>4 DEF AlertClaimGoesStale, AlertRetryComesDue, DedupWindowPasses, Alert
  <1>5. ASSUME NEW d \in drafts, EndCreation(d) PROVE alert'[b] = alert[b]
    BY <1>5 DEF EndCreation, CreationInv
  <1>6. ASSUME NEW s \in Senders, NEW result \in Results, Deliver(s, result) PROVE alert' = alert
    BY <1>6 DEF Deliver
  <1>7. ASSUME NEW s \in Senders, AbortPass(s) PROVE alert' = alert
    BY <1>7 DEF AbortPass
  <1>8. ASSUME NEW key \in Keys \cup {NoKey}, CreateAlert(key) PROVE alert' = alert
    BY <1>8 DEF CreateAlert
  <1>9. CASE UNCHANGED outboxVars
    BY <1>9 DEF outboxVars
  <1> QED BY <1>1, <1>2, <1>3, <1>4, <1>5, <1>6, <1>7, <1>8, <1>9
          DEF OutboxNext, DeliveryStep, CreationStep, SenderStep

(* No late result, stale-claim release or commit of another transaction    *)
(* changes an alert that was delivered, given up or suppressed.            *)
THEOREM OutcomesAreFinal == OutboxSpec => OutboxFinal
  <1>1. CreationInv /\ [OutboxNext]_outboxVars =>
          [\A a \in Alerts : alert[a].status \in {"delivered", "failed", "suppressed"} =>
              alert'[a].status = alert[a].status]_outboxVars
    BY FinalStep DEF Final
  <1> QED BY <1>1, CreationInit, CreationStepLemma, PTL DEF OutboxSpec, OutboxFinal

-----------------------------------------------------------------------------
(* Deduplication never silences a key. *)

(* A committed alert of this key is or was on its way. *)
Covered(key) ==
    /\ key # NoKey
    /\ \E b \in Alerts : /\ alert[b].key = key
                         /\ alert[b].status \notin {"absent", "suppressed"}

(* The row that made a draft a duplicate is still there when the draft     *)
(* commits, however late that is.                                          *)
CoveredInv ==
    /\ SuppressedIsCovered
    /\ \A d \in drafts : d.row.status = "suppressed" => Covered(d.row.key)

LEMMA CoveredInit == OutboxInit => CoveredInv
  <1>1. NewAlert("absent", NoKey).status = "absent"
    BY DEF NewAlert
  <1> QED BY <1>1 DEF OutboxInit, CoveredInv, SuppressedIsCovered

(* Enough for a step that keeps the key of every row on its way, and lets  *)
(* no row but a covered one become suppressed.                             *)
LEMMA CoveredKept ==
    ASSUME CoveredInv, drafts' \subseteq drafts,
           \A a \in Alerts : alert[a].status \notin {"absent", "suppressed"} =>
                 /\ alert'[a].key = alert[a].key
                 /\ alert'[a].status \notin {"absent", "suppressed"},
           \A a \in Alerts : alert'[a].status = "suppressed" =>
                 \/ alert[a].status = "suppressed" /\ alert'[a].key = alert[a].key
                 \/ Covered(alert'[a].key)
    PROVE  CoveredInv'
  <1>1. ASSUME NEW key, Covered(key) PROVE Covered(key)'
    <2>1. PICK b \in Alerts : /\ alert[b].key = key
                              /\ alert[b].status \notin {"absent", "suppressed"}
      BY <1>1 DEF Covered
    <2>2. alert'[b].key = key /\ alert'[b].status \notin {"absent", "suppressed"}
      BY <2>1
    <2> QED BY <1>1, <2>2 DEF Covered
  <1>2. ASSUME NEW a \in Alerts, alert'[a].status = "suppressed"
        PROVE  Covered(alert'[a].key)
    <2>1. CASE alert[a].status = "suppressed" /\ alert'[a].key = alert[a].key
      BY <2>1 DEF CoveredInv, SuppressedIsCovered, Covered
    <2>2. CASE Covered(alert'[a].key)
      BY <2>2
    <2> QED BY <1>2, <2>1, <2>2
  <1>3. ASSUME NEW a \in Alerts, alert'[a].status = "suppressed"
        PROVE  /\ alert'[a].key # NoKey
               /\ \E b \in Alerts : /\ alert'[b].key = alert'[a].key
                                    /\ alert'[b].status \notin {"absent", "suppressed"}
    BY <1>1, <1>2, <1>3 DEF Covered
  <1>4. ASSUME NEW d \in drafts', d.row.status = "suppressed" PROVE Covered(d.row.key)'
    BY <1>1, <1>4 DEF CoveredInv
  <1> QED BY <1>3, <1>4 DEF CoveredInv, SuppressedIsCovered

LEMMA CoveredStep == CreationInv /\ CoveredInv /\ [OutboxNext]_outboxVars => CoveredInv'
  <1> SUFFICES ASSUME CreationInv, CoveredInv, [OutboxNext]_outboxVars PROVE CoveredInv'
    OBVIOUS
  <1>0. alert \in [Alerts -> Alert]
    BY DEF CreationInv
  <1>1. ASSUME NEW s \in Senders, ClaimDueAlerts(s) PROVE CoveredInv'
    <2>1. \A a \in Alerts : /\ Claimed(alert[a], s).status = "sending"
                            /\ Claimed(alert[a], s).key = alert[a].key
      BY <1>0, ClaimedLemma
    <2>2. \A a \in Alerts : \/ alert'[a] = alert[a]
                            \/ alert'[a].status = "sending" /\ alert'[a].key = alert[a].key
      BY <1>1, <2>1 DEF ClaimDueAlerts
    <2> QED BY <1>1, <2>2, CoveredKept DEF ClaimDueAlerts
  <1>2. ASSUME NEW s \in Senders, RecordDeliveryResult(s) PROVE CoveredInv'
    <2> DEFINE c == Current(s)
    <2>1. CASE OwnsAlert(s) /\ c.alert \in Alerts
      <3>1. /\ Recorded(s).status \in {"delivered", "retry_scheduled", "failed"}
            /\ Recorded(s).key = alert[c.alert].key
        BY <1>0, <2>1, RecordedLemma
      <3>2. alert' = [alert EXCEPT ![c.alert] = Recorded(s)]
        BY <1>2, <2>1 DEF RecordDeliveryResult
      <3>3. \A a \in Alerts :
              \/ alert'[a] = alert[a]
              \/ /\ alert'[a].status \in {"delivered", "retry_scheduled", "failed"}
                 /\ alert'[a].key = alert[a].key
        BY <1>0, <3>1, <3>2
      <3> QED BY <1>2, <3>3, CoveredKept DEF RecordDeliveryResult
    <2>2. CASE ~(OwnsAlert(s) /\ c.alert \in Alerts)
      <3>1. alert' = alert
        BY <1>0, <1>2, <2>2 DEF RecordDeliveryResult
      <3> QED BY <1>2, <3>1, CoveredKept DEF RecordDeliveryResult
    <2> QED BY <2>1, <2>2
  <1>3. ASSUME NEW s \in Senders, ReleaseStaleAlertClaims(s) PROVE CoveredInv'
    <2>1. \A a \in Alerts : /\ Released(alert[a]).status = "pending"
                            /\ Released(alert[a]).key = alert[a].key
      BY <1>0, ReleasedLemma
    <2>2. \A a \in Alerts : \/ alert'[a] = alert[a]
                            \/ alert'[a].status = "pending" /\ alert'[a].key = alert[a].key
      BY <1>3, <2>1 DEF ReleaseStaleAlertClaims
    <2> QED BY <1>3, <2>2, CoveredKept DEF ReleaseStaleAlertClaims
  <1>4. ASSUME NEW a \in Alerts,
               AlertClaimGoesStale(a) \/ AlertRetryComesDue(a) \/ DedupWindowPasses(a)
        PROVE  CoveredInv'
    <2>1. \A b \in Alerts : alert'[b].status = alert[b].status /\ alert'[b].key = alert[b].key
      BY <1>0, <1>4 DEF AlertClaimGoesStale, AlertRetryComesDue, DedupWindowPasses, Alert
    <2>2. drafts' = drafts
      BY <1>4 DEF AlertClaimGoesStale, AlertRetryComesDue, DedupWindowPasses
    <2> QED BY <2>1, <2>2, CoveredKept
  <1>5. ASSUME NEW key \in Keys \cup {NoKey}, CreateAlert(key) PROVE CoveredInv'
    <2> DEFINE st == IF Duplicate(key) THEN "suppressed" ELSE "pending"
               new == [id |-> ids + 1, row |-> NewAlert(st, key)]
    <2>1. new.row.status = st /\ new.row.key = key
      BY NewAlertLemma
    <2>2. new.row.status = "suppressed" => Covered(new.row.key)
      BY <2>1 DEF Duplicate, Covered
    <2> HIDE DEF st
    <2>3. alert' = alert /\ drafts' = drafts \cup {new}
      BY <1>5 DEF CreateAlert, st
    <2>4. \A d \in drafts' : d.row.status = "suppressed" => Covered(d.row.key)
      BY <2>2, <2>3 DEF CoveredInv
    <2>5. \A d \in drafts' : d.row.status = "suppressed" => Covered(d.row.key)'
      BY <2>3, <2>4 DEF Covered
    <2> QED BY <2>3, <2>5 DEF CoveredInv, SuppressedIsCovered
  <1>6. ASSUME NEW d \in drafts, EndCreation(d) PROVE CoveredInv'
    <2>1. /\ d.id \in Alerts
          /\ alert[d.id].status = "absent"
          /\ drafts' \subseteq drafts
      BY <1>6 DEF CreationInv, EndCreation
    <2>2. CASE alert' = alert
      BY <2>1, <2>2, CoveredKept
    <2>3. CASE alert' = [alert EXCEPT ![d.id] = d.row]
      <3>1. \A a \in Alerts : alert'[a] = IF a = d.id THEN d.row ELSE alert[a]
        BY <1>0, <2>3
      <3>2. \A a \in Alerts : alert[a].status \notin {"absent", "suppressed"} =>
                alert'[a] = alert[a]
        BY <2>1, <3>1
      <3>3. \A a \in Alerts : alert'[a].status = "suppressed" =>
               alert'[a] = alert[a] \/ Covered(alert'[a].key)
        BY <3>1 DEF CoveredInv
      <3> QED BY <2>1, <3>2, <3>3, CoveredKept
    <2> QED BY <1>6, <2>2, <2>3 DEF EndCreation
  <1>7. CASE UNCHANGED <<alert, drafts>>
    BY <1>7, CoveredKept
  <1>8. ASSUME NEW s \in Senders, NEW result \in Results, Deliver(s, result)
        PROVE  UNCHANGED <<alert, drafts>>
    BY <1>8 DEF Deliver
  <1>9. ASSUME NEW s \in Senders, AbortPass(s) PROVE UNCHANGED <<alert, drafts>>
    BY <1>9 DEF AbortPass
  <1>10. CASE UNCHANGED outboxVars
    BY <1>7, <1>10 DEF outboxVars
  <1> QED BY <1>1, <1>2, <1>3, <1>4, <1>5, <1>6, <1>7, <1>8, <1>9, <1>10
          DEF OutboxNext, DeliveryStep, CreationStep, SenderStep

(* create_alert suppresses an alert only in favour of one of the same key  *)
(* that is or was on its way, also when the suppressing transaction        *)
(* commits long after it looked; alerts without a key are never suppressed.*)
THEOREM SuppressionIsCovered == OutboxSpec => []SuppressedIsCovered
  <1>1. OutboxInit => CreationInv /\ CoveredInv
    BY CreationInit, CoveredInit
  <1>2. CreationInv /\ CoveredInv /\ [OutboxNext]_outboxVars => CreationInv' /\ CoveredInv'
    BY CreationStepLemma, CoveredStep
  <1>3. CoveredInv => SuppressedIsCovered
    BY DEF CoveredInv
  <1> QED BY <1>1, <1>2, <1>3, PTL DEF OutboxSpec

-----------------------------------------------------------------------------
(* Types. *)

(* A batch in progress has a first alert. *)
LEMMA FirstInWork ==
    ASSUME NEW work \in SUBSET [alert : Alerts, attempt : Nat], work # {}
    PROVE  First(work) \in work
  <1> DEFINE less == OpToRel(<, Nat)
             turns == {c.alert : c \in work}
  <1>1. turns \subseteq Nat /\ turns # {}
    BY DEF Alerts
  <1>2. PICK n \in turns : \A m \in turns : <<m, n>> \notin less
    BY <1>1, NatLessThanWellFounded, WFMin
  <1>3. \A m \in turns : n <= m
    <2>1. \A m, k \in Nat : m < k => <<m, k>> \in less
      BY Zenon DEF OpToRel
    <2> HIDE DEF less, turns
    <2>2. \A m \in turns : m \in Nat /\ n \in Nat /\ ~(m < n)
      BY <1>1, <1>2, <2>1
    <2> QED BY <2>2
  <1>4. \E c \in work : \A d \in work : c.alert <= d.alert
    BY <1>3
  <1> QED BY <1>4 DEF First

(* What OutboxTypeOK says beyond CreationInv. *)
RangeInv ==
    /\ drafts \subseteq [id : Alerts, row : Alert]
    /\ ids \in 0..MaxAlerts
    /\ reached \subseteq Alerts
    /\ faults \in 0..MaxFaults

LEMMA TypeFromRange == CreationInv /\ RangeInv => OutboxTypeOK
  BY DEF CreationInv, RangeInv, OutboxTypeOK, Sender

LEMMA RangeInit == OutboxInit => RangeInv
  BY OutboxAssumption DEF OutboxInit, RangeInv

LEMMA FaultLemma == RangeInv /\ (Fault \/ UNCHANGED faults) => faults' \in 0..MaxFaults
  BY OutboxAssumption DEF RangeInv, Fault

LEMMA RangeStep == CreationInv /\ RangeInv /\ [OutboxNext]_outboxVars => RangeInv'
  <1> SUFFICES ASSUME CreationInv, RangeInv, [OutboxNext]_outboxVars PROVE RangeInv'
    OBVIOUS
  <1>1. ASSUME NEW s \in Senders, NEW result \in Results, Deliver(s, result) PROVE RangeInv'
    <2>1. sender[s].work \in SUBSET [alert : Alerts, attempt : Nat] /\ sender[s].work # {}
      BY <1>1 DEF Deliver, CreationInv
    <2>2. Current(s).alert \in Alerts
      BY <2>1, FirstInWork DEF Current
    <2>3. faults' \in 0..MaxFaults
      BY <1>1, FaultLemma DEF Deliver
    <2> QED BY <1>1, <2>2, <2>3 DEF Deliver, RangeInv
  <1>2. ASSUME NEW s \in Senders, AbortPass(s) PROVE RangeInv'
    BY <1>2, FaultLemma DEF AbortPass, RangeInv
  <1>3. ASSUME NEW a \in Alerts, AlertClaimGoesStale(a) PROVE RangeInv'
    BY <1>3, FaultLemma DEF AlertClaimGoesStale, RangeInv
  <1>4. ASSUME NEW key \in Keys \cup {NoKey}, CreateAlert(key) PROVE RangeInv'
    <2> DEFINE st == IF Duplicate(key) THEN "suppressed" ELSE "pending"
    <2>1. st \in {"absent", "pending", "suppressed"}
      OBVIOUS
    <2> HIDE DEF st
    <2>2. NewAlert(st, key) \in Alert
      BY <2>1, NewAlertLemma
    <2>3. ids + 1 \in Alerts
      BY <1>4, OutboxAssumption DEF CreateAlert, RangeInv, Alerts
    <2>4. /\ drafts' = drafts \cup {[id |-> ids + 1, row |-> NewAlert(st, key)]}
          /\ ids' = ids + 1
          /\ UNCHANGED <<reached, faults>>
      BY <1>4 DEF CreateAlert, st
    <2> QED BY <2>2, <2>3, <2>4, OutboxAssumption DEF RangeInv, Alerts
  <1>5. ASSUME NEW d \in drafts, EndCreation(d) PROVE RangeInv'
    BY <1>5 DEF EndCreation, RangeInv
  <1>6. CASE UNCHANGED <<drafts, ids, reached, faults>>
    BY <1>6 DEF RangeInv
  <1>7. ASSUME NEW s \in Senders,
               ClaimDueAlerts(s) \/ RecordDeliveryResult(s) \/ ReleaseStaleAlertClaims(s)
        PROVE  UNCHANGED <<drafts, ids, reached, faults>>
    BY <1>7 DEF ClaimDueAlerts, RecordDeliveryResult, ReleaseStaleAlertClaims
  <1>8. ASSUME NEW a \in Alerts, AlertRetryComesDue(a) \/ DedupWindowPasses(a)
        PROVE  UNCHANGED <<drafts, ids, reached, faults>>
    BY <1>8 DEF AlertRetryComesDue, DedupWindowPasses
  <1>9. CASE UNCHANGED outboxVars
    BY <1>6, <1>9 DEF outboxVars
  <1> QED BY <1>1, <1>2, <1>3, <1>4, <1>5, <1>6, <1>7, <1>8, <1>9
          DEF OutboxNext, DeliveryStep, CreationStep, SenderStep

(* Every row, open transaction and pass of the outbox (admin_alerts,       *)
(* deliver_pending_alerts) keeps its type: an id names one alert, a pass   *)
(* works on alerts that exist, and only existing alerts reach anybody.     *)
THEOREM OutboxTypeCorrect == OutboxSpec => []OutboxTypeOK
  <1>1. OutboxInit => CreationInv /\ RangeInv
    BY CreationInit, RangeInit
  <1>2. CreationInv /\ RangeInv /\ [OutboxNext]_outboxVars => CreationInv' /\ RangeInv'
    BY CreationStepLemma, RangeStep
  <1> QED BY <1>1, <1>2, TypeFromRange, PTL DEF OutboxSpec

-----------------------------------------------------------------------------
(* Incidents. *)

(* The incident's own columns and the history of what alerts report. *)
IncidentTypes ==
    /\ condition \in Severities \cup {"ok"}
    /\ enabled \in BOOLEAN
    /\ changes \in 0..MaxChanges
    /\ observed \in [Monitors -> Severities \cup {"ok", "none"}]
    /\ incident \in Incident
    /\ about \in [Alerts -> Report]

(* Incident alerts are not created by the outbox's own transactions, so an *)
(* id that was not drawn reports nothing.                                  *)
ReportInv ==
    /\ drafts = {}
    /\ \A a \in Alerts : a > ids => about[a].severity = "ok"
    /\ \A a \in Alerts : about[a].incident <= incident.number

(* The alerts of an incident that were not given up. *)
LiveOf(number) == {a \in Alerts : /\ about[a].incident = number
                                  /\ about[a].severity # "ok"
                                  /\ alert[a].status # "failed"}

Live == LiveOf(incident.number)

(* NoAlertSpam alone does not survive a catch-up.  What makes room for one *)
(* is that the alert the incident remembers is the only one beyond the     *)
(* escalations, and that none is beyond them while it remembers none.      *)
SpamInv ==
    incident.open =>
        /\ Cardinality(Live \ {incident.last}) <= incident.rises
        /\ ~incident.alerted => Cardinality(Live) <= incident.rises
        /\ incident.alerted => incident.last # 0

MonitorInv == CreationInv /\ RangeInv /\ IncidentTypes /\ ReportInv /\ SpamInv

LEMMA LiveFinite ==
    ASSUME NEW number
    PROVE  IsFiniteSet(LiveOf(number)) /\ Cardinality(LiveOf(number)) \in Nat
  <1>1. IsFiniteSet(Alerts)
    BY OutboxAssumption, FS_Interval DEF Alerts
  <1>2. IsFiniteSet(LiveOf(number))
    BY <1>1, FS_Subset DEF LiveOf
  <1> QED BY <1>2, FS_CardinalityType

(* One alert more than without the remembered one, at most. *)
LEMMA LiveWithout ==
    ASSUME NEW S, IsFiniteSet(S), NEW x
    PROVE  /\ IsFiniteSet(S \ {x})
           /\ Cardinality(S \ {x}) \in Nat
           /\ Cardinality(S) \in Nat
           /\ Cardinality(S) <= Cardinality(S \ {x}) + 1
           /\ x \notin S => Cardinality(S \ {x}) = Cardinality(S)
  <1>1. /\ IsFiniteSet(S \ {x})
        /\ Cardinality(S \ {x}) = IF x \in S THEN Cardinality(S) - 1 ELSE Cardinality(S)
    BY FS_RemoveElement
  <1>2. Cardinality(S) \in Nat /\ Cardinality(S \ {x}) \in Nat
    BY <1>1, FS_CardinalityType
  <1> QED BY <1>1, <1>2

LEMMA SpamFromInv == SpamInv /\ IncidentTypes => NoAlertSpam
  <1> SUFFICES ASSUME SpamInv, IncidentTypes, incident.open
               PROVE  Cardinality(Live) <= 1 + incident.rises
    BY DEF NoAlertSpam, Live, LiveOf
  <1>1. incident.rises \in Nat
    BY DEF IncidentTypes, Incident
  <1>2. IsFiniteSet(Live)
    BY LiveFinite DEF Live
  <1>3. /\ Cardinality(Live) <= Cardinality(Live \ {incident.last}) + 1
        /\ Cardinality(Live) \in Nat
        /\ Cardinality(Live \ {incident.last}) \in Nat
    BY <1>2, LiveWithout
  <1> QED BY <1>1, <1>3 DEF SpamInv

LEMMA MonitorInit == Init => MonitorInv
  <1> SUFFICES ASSUME Init PROVE MonitorInv
    OBVIOUS
  <1>1. CreationInv /\ RangeInv
    BY CreationInit, RangeInit DEF Init
  <1>2. IncidentTypes
    BY OutboxAssumption, MaxChangesAssumption
       DEF Init, IncidentTypes, Incident, Report, Severities
  <1>3. ReportInv
    BY DEF Init, OutboxInit, ReportInv
  <1>4. SpamInv
    BY DEF Init, SpamInv
  <1> QED BY <1>1, <1>2, <1>3, <1>4 DEF MonitorInv

-----------------------------------------------------------------------------
(* Steps of the outbox. *)

(* Passes leave the incident alone and can only give alerts up. *)
LEMMA SpamKept ==
    ASSUME MonitorInv, UNCHANGED <<incident, about>>,
           \A a \in Alerts : alert[a].status = "failed" => alert'[a].status = "failed"
    PROVE  SpamInv'
  <1>1. Live' \subseteq Live
    BY DEF Live, LiveOf
  <1>2. /\ IsFiniteSet(Live)
        /\ IsFiniteSet(Live \ {incident.last})
    BY LiveFinite, LiveWithout DEF Live
  <1>3. /\ Cardinality(Live') <= Cardinality(Live)
        /\ Cardinality(Live' \ {incident.last}) <= Cardinality(Live \ {incident.last})
        /\ Cardinality(Live') \in Nat
        /\ Cardinality(Live' \ {incident.last}) \in Nat
    <2>1. Live' \ {incident.last} \subseteq Live \ {incident.last}
      BY <1>1
    <2> QED BY <1>1, <1>2, <2>1, FS_Subset, FS_CardinalityType
  <1>4. /\ Cardinality(Live) \in Nat
        /\ Cardinality(Live \ {incident.last}) \in Nat
        /\ incident.rises \in Nat
    BY LiveFinite, LiveWithout DEF Live, MonitorInv, IncidentTypes, Incident
  <1> QED BY <1>3, <1>4 DEF MonitorInv, SpamInv

LEMMA DeliveryKeeps == MonitorInv /\ DeliveryStep /\ UNCHANGED incidentVars => MonitorInv'
  <1> SUFFICES ASSUME MonitorInv, DeliveryStep, UNCHANGED incidentVars PROVE MonitorInv'
    OBVIOUS
  <1>1. OutboxNext
    BY DEF OutboxNext
  <1>2. CreationInv' /\ RangeInv'
    BY <1>1, CreationStepLemma, RangeStep DEF MonitorInv
  <1>3. UNCHANGED <<drafts, ids>>
    BY DEF DeliveryStep, SenderStep, ClaimDueAlerts, Deliver, RecordDeliveryResult, AbortPass,
           ReleaseStaleAlertClaims, AlertClaimGoesStale, AlertRetryComesDue
  <1>4. IncidentTypes' /\ ReportInv'
    BY <1>3 DEF MonitorInv, IncidentTypes, ReportInv, incidentVars
  <1>5. \A a \in Alerts : alert[a].status = "failed" => alert'[a].status = "failed"
    BY <1>1, FinalStep DEF MonitorInv, Final
  <1>6. SpamInv'
    BY <1>5, SpamKept DEF incidentVars
  <1> QED BY <1>2, <1>4, <1>6 DEF MonitorInv

-----------------------------------------------------------------------------
(* Steps of the monitor. *)

(* Recording a result without an alert. *)
LEMMA QuietKeeps ==
    ASSUME MonitorInv, NEW m \in Monitors, NEW row \in Incident, row.number >= incident.number,
           incident' = row,
           observed' = [observed EXCEPT ![m] = "none"],
           UNCHANGED <<outboxVars, about, condition, enabled, changes>>
    PROVE  CreationInv' /\ RangeInv' /\ IncidentTypes' /\ ReportInv'
  <1>1. CreationInv' /\ RangeInv'
    BY CreationStepLemma, RangeStep DEF MonitorInv
  <1>2. IncidentTypes'
    BY DEF MonitorInv, IncidentTypes
  <1>3. ReportInv'
    <2>1. \A a \in Alerts : about[a].incident \in Nat
      BY DEF MonitorInv, IncidentTypes, Report
    <2>2. incident.number \in Nat /\ row.number \in Nat
      BY DEF MonitorInv, IncidentTypes, Incident
    <2> QED BY <2>1, <2>2 DEF MonitorInv, ReportInv, outboxVars
  <1> QED BY <1>1, <1>2, <1>3

(* Recording a result with an alert: its id was unused. *)
LEMMA TellKeeps ==
    ASSUME MonitorInv, NEW m \in Monitors, NEW row \in Incident, row.number >= incident.number,
           NEW severity \in Severities \cup {"ok"}, enabled,
           CommitIncident(m, row, TRUE, severity)
    PROVE  /\ CreationInv' /\ RangeInv' /\ IncidentTypes' /\ ReportInv'
           /\ ids + 1 \in Alerts
           /\ incident' = [row EXCEPT !.alerted = TRUE, !.last = ids + 1]
           /\ about' = [about EXCEPT ![ids + 1] =
                          [incident |-> row.number, severity |-> severity]]
           /\ \A a \in Alerts : a # ids + 1 => alert'[a] = alert[a]
  <1>1. /\ ids < MaxAlerts
        /\ ids' = ids + 1
        /\ alert' = [alert EXCEPT ![ids + 1] = NewAlert("pending", NoKey)]
        /\ about' = [about EXCEPT ![ids + 1] = [incident |-> row.number, severity |-> severity]]
        /\ incident' = [row EXCEPT !.alerted = TRUE, !.last = ids + 1]
        /\ observed' = [observed EXCEPT ![m] = "none"]
        /\ UNCHANGED <<drafts, sender, reached, faults, condition, enabled, changes>>
    BY DEF CommitIncident
  <1>2. ids \in Nat /\ MaxAlerts \in Nat /\ ids + 1 \in Alerts /\ ids + 1 \in 0..MaxAlerts
    BY <1>1, OutboxAssumption DEF MonitorInv, RangeInv, Alerts
  <1>3. NewAlert("pending", NoKey) \in Alert
    BY NewAlertLemma
  <1>4. /\ alert' \in [Alerts -> Alert]
        /\ \A a \in Alerts : a # ids + 1 => alert'[a] = alert[a]
    BY <1>1, <1>3 DEF MonitorInv, CreationInv
  <1>5. CreationInv'
    <2>1. drafts' = {}
      BY <1>1 DEF MonitorInv, ReportInv
    <2>2. \A a \in Alerts : a > ids' => alert'[a].status = "absent"
      BY <1>1, <1>2, <1>4 DEF MonitorInv, CreationInv, Alerts
    <2> QED BY <1>1, <1>2, <1>4, <2>1, <2>2 DEF MonitorInv, CreationInv
  <1>6. RangeInv'
    BY <1>1, <1>2 DEF MonitorInv, RangeInv
  <1>7. [incident |-> row.number, severity |-> severity] \in Report
    BY DEF Incident, Report
  <1>8. incident' \in Incident /\ incident'.number = row.number
    BY <1>1, <1>2 DEF Incident
  <1>9. IncidentTypes'
    BY <1>1, <1>7, <1>8 DEF MonitorInv, IncidentTypes
  <1>10. ReportInv'
    <2>1. \A a \in Alerts : about[a].incident \in Nat
      BY DEF MonitorInv, IncidentTypes, Report
    <2>2. incident.number \in Nat /\ row.number \in Nat
      BY DEF MonitorInv, IncidentTypes, Incident
    <2>3. \A a \in Alerts : about'[a] =
             IF a = ids + 1 THEN [incident |-> row.number, severity |-> severity] ELSE about[a]
      BY <1>1 DEF MonitorInv, IncidentTypes
    <2>4. \A a \in Alerts : about'[a].incident <= incident'.number
      BY <1>8, <2>1, <2>2, <2>3 DEF MonitorInv, ReportInv
    <2>5. \A a \in Alerts : a > ids' => about'[a].severity = "ok"
      BY <1>1, <1>2, <2>3 DEF MonitorInv, ReportInv, Alerts
    <2> QED BY <1>1, <2>4, <2>5 DEF MonitorInv, ReportInv
  <1> QED BY <1>1, <1>2, <1>4, <1>5, <1>6, <1>9, <1>10

(* A new alert of the incident is its last one, so the others are the live *)
(* alerts it had before.                                                   *)
LEMMA TellSpam ==
    ASSUME MonitorInv, NEW m \in Monitors, NEW row \in Incident, row.number >= incident.number,
           NEW severity \in Severities \cup {"ok"}, enabled,
           CommitIncident(m, row, TRUE, severity),
           Cardinality(LiveOf(row.number)) <= row.rises
    PROVE  SpamInv'
  <1>1. /\ ids + 1 \in Alerts
        /\ incident' = [row EXCEPT !.alerted = TRUE, !.last = ids + 1]
        /\ about' = [about EXCEPT ![ids + 1] =
                       [incident |-> row.number, severity |-> severity]]
        /\ \A a \in Alerts : a # ids + 1 => alert'[a] = alert[a]
    <2>1. /\ ids < MaxAlerts
          /\ alert' = [alert EXCEPT ![ids + 1] = NewAlert("pending", NoKey)]
          /\ about' = [about EXCEPT ![ids + 1] =
                         [incident |-> row.number, severity |-> severity]]
          /\ incident' = [row EXCEPT !.alerted = TRUE, !.last = ids + 1]
      BY DEF CommitIncident
    <2>2. ids + 1 \in Alerts
      BY <2>1, OutboxAssumption DEF MonitorInv, RangeInv, Alerts
    <2> QED BY <2>1, <2>2 DEF MonitorInv, CreationInv
  <1>2. /\ incident'.number = row.number
        /\ incident'.rises = row.rises
        /\ incident'.alerted
        /\ incident'.last = ids + 1
        /\ row.rises \in Nat
    BY <1>1 DEF Incident
  <1>3. \A a \in Alerts : a # ids + 1 => about'[a] = about[a]
    BY <1>1 DEF MonitorInv, IncidentTypes
  <1>4. Live' \ {incident'.last} \subseteq LiveOf(row.number)
    BY <1>1, <1>2, <1>3 DEF Live, LiveOf
  <1>5. /\ Cardinality(Live' \ {incident'.last}) <= Cardinality(LiveOf(row.number))
        /\ Cardinality(LiveOf(row.number)) \in Nat
        /\ Cardinality(Live' \ {incident'.last}) \in Nat
    BY <1>4, LiveFinite, FS_Subset, FS_CardinalityType
  <1>6. Cardinality(Live' \ {incident'.last}) <= incident'.rises
    BY <1>2, <1>5
  <1>7. ids + 1 # 0
    BY <1>1 DEF Alerts
  <1> QED BY <1>2, <1>6, <1>7 DEF SpamInv

LEMMA HealthyKeeps == ASSUME MonitorInv, NEW m \in Monitors, RecordHealthy(m) PROVE MonitorInv'
  <1> DEFINE row == [incident EXCEPT !.open = FALSE]
  <1>0. incident \in Incident
    BY DEF MonitorInv, IncidentTypes
  <1>1. /\ row \in Incident
        /\ row.number = incident.number
        /\ row.number >= incident.number
        /\ ~row.open
    <2>1. row \in Incident
      BY <1>0 DEF Incident
    <2>2. row.number = incident.number /\ row.number >= incident.number
      BY <1>0 DEF Incident
    <2>3. ~row.open
      BY <1>0 DEF Incident
    <2> QED BY <2>1, <2>2, <2>3
  <1> HIDE DEF row
  <1>2. CASE enabled /\ incident.open
    <2>1. CommitIncident(m, row, TRUE, "ok")
      BY <1>2 DEF RecordHealthy, row, CommitIncident
    <2>2. /\ CreationInv' /\ RangeInv' /\ IncidentTypes' /\ ReportInv'
          /\ incident' = [row EXCEPT !.alerted = TRUE, !.last = ids + 1]
      BY <1>1, <1>2, <2>1, TellKeeps DEF Severities
    <2>3. ~incident'.open
      BY <1>1, <2>2 DEF Incident
    <2> QED BY <2>2, <2>3 DEF MonitorInv, SpamInv
  <1>3. CASE ~(enabled /\ incident.open)
    <2>1. /\ incident' = row
          /\ observed' = [observed EXCEPT ![m] = "none"]
          /\ UNCHANGED <<outboxVars, about, condition, enabled, changes>>
      BY <1>3 DEF RecordHealthy, row, CommitIncident, outboxVars
    <2>2. CreationInv' /\ RangeInv' /\ IncidentTypes' /\ ReportInv'
      BY <1>1, <2>1, QuietKeeps
    <2> QED BY <1>1, <2>1, <2>2 DEF MonitorInv, SpamInv
  <1> QED BY <1>2, <1>3

LEMMA OpenKeeps == ASSUME MonitorInv, NEW m \in Monitors, OpenIncident(m) PROVE MonitorInv'
  <1> DEFINE row == [number |-> incident.number + 1, open |-> TRUE, severity |-> observed[m],
                     alerted |-> FALSE, last |-> 0, rises |-> 0]
  <1>0. incident \in Incident /\ observed[m] \in Severities
    BY DEF MonitorInv, IncidentTypes, OpenIncident
  <1>1. /\ row \in Incident
        /\ row.number = incident.number + 1
        /\ row.number >= incident.number
        /\ row.rises = 0
        /\ incident.number \in Nat
    BY <1>0, OutboxAssumption DEF Incident
  <1>2. LiveOf(row.number) = {}
    <2>1. \A a \in Alerts : about[a].incident \in Nat /\ about[a].incident <= incident.number
      BY DEF MonitorInv, IncidentTypes, ReportInv, Report
    <2> QED BY <1>1, <2>1 DEF LiveOf
  <1>3. Cardinality(LiveOf(row.number)) <= row.rises
    BY <1>1, <1>2, FS_EmptySet
  <1>4. CommitIncident(m, row, TRUE, observed[m])
    BY DEF OpenIncident
  <1>5. ~row.alerted
    OBVIOUS
  <1>6. row.last = 0
    OBVIOUS
  <1> HIDE DEF row
  <1>7. CASE enabled
    BY <1>0, <1>1, <1>3, <1>4, <1>7, TellKeeps, TellSpam DEF MonitorInv
  <1>8. CASE ~enabled
    <2>1. /\ incident' = row
          /\ observed' = [observed EXCEPT ![m] = "none"]
          /\ UNCHANGED <<outboxVars, about, condition, enabled, changes>>
      BY <1>4, <1>8 DEF CommitIncident, outboxVars
    <2>2. CreationInv' /\ RangeInv' /\ IncidentTypes' /\ ReportInv'
      BY <1>1, <2>1, QuietKeeps
    <2>3. Live' = {}
      BY <1>2, <2>1 DEF Live, LiveOf, outboxVars
    <2>4. SpamInv'
      BY <1>1, <1>5, <2>1, <2>3, FS_EmptySet DEF SpamInv
    <2> QED BY <2>2, <2>4 DEF MonitorInv
  <1> QED BY <1>7, <1>8

LEMMA EscalateKeeps == ASSUME MonitorInv, NEW m \in Monitors, EscalateIncident(m) PROVE MonitorInv'
  <1> DEFINE row == Escalated(incident)
  <1>0. incident \in Incident /\ incident.open
    BY DEF MonitorInv, IncidentTypes, EscalateIncident, Rises
  <1>1. /\ row \in Incident
        /\ row.number = incident.number
        /\ row.number >= incident.number
        /\ row.rises = incident.rises + 1
        /\ incident.rises \in Nat
        /\ ~row.alerted
        /\ row.last = incident.last
    <2>1. incident.rises \in Nat /\ incident.rises + 1 \in Nat
      BY <1>0 DEF Incident
    <2>2. row \in Incident
      BY <1>0, <2>1 DEF Incident, Escalated, Severities
    <2>3. row.number = incident.number /\ row.last = incident.last /\ row.number >= incident.number
      BY <1>0 DEF Incident, Escalated
    <2>4. row.rises = incident.rises + 1
      BY <1>0 DEF Incident, Escalated
    <2>5. ~row.alerted
      BY <1>0 DEF Incident, Escalated
    <2> QED BY <2>1, <2>2, <2>3, <2>4, <2>5
  <1>2. Cardinality(LiveOf(row.number)) <= row.rises
    <2>1. IsFiniteSet(Live)
      BY LiveFinite DEF Live
    <2>2. /\ Cardinality(Live) <= Cardinality(Live \ {incident.last}) + 1
          /\ Cardinality(Live) \in Nat
          /\ Cardinality(Live \ {incident.last}) \in Nat
      BY <2>1, LiveWithout
    <2>3. Cardinality(Live \ {incident.last}) <= incident.rises
      BY <1>0 DEF MonitorInv, SpamInv
    <2>4. Live = LiveOf(row.number)
      BY <1>1 DEF Live
    <2> HIDE DEF row
    <2> QED BY <1>1, <2>2, <2>3, <2>4
  <1>3. CommitIncident(m, row, TRUE, "critical")
    BY DEF EscalateIncident
  <1> HIDE DEF row
  <1>4. CASE enabled
    BY <1>1, <1>2, <1>3, <1>4, TellKeeps, TellSpam DEF MonitorInv, Severities
  <1>5. CASE ~enabled
    <2>1. /\ incident' = row
          /\ observed' = [observed EXCEPT ![m] = "none"]
          /\ UNCHANGED <<outboxVars, about, condition, enabled, changes>>
      BY <1>3, <1>5 DEF CommitIncident, outboxVars
    <2>2. CreationInv' /\ RangeInv' /\ IncidentTypes' /\ ReportInv'
      BY <1>1, <2>1, QuietKeeps
    <2>3. Live' = LiveOf(row.number)
      BY <2>1 DEF Live, LiveOf, outboxVars
    <2>4. /\ Cardinality(Live') <= row.rises
          /\ Cardinality(Live' \ {row.last}) <= row.rises
      <3>1. /\ Cardinality(Live') \in Nat
            /\ Cardinality(Live' \ {row.last}) \in Nat
            /\ Cardinality(Live' \ {row.last}) <= Cardinality(Live')
        <4>1. IsFiniteSet(Live')
          BY <2>3, LiveFinite
        <4> QED BY <4>1, FS_Subset, FS_CardinalityType
      <3> QED BY <1>1, <1>2, <2>3, <3>1
    <2>5. SpamInv'
      BY <1>1, <2>1, <2>4 DEF SpamInv
    <2> QED BY <2>2, <2>5 DEF MonitorInv
  <1> QED BY <1>4, <1>5

LEMMA UnhealthyKeeps == ASSUME MonitorInv, NEW m \in Monitors, RecordUnhealthy(m) PROVE MonitorInv'
  <1> DEFINE row == [incident EXCEPT !.severity = observed[m]]
  <1>0. incident \in Incident /\ incident.open /\ observed[m] \in Severities
    BY DEF MonitorInv, IncidentTypes, RecordUnhealthy
  <1>1. /\ row \in Incident
        /\ row.number = incident.number
        /\ row.number >= incident.number
        /\ row.rises = incident.rises
        /\ row.alerted = incident.alerted
        /\ row.last = incident.last
        /\ row.open = incident.open
        /\ incident.rises \in Nat
    <2>1. row \in Incident
      BY <1>0 DEF Incident
    <2>2. /\ row.number = incident.number
          /\ row.number >= incident.number
          /\ row.rises = incident.rises
          /\ row.last = incident.last
          /\ incident.rises \in Nat
      BY <1>0 DEF Incident
    <2>3. row.alerted = incident.alerted
      BY <1>0 DEF Incident
    <2>4. row.open = incident.open
      BY <1>0 DEF Incident
    <2> QED BY <2>1, <2>2, <2>3, <2>4
  <1>2. CommitIncident(m, row, NeedsCatchup, observed[m])
    BY DEF RecordUnhealthy
  <1> HIDE DEF row
  <1>3. CASE enabled /\ NeedsCatchup
    <2>1. CommitIncident(m, row, TRUE, observed[m])
      BY <1>2, <1>3 DEF CommitIncident
    <2>2. Cardinality(LiveOf(row.number)) <= row.rises
      <3>1. CASE ~incident.alerted
        BY <1>0, <1>1, <3>1 DEF MonitorInv, SpamInv, Live
      <3>2. CASE incident.last # 0 /\ alert[incident.last].status = "failed"
        <4>1. incident.last \notin Live
          BY <3>2 DEF Live, LiveOf
        <4>2. Cardinality(Live \ {incident.last}) = Cardinality(Live)
          BY <4>1, LiveFinite, LiveWithout DEF Live
        <4> QED BY <1>0, <1>1, <4>2 DEF MonitorInv, SpamInv, Live
      <3> QED BY <1>3, <3>1, <3>2 DEF NeedsCatchup
    <2> QED BY <1>0, <1>1, <1>3, <2>1, <2>2, TellKeeps, TellSpam DEF MonitorInv
  <1>4. CASE ~(enabled /\ NeedsCatchup)
    <2>1. /\ incident' = row
          /\ observed' = [observed EXCEPT ![m] = "none"]
          /\ UNCHANGED <<outboxVars, about, condition, enabled, changes>>
      BY <1>2, <1>4 DEF CommitIncident, outboxVars
    <2>2. CreationInv' /\ RangeInv' /\ IncidentTypes' /\ ReportInv'
      BY <1>1, <2>1, QuietKeeps
    <2>3. Live' = Live
      BY <1>1, <2>1 DEF Live, LiveOf, outboxVars
    <2>4. SpamInv'
      BY <1>1, <2>1, <2>3 DEF MonitorInv, SpamInv
    <2> QED BY <2>2, <2>4 DEF MonitorInv
  <1> QED BY <1>3, <1>4

-----------------------------------------------------------------------------
(* A step that only reads, drops a result or changes the world. *)
LEMMA WorldKeeps ==
    ASSUME MonitorInv, IncidentTypes',
           UNCHANGED <<alert, drafts, ids, sender, reached, incident, about>>,
           Fault \/ UNCHANGED faults
    PROVE  MonitorInv'
  <1>1. CreationInv'
    BY DEF MonitorInv, CreationInv
  <1>2. RangeInv'
    BY FaultLemma DEF MonitorInv, RangeInv
  <1>3. ReportInv'
    BY DEF MonitorInv, ReportInv
  <1>4. SpamInv'
    BY SpamKept
  <1> QED BY <1>1, <1>2, <1>3, <1>4 DEF MonitorInv

LEMMA MonitorNext == MonitorInv /\ [Next]_vars => MonitorInv'
  <1> SUFFICES ASSUME MonitorInv, [Next]_vars PROVE MonitorInv'
    OBVIOUS
  <1>1. ASSUME NEW m \in Monitors, RunChecks(m) PROVE MonitorInv'
    <2>1. IncidentTypes'
      BY <1>1 DEF RunChecks, MonitorInv, IncidentTypes
    <2> QED BY <1>1, <2>1, WorldKeeps DEF RunChecks, outboxVars
  <1>2. ASSUME NEW m \in Monitors, DropResult(m) PROVE MonitorInv'
    <2>1. IncidentTypes'
      BY <1>2 DEF DropResult, MonitorInv, IncidentTypes
    <2> QED BY <1>2, <2>1, WorldKeeps DEF DropResult
  <1>3. ASSUME NEW m \in Monitors, RecordCheckResult(m) PROVE MonitorInv'
    BY <1>3, HealthyKeeps, OpenKeeps, EscalateKeeps, UnhealthyKeeps DEF RecordCheckResult
  <1>4. CASE SettingsChange
    <2>1. IncidentTypes'
      BY <1>4, MaxChangesAssumption DEF SettingsChange, MonitorInv, IncidentTypes
    <2> QED BY <1>4, <2>1, WorldKeeps DEF SettingsChange, outboxVars
  <1>5. ASSUME NEW c \in Severities \cup {"ok"}, ConditionChanges(c) PROVE MonitorInv'
    <2>1. IncidentTypes'
      BY <1>5, MaxChangesAssumption DEF ConditionChanges, MonitorInv, IncidentTypes
    <2> QED BY <1>5, <2>1, WorldKeeps DEF ConditionChanges, outboxVars
  <1>6. CASE DeliveryStep /\ UNCHANGED incidentVars
    BY <1>6, DeliveryKeeps
  <1>7. CASE UNCHANGED vars
    <2>1. IncidentTypes'
      BY <1>7 DEF vars, MonitorInv, IncidentTypes
    <2> QED BY <1>7, <2>1, WorldKeeps DEF vars
  <1> QED BY <1>1, <1>2, <1>3, <1>4, <1>5, <1>6, <1>7 DEF Next, MonitorStep, WorldStep

(* The invariant the monitor's transitions rest on. *)
THEOREM MonitorInvariant == Spec => []MonitorInv
  BY MonitorInit, MonitorNext, PTL DEF Spec

(* Incident rows, check results and alerts keep their types: an incident's *)
(* last_alert_id names an alert that exists.                               *)
THEOREM IncidentTypeCorrect == Spec => []TypeOK
  <1>1. MonitorInv => TypeOK
    BY TypeFromRange DEF MonitorInv, IncidentTypes, TypeOK
  <1> QED BY <1>1, MonitorInvariant, PTL

(* record_check_result queues at most one alert for the opening and one    *)
(* per escalation that is on its way or arrived, however results of        *)
(* overlapping monitors and of failing deliveries interleave.              *)
THEOREM MonitorDoesNotSpam == Spec => []NoAlertSpam
  <1>1. MonitorInv => NoAlertSpam
    BY SpamFromInv DEF MonitorInv
  <1> QED BY <1>1, MonitorInvariant, PTL

=============================================================================
