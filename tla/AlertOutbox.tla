---------------------------- MODULE AlertOutbox ----------------------------
(***************************************************************************)
(* The administrators' alert outbox: rows written in the transaction of    *)
(* the change they report, then claimed in batches, sent to Telegram with  *)
(* no transaction open, and recorded.                                      *)
(*                                                                         *)
(* A batch is worked off one alert at a time, so the later claims of a     *)
(* batch may go stale, and be released and re-claimed by an overlapping    *)
(* instance, before their turn comes.                                      *)
(***************************************************************************)
EXTENDS Naturals, FiniteSets

CONSTANTS
    Keys,          \* deduplication keys
    NoKey,         \* SQL NULL deduplication key: never matches
    Senders,       \* delivery passes that may overlap
    NoOne,         \* SQL NULL in claimed_by
    MaxAttempts,   \* ADMIN_BOT_ALERT_MAX_ATTEMPTS
    Batch,         \* alerts claimed per pass
    MaxAlerts,     \* bound: alert ids drawn
    MaxFaults      \* bound: failed sends, dead passes, claims timing out early

ASSUME OutboxAssumption ==
    /\ NoKey \notin Keys
    /\ NoOne \notin Senders
    /\ {MaxAttempts, Batch} \subseteq Nat \ {0}
    /\ {MaxAlerts, MaxFaults} \subseteq Nat

Alerts == 1..MaxAlerts

VARIABLES
    alert,     \* admin_alerts
    drafts,    \* rows flushed by transactions still open
    ids,       \* alert ids drawn
    sender,    \* each pass: claimed alerts in memory, outcome of the send
    reached,   \* history: alerts some administrator certainly received
    faults     \* history: faults so far

outboxVars == <<alert, drafts, ids, sender, reached, faults>>

Results == {"delivered", "retryable", "permanent"}

Alert == [status   : {"absent", "pending", "sending", "delivered",
                      "retry_scheduled", "failed", "suppressed"},
          key      : Keys \cup {NoKey},
          attempts : Nat,
          claim    : {"none", "fresh", "stale"},
          by       : Senders \cup {NoOne},
          retry    : {"null", "due", "later"},
          age      : {"recent", "old"}]    \* recent: created within the dedup window

Sender == [work   : SUBSET [alert : Alerts, attempt : Nat],
           result : Results \cup {"none"}]

IdleSender == [work |-> {}, result |-> "none"]

NewAlert(st, key) ==
    [status |-> st, key |-> key, attempts |-> 0, claim |-> "none", by |-> NoOne,
     retry |-> IF st = "pending" THEN "due" ELSE "null", age |-> "recent"]

OutboxTypeOK ==
    /\ alert \in [Alerts -> Alert]
    /\ drafts \subseteq [id : Alerts, row : Alert]
    /\ ids \in 0..MaxAlerts
    /\ sender \in [Senders -> Sender]
    /\ reached \subseteq Alerts
    /\ faults \in 0..MaxFaults

-----------------------------------------------------------------------------
(* Creation. *)

(* Mutant: rows without a key are duplicates of each other. *)
DuplicateNull(key) ==
    \E a \in Alerts : /\ alert[a].key = key
                      /\ alert[a].age = "recent"
                      /\ alert[a].status \notin {"absent", "suppressed"}

(* A committed, recent, unsuppressed alert with the same key. *)
Duplicate(key) ==
    /\ key # NoKey
    /\ \E a \in Alerts : /\ alert[a].key = key
                         /\ alert[a].age = "recent"
                         /\ alert[a].status \notin {"absent", "suppressed"}

(* create_alert in the caller's transaction: the id is drawn by the flush. *)
CreateAlert(key) ==
    /\ ids < MaxAlerts
    /\ ids' = ids + 1
    /\ drafts' = drafts \cup
         {[id |-> ids + 1,
           row |-> NewAlert(IF Duplicate(key) THEN "suppressed" ELSE "pending", key)]}
    /\ UNCHANGED <<alert, sender, reached, faults>>

(* The caller commits, or rolls the alert back with its own change. *)
EndCreation(d) ==
    /\ drafts' = drafts \ {d}
    /\ alert' \in {alert, [alert EXCEPT ![d.id] = d.row]}
    /\ UNCHANGED <<ids, sender, reached, faults>>

-----------------------------------------------------------------------------
(* Delivery. *)

Due == {a \in Alerts : /\ alert[a].status \in {"pending", "retry_scheduled"}
                       /\ alert[a].retry \in {"null", "due"}
                       /\ alert[a].claim = "none"}

(* The oldest due alerts. *)
FirstDue == {a \in Due : Cardinality({b \in Due : b < a}) < Batch}

Claimed(row, s) == [row EXCEPT !.status = "sending", !.attempts = @ + 1,
                               !.claim = "fresh", !.by = s]

ClaimDueAlerts(s) ==
    /\ sender[s].work = {}
    /\ FirstDue # {}
    /\ alert' = [a \in Alerts |->
                   IF a \in FirstDue THEN Claimed(alert[a], s) ELSE alert[a]]
    /\ sender' = [sender EXCEPT ![s].work =
                    {[alert |-> a, attempt |-> alert[a].attempts + 1] : a \in FirstDue}]
    /\ UNCHANGED <<drafts, ids, reached, faults>>

(* The claim whose turn it is. *)
First(work) == CHOOSE c \in work : \A d \in work : c.alert <= d.alert

Current(s) == First(sender[s].work)

Fault == faults < MaxFaults /\ faults' = faults + 1

(* All administrators are tried; one success makes the alert delivered,    *)
(* otherwise one retryable failure makes it retryable.                     *)
Deliver(s, result) ==
    /\ sender[s].work # {}
    /\ sender[s].result = "none"
    /\ sender' = [sender EXCEPT ![s].result = result]
    /\ reached' = IF result = "delivered" THEN reached \cup {Current(s).alert} ELSE reached
    /\ IF result = "delivered" THEN UNCHANGED faults ELSE Fault
    /\ UNCHANGED <<alert, drafts, ids>>

(* Mutant: the claim's owner and attempt are not compared. *)
OwnsAlertUnchecked(s) == sender[s].work # {}

OwnsAlert(s) ==
    LET row == alert[Current(s).alert]
    IN  /\ row.status = "sending"
        /\ row.by = s
        /\ row.attempts = Current(s).attempt
        /\ row.claim # "none"

(* Mutant: a send that timed out is taken for delivered. *)
RecordedOptimistic(s) ==
    LET row == [alert[Current(s).alert] EXCEPT !.claim = "none", !.by = NoOne, !.retry = "null"]
    IN  [row EXCEPT !.status = IF sender[s].result = "permanent" THEN "failed" ELSE "delivered"]

(* record_delivery_result on a claim the pass still owns. *)
Recorded(s) ==
    LET row == [alert[Current(s).alert] EXCEPT !.claim = "none", !.by = NoOne]
    IN  CASE sender[s].result = "delivered" ->
               [row EXCEPT !.status = "delivered", !.retry = "null"]
          [] sender[s].result = "retryable" /\ Current(s).attempt < MaxAttempts ->
               [row EXCEPT !.status = "retry_scheduled", !.retry = "later"]
          [] OTHER -> [row EXCEPT !.status = "failed", !.retry = "null"]

RecordDeliveryResult(s) ==
    /\ sender[s].result # "none"
    /\ alert' = IF OwnsAlert(s)
                THEN [alert EXCEPT ![Current(s).alert] = Recorded(s)]
                ELSE alert
    /\ sender' = [sender EXCEPT ![s] = [work |-> @.work \ {Current(s)}, result |-> "none"]]
    /\ UNCHANGED <<drafts, ids, reached, faults>>

(* The pass dies or raises: every claim it still has stays on its row. *)
AbortPass(s) ==
    /\ sender[s].work # {}
    /\ Fault
    /\ sender' = [sender EXCEPT ![s] = IdleSender]
    /\ UNCHANGED <<alert, drafts, ids, reached>>

StaleAlerts == {a \in Alerts : alert[a].status = "sending" /\ alert[a].claim = "stale"}

(* Mutant: a released alert keeps its claim timestamp. *)
ReleasedKeepingClaim(row) == [row EXCEPT !.status = "pending", !.by = NoOne, !.retry = "due"]

Released(row) == [row EXCEPT !.status = "pending", !.claim = "none",
                             !.by = NoOne, !.retry = "due"]

(* Start of a pass.  The attempt limit is not consulted. *)
ReleaseStaleAlertClaims(s) ==
    /\ sender[s].work = {}
    /\ StaleAlerts # {}
    /\ alert' = [a \in Alerts |-> IF a \in StaleAlerts THEN Released(alert[a]) ELSE alert[a]]
    /\ UNCHANGED <<drafts, ids, sender, reached, faults>>

-----------------------------------------------------------------------------
(* Time. *)

Held(a) == \E s \in Senders : \E c \in sender[s].work :
              c.alert = a /\ alert[a].by = s /\ alert[a].attempts = c.attempt

(* The claim timeout passes; for a claim in use that is a fault. *)
AlertClaimGoesStale(a) ==
    /\ alert[a].claim = "fresh"
    /\ IF Held(a) THEN Fault ELSE UNCHANGED faults
    /\ alert' = [alert EXCEPT ![a].claim = "stale"]
    /\ UNCHANGED <<drafts, ids, sender, reached>>

AlertRetryComesDue(a) ==
    /\ alert[a].retry = "later"
    /\ alert' = [alert EXCEPT ![a].retry = "due"]
    /\ UNCHANGED <<drafts, ids, sender, reached, faults>>

DedupWindowPasses(a) ==
    /\ alert[a].status # "absent"
    /\ alert[a].age = "recent"
    /\ alert' = [alert EXCEPT ![a].age = "old"]
    /\ UNCHANGED <<drafts, ids, sender, reached, faults>>

-----------------------------------------------------------------------------
OutboxInit ==
    /\ alert = [a \in Alerts |-> NewAlert("absent", NoKey)]
    /\ drafts = {}
    /\ ids = 0
    /\ sender = [s \in Senders |-> IdleSender]
    /\ reached = {}
    /\ faults = 0

SenderStep(s) ==
    \/ ClaimDueAlerts(s)
    \/ \E result \in Results : Deliver(s, result)
    \/ RecordDeliveryResult(s)
    \/ AbortPass(s)
    \/ ReleaseStaleAlertClaims(s)

DeliveryStep ==
    \/ \E s \in Senders : SenderStep(s)
    \/ \E a \in Alerts : AlertClaimGoesStale(a) \/ AlertRetryComesDue(a)

CreationStep ==
    \/ \E key \in Keys \cup {NoKey} : CreateAlert(key)
    \/ \E d \in drafts : EndCreation(d)
    \/ \E a \in Alerts : DedupWindowPasses(a)

OutboxNext == DeliveryStep \/ CreationStep

OutboxSpec == OutboxInit /\ [][OutboxNext]_outboxVars

(* The admin bot's background loop runs for ever and is restarted; a send  *)
(* ends (Telegram client timeouts) and is recorded; time passes.           *)
(* Transactions end by themselves.                                         *)
DeliveryFairness ==
    /\ \A s \in Senders :
          /\ WF_outboxVars(ClaimDueAlerts(s))
          /\ WF_outboxVars(ReleaseStaleAlertClaims(s))
          /\ WF_outboxVars(\E result \in Results : Deliver(s, result))
          /\ WF_outboxVars(RecordDeliveryResult(s))
    /\ \A a \in Alerts :
          /\ WF_outboxVars(AlertClaimGoesStale(a))
          /\ WF_outboxVars(AlertRetryComesDue(a))

OutboxFairSpec == OutboxSpec /\ DeliveryFairness

-----------------------------------------------------------------------------
(* Properties. *)

(* An alert is shown as delivered only if an administrator received it,    *)
(* whichever pass claimed, lost and re-claimed it on the way.              *)
DeliveredIsReal == \A a \in Alerts : alert[a].status = "delivered" => a \in reached

(* A delivered, failed or suppressed alert is never sent again, retried or *)
(* rewritten by the late result of a pass that lost its claim.             *)
OutboxFinal ==
    [][\A a \in Alerts : alert[a].status \in {"delivered", "failed", "suppressed"} =>
          alert'[a].status = alert[a].status]_outboxVars

(* Deduplication never silences a key: a suppressed alert has a key, and a *)
(* committed alert of that key is or was on its way to the administrators. *)
SuppressedIsCovered ==
    \A a \in Alerts : alert[a].status = "suppressed" =>
        /\ alert[a].key # NoKey
        /\ \E b \in Alerts : /\ alert[b].key = alert[a].key
                             /\ alert[b].status \notin {"absent", "suppressed"}

(* Once faults stop, every queued alert is delivered or given up as failed:*)
(* no claim of a dead pass or lost claim of a slow one strands it.         *)
AlertIsResolved ==
    \A a \in Alerts : alert[a].status = "pending" ~> alert[a].status \in {"delivered", "failed"}

=============================================================================
