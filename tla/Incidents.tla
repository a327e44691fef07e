----------------------------- MODULE Incidents -----------------------------
(***************************************************************************)
(* The monitor's incident of one check, on top of the alert outbox: opened,*)
(* escalated, de-escalated and resolved by check results, with an alert on *)
(* each transition and a catch-up alert when none has reached anybody.     *)
(*                                                                         *)
(* A monitor runs its checks first and records the results afterwards, in  *)
(* one short transaction each; instances may overlap during a restart, so  *)
(* a result may be out of date when it is recorded.                        *)
(***************************************************************************)
EXTENDS AlertOutbox

CONSTANTS
    Monitors,      \* overlapping monitor instances
    MaxChanges     \* bound: changes of the condition or of the settings

ASSUME MaxChangesAssumption == MaxChanges \in Nat

VARIABLES
    condition,   \* what the check would find now
    enabled,     \* admin bot and this category's alerts are enabled
    changes,     \* history: changes of the two above
    observed,    \* each monitor: the result it has yet to record
    incident,    \* the newest monitor_incidents row of the check
    about        \* history: the incident and the severity each alert reports

incidentVars == <<condition, enabled, changes, observed, incident, about>>
vars == <<alert, drafts, ids, sender, reached, faults,
          condition, enabled, changes, observed, incident, about>>

Severities == {"warning", "critical"}

Incident == [number   : Nat,                     \* id, 0 before the first
             open     : BOOLEAN,
             severity : Severities,
             alerted  : BOOLEAN,                 \* last_alerted_at IS NOT NULL
             last     : 0..MaxAlerts,            \* last_alert_id, 0 for NULL
             rises    : Nat]                     \* history: escalations

Report == [incident : Nat, severity : Severities \cup {"ok"}]

TypeOK ==
    /\ OutboxTypeOK
    /\ condition \in Severities \cup {"ok"}
    /\ enabled \in BOOLEAN
    /\ changes \in 0..MaxChanges
    /\ observed \in [Monitors -> Severities \cup {"ok", "none"}]
    /\ incident \in Incident
    /\ about \in [Alerts -> Report]

-----------------------------------------------------------------------------
(* The world. *)

ConditionChanges(c) ==
    /\ c # condition
    /\ changes < MaxChanges
    /\ condition' = c
    /\ changes' = changes + 1
    /\ UNCHANGED <<outboxVars, enabled, observed, incident, about>>

(* ADMIN_BOT_* settings are read at container start. *)
SettingsChange ==
    /\ changes < MaxChanges
    /\ enabled' = ~enabled
    /\ changes' = changes + 1
    /\ UNCHANGED <<outboxVars, condition, observed, incident, about>>

-----------------------------------------------------------------------------
(* The monitor. *)

RunChecks(m) ==
    /\ observed[m] = "none"
    /\ observed' = [observed EXCEPT ![m] = condition]
    /\ UNCHANGED <<outboxVars, condition, enabled, changes, incident, about>>

(* The pass raises, or loses the insert race to an incident that is gone   *)
(* again: the result is dropped.                                           *)
DropResult(m) ==
    /\ observed[m] # "none"
    /\ Fault
    /\ observed' = [observed EXCEPT ![m] = "none"]
    /\ UNCHANGED <<alert, drafts, ids, sender, reached,
                   condition, enabled, changes, incident, about>>

(* The incident row becomes `row`; if alerts are enabled, and `tell`, an   *)
(* alert on it is queued in the same transaction.  Its key is its own, so  *)
(* it is never suppressed.                                                 *)
CommitIncident(m, row, tell, severity) ==
    /\ IF enabled /\ tell
       THEN /\ ids < MaxAlerts
            /\ ids' = ids + 1
            /\ alert' = [alert EXCEPT ![ids + 1] = NewAlert("pending", NoKey)]
            /\ about' = [about EXCEPT ![ids + 1] =
                           [incident |-> row.number, severity |-> severity]]
            /\ incident' = [row EXCEPT !.alerted = TRUE, !.last = ids + 1]
       ELSE /\ incident' = row
            /\ UNCHANGED <<ids, alert, about>>
    /\ observed' = [observed EXCEPT ![m] = "none"]
    /\ UNCHANGED <<drafts, sender, reached, faults, condition, enabled, changes>>

RecordHealthy(m) ==
    /\ observed[m] = "ok"
    /\ CommitIncident(m, [incident EXCEPT !.open = FALSE], incident.open, "ok")

OpenIncident(m) ==
    /\ observed[m] \in Severities
    /\ ~incident.open
    /\ CommitIncident(m, [number |-> incident.number + 1, open |-> TRUE,
                          severity |-> observed[m], alerted |-> FALSE,
                          last |-> 0, rises |-> 0],
                      TRUE, observed[m])

Rises(m) == incident.open /\ observed[m] = "critical" /\ incident.severity = "warning"

(* Mutant: an escalation nobody can be told of keeps the old alert time. *)
EscalatedAsAlerted(row) == [row EXCEPT !.severity = "critical", !.rises = @ + 1]

(* While alerts are disabled the earlier alert no longer counts. *)
Escalated(row) == [row EXCEPT !.severity = "critical", !.rises = @ + 1, !.alerted = FALSE]

EscalateIncident(m) ==
    /\ Rises(m)
    /\ CommitIncident(m, Escalated(incident), TRUE, "critical")

(* Mutant: any alert not yet delivered is sent again. *)
NeedsCatchupUndelivered ==
    \/ ~incident.alerted
    \/ incident.last # 0 /\ alert[incident.last].status # "delivered"

(* Nothing was ever queued for the current severity, or it failed. *)
NeedsCatchup ==
    \/ ~incident.alerted
    \/ incident.last # 0 /\ alert[incident.last].status = "failed"

(* Still unhealthy: the severity may fall silently. *)
RecordUnhealthy(m) ==
    /\ observed[m] \in Severities
    /\ incident.open
    /\ ~Rises(m)
    /\ CommitIncident(m, [incident EXCEPT !.severity = observed[m]], NeedsCatchup, observed[m])

-----------------------------------------------------------------------------
Init ==
    /\ OutboxInit
    /\ condition = "ok"
    /\ enabled \in BOOLEAN
    /\ changes = 0
    /\ observed = [m \in Monitors |-> "none"]
    /\ incident = [number |-> 0, open |-> FALSE, severity |-> "warning",
                   alerted |-> FALSE, last |-> 0, rises |-> 0]
    /\ about = [a \in Alerts |-> [incident |-> 0, severity |-> "ok"]]

RecordCheckResult(m) ==
    \/ RecordHealthy(m)
    \/ OpenIncident(m)
    \/ EscalateIncident(m)
    \/ RecordUnhealthy(m)

MonitorStep(m) == RunChecks(m) \/ DropResult(m) \/ RecordCheckResult(m)

WorldStep == SettingsChange \/ \E c \in Severities \cup {"ok"} : ConditionChanges(c)

Next ==
    \/ \E m \in Monitors : MonitorStep(m)
    \/ WorldStep
    \/ DeliveryStep /\ UNCHANGED incidentVars

Spec == Init /\ [][Next]_vars

(* The monitor cycles for ever; the outbox is served as DeliveryFairness   *)
(* says.                                                                   *)
FairSpec ==
    /\ Spec
    /\ DeliveryFairness
    /\ \A m \in Monitors : WF_vars(RunChecks(m)) /\ WF_vars(RecordCheckResult(m))

-----------------------------------------------------------------------------
(* Properties. *)

(* The anti-spam promise: alerts that are on their way or arrived for an   *)
(* incident are at most one for its opening and one per escalation; a      *)
(* catch-up stands in for one that was never queued or failed.             *)
NoAlertSpam ==
    incident.open =>
        Cardinality({a \in Alerts : /\ about[a].incident = incident.number
                                    /\ about[a].severity # "ok"
                                    /\ alert[a].status # "failed"}) <= 1 + incident.rises

(* Someone has been told of the open incident, at its severity or worse. *)
Told == \E a \in reached : /\ about[a].incident = incident.number
                           /\ about[a].severity \in {condition, "critical"}

(* A condition that stays bad while alerts are enabled is heard by an      *)
(* administrator at its severity, once faults stop: whether the alert was  *)
(* never queued, permanently failed, or overtaken by an escalation.        *)
IncidentIsHeard ==
    \A c \in Severities :
        (condition = c /\ enabled) ~> ((incident.open /\ Told) \/ condition # c \/ ~enabled)

=============================================================================
