----------------------------- MODULE Supervision -----------------------------
(***************************************************************************)
(* The worker process and the admin bot that watches it: the               *)
(* reconciliation thread polls payments, the notification loop writes a    *)
(* heartbeat after every pass, and a silent worker becomes an alert.       *)
(***************************************************************************)
EXTENDS PollingPass, HealthMonitor

supervisionVars == <<pollVars, healthVars>>

SupervisionTypeOK == PollTypeOK /\ HealthTypeOK

(* A crash stops both loops. *)
Worker == PollNext /\ UNCHANGED healthVars

NotificationPass == up /\ Beat /\ UNCHANGED pollVars

Bot == BotStep /\ UNCHANGED pollVars

Clock == ClockStep /\ UNCHANGED pollVars

SupervisionInit == PollInit /\ HealthInit

SupervisionNext ==
    \/ Worker
    \/ NotificationPass
    \/ Bot
    \/ Clock

(* The thread reaches its next step, since verify calls time out, the      *)
(* container restarts, and the bot completes cycles; payments may stop and *)
(* the notification loop may hang.                                         *)
SupervisionSpec ==
    /\ SupervisionInit
    /\ [][SupervisionNext]_supervisionVars
    /\ WF_supervisionVars(PassStep /\ UNCHANGED healthVars)
    /\ WF_supervisionVars(WorkerStarts /\ UNCHANGED healthVars)
    /\ WF_supervisionVars(BotCycle /\ UNCHANGED pollVars)

=============================================================================
