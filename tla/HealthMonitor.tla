---------------------------- MODULE HealthMonitor ----------------------------
(***************************************************************************)
(* The admin bot's background cycle: HealthMonitor counts consecutive      *)
(* results of each check in memory and queues an alert in the transaction  *)
(* of the cycle.                                                           *)
(*                                                                         *)
(* Checks are counted independently and alike; the model has one, the age  *)
(* of the notification worker's heartbeat.                                 *)
(***************************************************************************)
EXTENDS Naturals

CONSTANTS
    FailureThreshold,   \* ADMIN_BOT_HEALTH_FAILURE_THRESHOLD
    RecoveryThreshold,  \* ADMIN_BOT_HEALTH_RECOVERY_THRESHOLD
    MaxMishaps          \* bound: restarts of the bot and cycles whose transaction fails

ASSUME HealthAssumption ==
    /\ {FailureThreshold, RecoveryThreshold} \subseteq Nat \ {0}
    /\ MaxMishaps \in Nat

VARIABLES
    heartbeat,  \* age of the worker's newest heartbeat
    memory,     \* failure_counts, success_counts and alerted
    news,       \* the newest alert on the check that was not suppressed
    recent,     \* an unhealthy alert within the deduplication window
    lost,       \* history: the alert memory.alerted stands for was rolled back or suppressed
    forgot,     \* history: the bot restarted while it owed a recovery alert
    mishaps     \* history: restarts and failed transactions

healthVars == <<heartbeat, memory, news, recent, lost, forgot, mishaps>>

Blank == [failures |-> 0, successes |-> 0, alerted |-> FALSE]

HealthTypeOK ==
    /\ heartbeat \in {"fresh", "stale"}
    /\ memory \in [failures : 0..FailureThreshold, successes : 0..RecoveryThreshold,
                   alerted : BOOLEAN]
    /\ news \in {"none", "unhealthy", "recovered"}
    /\ {recent, lost, forgot} \subseteq BOOLEAN
    /\ mishaps \in 0..MaxMishaps

Ok == heartbeat = "fresh"

-----------------------------------------------------------------------------
(* _process.  A count stops at its threshold. *)

Upto(n, bound) == IF n < bound THEN n + 1 ELSE bound

(* Mutant: a success is not added to the one before. *)
CountedForgetful ==
    [memory EXCEPT !.failures  = IF Ok THEN 0 ELSE Upto(@, FailureThreshold),
                   !.successes = IF Ok THEN 1 ELSE 0]

Counted ==
    [memory EXCEPT !.failures  = IF Ok THEN 0 ELSE Upto(@, FailureThreshold),
                   !.successes = IF Ok THEN Upto(@, RecoveryThreshold) ELSE 0]

Recovers == Ok /\ memory.alerted /\ Counted.successes >= RecoveryThreshold

Alarms == ~Ok /\ ~memory.alerted /\ Counted.failures >= FailureThreshold

(* Mutant: a recovered check stays marked as alerted. *)
ProcessedOnce == [Counted EXCEPT !.alerted = @ \/ Alarms]

Processed == [Counted EXCEPT !.alerted = (@ \/ Alarms) /\ ~Recovers]

(* The alerts created with the cycle's transaction, with                   *)
(* ADMIN_BOT_HEALTH_ALERTS switched on.                                    *)
Queued ==
    /\ news' = CASE Recovers -> "recovered"
                 [] Alarms /\ ~recent -> "unhealthy"
                 [] OTHER -> news
    /\ recent' = (recent \/ Alarms)
    /\ lost' = ((lost /\ ~Recovers) \/ (Alarms /\ recent))

(* run_once, in a cycle that completes. *)
BotCycle ==
    /\ memory' = Processed
    /\ Queued
    /\ forgot' = (forgot /\ ~Alarms)
    /\ UNCHANGED <<heartbeat, mishaps>>

(* The commit fails: what was counted stays counted, nothing is queued. *)
CommitFails ==
    /\ mishaps < MaxMishaps
    /\ mishaps' = mishaps + 1
    /\ memory' = Processed
    /\ lost' = ((lost /\ ~Recovers) \/ Alarms)
    /\ forgot' = ((forgot /\ ~Alarms) \/ Recovers)
    /\ UNCHANGED <<heartbeat, news, recent>>

BotRestarts ==
    /\ mishaps < MaxMishaps
    /\ mishaps' = mishaps + 1
    /\ memory' = Blank
    /\ forgot' = (forgot \/ memory.alerted)
    /\ lost' = FALSE
    /\ UNCHANGED <<heartbeat, news, recent>>

-----------------------------------------------------------------------------
(* The worker's heartbeat and the clock. *)

(* record_worker_heartbeat after a pass, completed or failed. *)
Beat ==
    /\ heartbeat' = "fresh"
    /\ UNCHANGED <<memory, news, recent, lost, forgot, mishaps>>

HeartbeatGoesStale ==
    /\ heartbeat = "fresh"
    /\ heartbeat' = "stale"
    /\ UNCHANGED <<memory, news, recent, lost, forgot, mishaps>>

WindowPasses ==
    /\ recent
    /\ recent' = FALSE
    /\ UNCHANGED <<heartbeat, memory, news, lost, forgot, mishaps>>

HealthInit ==
    /\ heartbeat = "fresh"
    /\ memory = Blank
    /\ news = "none"
    /\ recent = FALSE
    /\ lost = FALSE
    /\ forgot = FALSE
    /\ mishaps = 0

BotStep == BotCycle \/ CommitFails \/ BotRestarts

ClockStep == HeartbeatGoesStale \/ WindowPasses

-----------------------------------------------------------------------------
(* Properties. *)

(* Memory and alerts agree.  What HealthMonitor holds as announced was     *)
(* announced and not as over, unless the announcing transaction was rolled *)
(* back or its alert suppressed; otherwise the outage is never announced,  *)
(* since a check in `alerted` is not again.  And an announced outage is    *)
(* held until it is announced as over, unless a restart or a failed commit *)
(* lost it.                                                                *)
AlertedIsTold ==
    /\ memory.alerted => news = "unhealthy" \/ lost
    /\ news = "unhealthy" => memory.alerted \/ forgot

(* A worker that stays silent is announced: only the roll-back of the      *)
(* announcing transaction, or an announcement of an earlier outage within  *)
(* the deduplication window, keeps this outage from the administrators.    *)
SilenceIsTold == ~Ok ~> (Ok \/ news = "unhealthy" \/ lost)

(* An announced outage that is over is announced as over, unless the bot   *)
(* restarted or the commit failed in between: the memory of it is gone.    *)
RecoveryIsTold ==
    (Ok /\ news = "unhealthy") ~> (~Ok \/ news # "unhealthy" \/ forgot)

=============================================================================
