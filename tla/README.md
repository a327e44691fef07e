# centralpay-bridge: TLA+ models and proofs

centralpay-bridge sits between a Telegram shop's bot and the CentralPay
gateway. The bot asks it for a payment link, the payer pays at the gateway, the
gateway redirects the payer's browser back, the bridge asks the gateway's
`verify` whether the money really arrived, and then tells the bot exactly what
the bot needs to credit the customer. It keeps all state in PostgreSQL; its
processes (API workers, the notification worker, the reconciliation thread, the
admin bot, the monitor, host commands) share nothing else.

This directory holds models of the money path, of the delivery path and of the
two composed, of admission and payer identities, of fee policies, of the
administrators' alerts and of the loops that watch the worker; the TLC
configurations that check them; and TLAPS proofs of the safety properties of all
of them, for any number of orders, users, requests, addresses, policies, alerts
and processes.

## 1. Inventory

| component (source) | state it keeps | operations | correctness |
|---|---|---|---|
| link creation (`services/payments.py`) | one `payments` row per `bot_order_id`: amount, fee snapshot, payer identity, gateway order id, token hash, redirect URL | `create_payment`: insert or find the row, decide on the identity, refuse, replay the stored link, or call `getLink` under the row lock | one link per order, one price per order, no user gets another user's link |
| verification (`services/verification.py`, `api/callback.py`, `services/aged_out_recovery.py`) | `status`, `gateway_verified_at`, `reference_id` | callback, confirmed recovery; both settle through `verify_and_settle` | settled only if really paid, once, with a reference id of its own |
| reconciliation (`services/reconciliation.py`, `worker.py`) | claim, attempt, schedule and error columns | due query per age tier, claim, settle, `_finalize` | a lost callback does not lose the payment; polling is bounded; a settled row is left alone |
| notification delivery (`services/notification.py`, `bot.py`, `worker.py`) | reason, attempts, claim and schedule columns | queue, claim, send, record, release stale claims, manual accept | at most one possible credit in safe mode; every payment is accepted or reaches an administrator |
| review and requeue operations (`ops.py`, `services/review_resolution.py`, `services/bulk_resend.py`) | review columns | acknowledge, resolve, resolve-many, resend, `/resend_failed` | review is left only by an explicit, safe requeue |
| payer identity (`services/payer_identity.py`) | identity table, gateway user ids | look up, derive, insert, re-check | no userId for two payers, no two for one, never the shared legacy id |
| fee policies (`services/fees.py`, `ops.py`) | append-only policy table, advisory lock | set, schedule, create the initial one, cancel, select, calculate | one initial policy; rows stand; an old rate does not come back; the snapshot is a declared rate and never moves |
| attention and worklists (`services/attention.py`, `services/stuck_payments.py`, `adminbot/queries.py`) | resolution columns, event trail | resolve; list | an order closed as abandoned was never handed a link and could still be settled; every unfinished order is in one view |
| inspection (`services/reconcile_inspect.py`, `cli.py`) | - (locks the row) | `reconcile --verify` | predicts what settlement would do, changes nothing |
| admin alerts (`adminbot/alerts.py`) | alert outbox | create, claim, send, record, release | never lost; duplicates allowed |
| monitor (`monitor.py`, `services/monitor_*.py`) | incidents | open, escalate, suppress, recover | one alert per severity; a lasting condition is heard |
| health and heartbeats (`adminbot/health.py`, `services/heartbeat.py`) | counts in memory, heartbeat rows | cycle, beat | silence and recovery are announced |
| API and admission (`api/payments.py`, `ratelimit.py`) | limiter windows in memory | admit, refuse, exempt a replay | a shared budget that holds; a source's budget that only a crowd resets |
| admin bot commands, reports, configuration, pages, install scripts | - | read, format, validate | - |

How they interact: link creation, verification and reconciliation share the
`payments` row through `SELECT ... FOR UPDATE` (held across the gateway call);
verification hands a payment to delivery by writing `bot_notify_pending` in the
commit that verifies it; the worker and the operators race on that row in
short transactions with *no* lock held while the HTTP request is out. Operators
close abandoned orders on the same row, under the lock `create_payment` holds
across `getLink`. The worker process runs the polling thread and the
notification loop; the admin bot reads the latter's heartbeat.

What is hard: the worker's result may arrive after its claim was released,
re-claimed or overruled; the bot may have credited the customer although it
answered 5xx or nothing; processes die between commits; `getLink` may register
a link and fail; browser callbacks get lost; the gateway may report the wrong
amount, payer or reference id; the collision check on reference ids cannot see
another open transaction; SQLAlchemy's identity map returns old attributes from
a fresh `FOR UPDATE` select; a request is exempted from rate limiting by a read
that is stale when it is used; limiters are evicted while requests hold them; an
operator closes an order while a retry is in flight; a fee command reads the clock,
waits for a lock and commits later; the health monitor's memory dies with its
process and outlives a roll-back. `PROJECT.json` lists these hazards with the source
line each one bites at and the properties that watch it.

## 2. Modules

    Models          statuses and the status sets several components share
    Fees            fee amount and payable amount
    Notification    delivery, recovery, operators            <- Models
    NotificationProofs                                       <- Notification, TLAPS
    Ledger          the table, row locks, open transactions, gateway <- Models, Fees
    LinkCreation    create_payment                           <- Ledger
    Verification    callback, recovery, verify_and_settle    <- Ledger
    Reconciliation  claim, finalize, schedule, age           <- Verification
    Inspection      reconcile --verify                       <- Verification
    Settlement      the money path, its payer, its properties
                                  <- LinkCreation, Reconciliation, Inspection
    SettlementTypes                                          <- Settlement, TLAPS
    SettlementProofs                                         <- SettlementTypes
    OrderLifecycle  what the bridge promises about an order (abstract)
    Bridge          the money path, delivery and attention   <- Settlement, Notification
    Worklist        the operators' views; refinement         <- Bridge, OrderLifecycle
    BridgeProofs             <- Worklist, SettlementProofs; uses NotificationProofs
    Limiter         the create-payment rate limiters
    PayerIdentity   resolve_payer_identity
    Admission       a create request up to its row           <- Limiter, PayerIdentity
    AdmissionProofs payer identities, limiters, both         <- Admission, TLAPS
    FeePolicies     the fee table and the commands on it
    FeeProofs       the table; the formula                   <- FeePolicies, Fees, TLAPS
    AlertOutbox     administrators' alerts: create, claim, send, record
    Incidents       the monitor's incident of one check      <- AlertOutbox
    AlertProofs     outbox and incidents                     <- Incidents, TLAPS
    PollingPass     the slots and the budget of a reconciliation pass
    HealthMonitor   the admin bot's counts on the worker's heartbeat
    Supervision     the worker process and its watcher       <- PollingPass, HealthMonitor
    SupervisionProofs                                        <- Supervision, TLAPS
    MCNotification, MCSettlement, MCBridge, MCAdmission, MCFees,
    MCAlertOutbox, MCIncidents, MCSupervision                small instances

### Notification

Every action is one database transaction, except `Send`, the HTTP request made
with no transaction open. `delivery[p]` holds the `bot_notify_*`,
`notification_claimed_*`, `next_retry_at` and review columns; `worker[w]` is the
`ClaimedPayment` in a worker's memory; `bot[p]` is history: how many requests the
bot may have processed, whether it ever answered 2xx, whether an operator
attested. Operator commands lock the row and re-check, so each is one action.

Abstractions: `next_retry_at` is null, due or later, so the retry delays are not
numbers; `http_5xx` stands for 500/502/503/504, and all statuses that are
neither 2xx, 429 nor these are `http_other`; recovery takes all stale claims
where the code takes up to 100; `/resend_failed` is one batch of its loop. A
restarted worker reuses its id in the model, while the code gives it a new one:
more interference, never less. Events and log records are left out.
`gateway_verified` is never stored and does not appear.

### Ledger, LinkCreation, Verification, Reconciliation, Settlement

An open transaction lives in `ctx[x]`; what it has not committed is there and not
in the row. `lock[o]` is the row lock. A crash drops `ctx` and the lock.

* `AdmitReplay` is the unlocked read that exempts a request from rate limiting
  (`find_safe_replay_redirect_url`); what happens to the row before the request
  locks it is every other action. `EnsureRow` is `_ensure_payment_row`, the
  unlocked read of a retired-scheme identity, and the mapping row left by
  `resolve_payer_identity` (`known`); the locked half of `create_payment` is `RefuseCreate`,
  `ReturnExistingLink` or `StartGetLink`, and the gateway's answer
  `GetLinkSucceeds` or `GetLinkFails`. Reading the fee policy and inserting the
  row are one step. A failed `getLink` may have registered the link.
* `Callback` and `RecoverAgedOut` enter `verify_and_settle`; so does
  `ClaimDue`. `VerifyPaid` and `CommitSettlement` are two steps because the
  reference-id check does not lock other rows. `SettlementRaises` is the unique
  violation (the next attempt finds the collision and moves the payment to
  review) and any other exception.
* A reconciler's claim columns ride in the settlement transaction
  (`CommitClaim`); `Finalize` is the second transaction. `StatusSeen` and
  `ErrorWritten` model the identity map: the session is made with
  `expire_on_commit=False`, the claimed object is still referenced, and the
  re-select does not use `populate_existing`, so after a commit the object shows
  what it showed at the claim and SQLAlchemy writes only what differs from that.
* `DiagnosticVerify` holds the lock across its gateway call like a settlement and
  rolls back. `Assessment` is `evaluate_verify_result`, the second copy of the
  settlement checks; `SettlementAsPredicted` compares it with every settlement.
* `DbCheckFailures` are four of the thirteen checks of `run_db_checks`: duplicate
  gateway order ids, duplicate reference ids, negative fees, missing payable amounts.
  Of the other nine, the claim of a payment that is not pending is
  `NoStrandedPayment` of `Notification`. Three hold by the shape of the model: the
  status is one of the enumeration, the row is keyed by the bot's order id, and the
  fee is the difference of payable amount and amount. The remaining five read columns
  left out here: the rate and policy of a payment, the policies' notes, and events.
* The payer pays any link the gateway has registered, also one whose `getLink` timed
  out or died, so that the bot never got it. The gateway's receipt may be wrong in
  every way the code checks for (`Faults`). `VerifyNotPaid` may lag the payment.

Abstractions: a payer identity is a user, the order, or an old row's shared or
retired identity, and `gateway_user_id` a function of it; gateway order ids do
not repeat (they are random among 10^12 and unique in the table); the callback's
token check is equality; the link's age is one of four stages; which due row a
pass takes is any (PollingPass says which). `Init` includes rows earlier
releases can have left behind (see `OldRow`).

### OrderLifecycle, Bridge, Worklist

`Bridge` instantiates `Notification` on the rows of `Settlement` (`D`): status and
verification are shared variables, the settlement commit is the hand-over, and a
step of either component leaves the other's columns alone. Added are the
attention columns, against the order's age and its event trail (`attention`: in
its grace period, open, resolved, resolved and failed again since), and whether a
notification has been pending for over 30 minutes (`overdue`). The event ids that
decide "failed again since" are drawn under the row lock, so one flag carries
them; a `getLink` attempt killed before it can record its failure leaves the
resolution standing, as `attention.py` describes under "accepted residual".

`Worklist` holds the predicates behind `centralpay stuck`, `/stuck`, `/waiting` and
`/expired`, and two refinements. `OrderLifecycle` is what an outsider can rely on:
an order is paid once, rightly or wrongly; only the right payment is confirmed;
only a confirmed order is credited, once; decisions are not taken back; and once
the bot has been given a link, what is paid on it counts for good. Before that,
`Relink` is what a retry may do: it may look the payment up under another id or
payer, so that money on the half-registered link of an earlier attempt no longer
counts, or counts differently. The
mapping reads the gateway's receipt for the row's own order id, the status, and
the requests the bot may have processed. `Refer` refers a set of orders to a human
in one step, because the recovery of stale claims moves every stale order to review
in one pass. `SeenStatus` is the status as delivery knows it. `Delivered` maps the composition back to
`Notification` by hiding the statuses before verification, so that what
`NotificationProofs` shows of delivery alone is known of delivery in place. In safe
mode that includes `SafeModeAtMostOnce`, which `OrderLifecycle`'s single credit states
once more for the whole path.

### Limiter, PayerIdentity, Admission

The limiter's instants are ages in ticks, so time is unbounded and the state
finite. A request fetches its window under the store's lock (`Arrive`), reads the
clock with no lock held (`ReadClock`) and uses the reading under the window's lock
(`CheckSource`, `CheckShared`); lookups, evictions and ticks may fall between any
two, and `MaxDelay` bounds each of the two delays. `buckets` are the window objects,
which outlive their eviction while a request holds one.
`admitted` and `perSource` count admissions by clock reading for the properties.
An exception inside a limiter (which admits the request) is not modelled.

`PayerIdentity` is one action per statement that touches the table. Hashing is
injective; `Derive` is any function into the fallback range, so collisions are
possible. `Historical` rows belong to the retired scheme and may occupy a user's
number. `Admission` runs both, one thread per request, in the route's order.

### FeePolicies

`policy` is the committed table, `clerk[c]` the command a process runs: a `fee set`,
`schedule`, `ensure-initial` (or `set --ensure-initial`) or `cancel` from its clock
reading to its commit. A row that is flushed has its id and is invisible to others
until `Commit`, so ids, effective times and commits may come in different orders. The
advisory lock is the set of commands that hold it, and only installers take it; a
cancel holds its row's lock from `LockPolicy` on. An order reads the clock and selects
in two steps, as `select_effective_policy` does. Notes, actors other than who
cancelled, and events are left out; the lock is PostgreSQL's (on SQLite, used by
tests, the code takes none). `Settlement` does not compose with this module: there the
effective rate changes at any time, which is more than the table can do.

### PollingPass, HealthMonitor, Supervision

`PollingPass` is the loop of `run_reconciliation_pass`: slot 0 prefers the active
tier, the reserved slots the expiring one, the mandatory prefix ignores the
budget, the rest does not. `due` is ordered as the claim query orders. The query is
`FOR UPDATE SKIP LOCKED`; rows that a callback has locked at that moment are not
skipped here (the guard `Free(o)` of `Reconciliation.ClaimDue` models that), so
`BothTiersServed` and `DueIsClaimed` are about passes that find their rows free. A verify
call may use up the budget at any time. `LinkAges`, `SettledElsewhere` and a crash of
the process may happen meanwhile; names are reused, so traffic never ends.
`contested` and `slow` are history: whether both tiers were due at every slot of the
pass so far, and how many expiring payments it claimed.

`HealthMonitor` counts the results of one check, with `ADMIN_BOT_HEALTH_ALERTS` on
(switched off, it counts and queues nothing). `recent` stands for an unhealthy
alert inside the deduplication window; `lost` and `forgot` remember how an
announcement got lost, so that the properties name exactly the excuses the code
has. `Supervision` puts both into the worker process and the admin bot: a crash stops
polling and heartbeats, and the bot restarts and fails to commit by itself.

### AlertOutbox, Incidents

`alert[a]` is a row of `admin_alerts`; `drafts` are rows flushed by transactions
still open, invisible to the duplicate check of others, so two racing creators
may both queue an alert of one key, as in the code. `sender[s].work` is a pass's
batch, worked off in id order; `AbortPass` is a pass that dies or raises, with
all the claims it still has. Which audit event makes which alert, and what the
message says, is reduced to the deduplication key. A send to all administrators
is one step with the aggregate result the code computes. `reached` is history:
alerts Telegram confirmed for somebody.

`Incidents` puts one monitored check on top of it. A monitor reads the check
(`RunChecks`) and records the result later (`RecordCheckResult`, one transaction
with the alert it queues). `condition` is what the check would say now and
changes by itself; `enabled` is the conjunction of the `ADMIN_BOT_*` switches for
the check's category. Incident alerts carry keys of their own (incident id or
timestamp), so they are never suppressed and the model gives them none.

## 3. Runs

| run | instance | checks |
|---|---|---|
| `notification` | 1 payment, 2 workers, 2 attempts, idempotent mode, 2 requeues (36k states) | `AttemptsBounded`, `AcceptedIsJustified`, `NoStrandedPayment`, `AcceptedIsFinal`, `ReviewNotBypassed`, `DeliveryResolves` |
| `notification_reopened` | violation | `NewReviewIsOpen` |
| `links` | 1 order, 2 users and the anonymous identity, 2 amounts, 2 fees, 2 handlers (2.0M states) | `OneLiveLink`, `NoCrossUserLink`, `OnePricePerOrder`, `ExemptReplayIsFree` |
| `two_orders` | 2 orders, 1 handler, 1 reconciler, 1 reference id (3.2M states) | `VerifiedIsPaid`, `DbCheckClean`, `SettledIsFrozen`, `SettlementAsPredicted` |
| `races` | 1 order, 1 handler that also inspects, 2 reconcilers, 2 polls (99k states) | `ExclusiveSettlement`, `PaidIsSettled` |
| `superseded` | violation | `SupersededUntouched` |
| `alert_outbox` | 2 alerts, 1 key, 2 passes, batches of 2, 2 attempts, 3 faults (0.4M states) | `DeliveredIsReal`, `SuppressedIsCovered`, `OutboxFinal`, `AlertIsResolved` |
| `incidents` | 1 monitor, 1 pass, 4 changes, 1 fault, 6 alerts (69k states) | `NoAlertSpam`, `IncidentIsHeard` |
| `bridge` | 1 order, 1 handler, 1 reconciler, 1 worker, 2 attempts, 1 gateway id, 2 tokens, safe mode (175k states) | `WorklistComplete`, `ClosedCanStillSettle`, `ImplementsLifecycle`, `ImplementsNotification`, `PaidIsAnswered` |
| `admission` | 2 requests, 2 addresses, capacity 1, limits 2 and 1, window of 1 tick, 1 user and 2 orders (4.4M states) | `SharedBudget`, `BudgetLostToCrowdOnly`, `PayersIsolated` |
| `fees` | 2 clerks, 1 order, 1 rate, 3 policies, 3 instants (2.2M states) | `OneInitialPolicy`, `SnapshotIsDeclared`, `HistoryStands`, `FallbackIsARace` |
| `supervision` | 2 payments, 3 slots of which 1 reserved, thresholds of 2, 1 crash, 1 restart or failed commit (256k states) | `SupervisionTypeOK`, `AlertedIsTold`, `BothTiersServed`, `DueIsClaimed`, `SilenceIsTold`, `RecoveryIsTold` |

The type invariants and `ReconciliationBounded` are proved for every instance (section 5)
and are not repeated in the runs; `SupervisionTypeOK` stays, as it holds the bound on a
pass's claims.

Why these bounds. Two workers are a straggler and its successor; two attempts are
a retry and a limit; one requeue shows a counter that is not reset, two show that
a requeued payment can be requeued again. That payments do not interfere in
delivery is proved (the safety properties hold for any number). On the money path a race needs two
handlers, or a handler and a reconciler, and `_finalize` overlapping another
claim needs two reconcilers; one reference id is the worst case for uniqueness;
two gateway ids and tokens are a failed attempt and its retry. `MaxPayable` is
chosen so that one amount is refused under one of the fees. For alerts, a batch of two has a
claim that waits its turn, two passes are a slow one and its successor, and two
alerts of one key are an alert and its duplicate. Four changes are: get bad,
alerts off, get worse, alerts on; six alerts are more than those changes and one
fault can produce, so that bound never blocks a step. The instance has one
monitor: overlapping monitors show only as results that are out of date when
recorded, or dropped.
In `links` a receipt may be wrong in its amount only, since its properties are about
links; the other runs of the money path have all `Faults`.
The bridge needs a lost link attempt and its retry (two tokens), a failed one that
stays, one worker that crashes, and one poll. A retry after a *recorded* failure
draws a second gateway id: with liveness that is more than fits, so in the
composition it is left to the proofs (`Relink` under a fresh id) and on the money
path to `links`. Two addresses and room for one make every second
arrival an eviction; one tick of window and one of delay already put late
readings, pruned and unpruned events side by side; the user's number is taken by a
retired row, both orders derive the same number first, and one of them the
reserved one next. Three slots are the active-first one, the reserved one and one
that the budget may cut off; two payments fill both tiers. Two clerks are
two installers, two cancels of one row, or a command and an installer; three policies
are one in force, the one that follows it and a competitor; three instants put a clock
reading before, and a commit after, the moment a policy comes into force. Rates are
only copied, so one is enough to tell a declared rate from zero.
Symmetry is used only in runs without liveness.

Deadlock is checked in `admission`, `fees` and `supervision`. In the others it is not: the
delivery system rightly stops when every payment is
accepted or resolved under review, the money path when the orders are settled,
and the bounds on ids, tokens and requeues stop it otherwise. What must not stop
is stated as liveness.

Fairness. Delivery: a worker that lives sends and records (HTTP timeouts are
finite), a payment that keeps being claimable is claimed (the query takes the
oldest `next_retry_at` first), a stale claim is released (every pass starts
there), time passes. A worker may crash at every step. Operators, answers and
crashes get none. Money path: HTTP calls end, restarted threads poll, and a
reconciler does not die in *every* verify call of an order. That last
assumption is needed: a death inside the call rolls the attempt count back too,
so nothing bounds it. Nothing is assumed of the payer, the callback or the
gateway's answers, nor that a link grows older after its grace period.
The bridge has the fairness of both halves and nothing more. Supervision: the
polling thread reaches its next step (verify calls time out), the bot completes
cycles, the container restarts; the notification loop may hang. Nothing of
`DueIsClaimed` is assumed: it is what justifies the fairness per order that
`races` asks of `ClaimDue`. Admission and fees have safety properties only.
Alerts: the admin bot's loop and the monitor's loop run for ever, sends end and
are recorded. Faults (failed sends, dead passes, claims timing out while in use)
are bounded in number by `MaxFaults`, so the liveness properties say what happens
once faults stop.

## 4. Findings

* `superseded`. `_finalize` says that after a concurrent callback "the stored
  state is never touched beyond clearing the claim". Its re-check sees the
  identity map's status, so a settled row still gets a reconciliation error code
  and a next poll time, and a retry event is recorded. Money facts are not
  affected: `SettledIsFrozen` passes in the same model, and the due query ignores
  the row. `record_attempt_result` avoids the same trap with `populate_existing`.
* `notification_reopened`. No requeue clears `review_resolved_at`. A payment
  that was resolved, then resent, and failed again is in `manual_review` but not
  on the open worklist (`open_manual_review_conditions`), and `/resend_failed`
  skips it.

What the models showed, without a run of its own:

* `FallbackIsARace` needs its excuse: `cancel_policy` takes its time before the row lock
  (`services/fees.py:185`) and commits after its check. A cancellation begun just before a
  policy comes into force can commit just after, when orders carry it already, and the
  older rate is back: what the docstring (178-181) says is refused, since it "would
  silently reactivate an OLD rate". The theorem says that nothing else does.
* `OneInitialPolicy` is about installers among themselves. `fee set` does not take their
  advisory lock, so one that has not committed when the installer counts rows
  (`ops.py:257`) is not counted; the initial policy is the later one and governs, although
  "any scheduled/cancelled history is an operator decision the installer must never
  override" (`ops.py:250-251`).
* An order an operator has closed can be paid, in two ways. CentralPay may hold the link
  of a failure that was recorded: the row has that link's id and token, and the callback
  settles it (`ClosedCanStillSettle`, the safety net of `services/attention.py:77-86`). Or an attempt was
  killed during `getLink`, the "accepted residual": its token is rolled back, its callback is
  refused, and nothing polls the row. `attention.py:110-114` speaks there of "a gateway
  order id our database rolled back"; for a row that is still `created` the orphan has
  the row's own id, so a later `verify` for the row would find the money.
* A payment on a half-registered link is forgotten by the next retry: after a recorded
  failure the retry draws a fresh gateway order id and token, and a callback for the old
  ones finds no row (`Relink` of `OrderLifecycle`). The bot was never given that link.
* An alert's attempts are not bounded by `ADMIN_BOT_ALERT_MAX_ATTEMPTS`:
  `release_stale_alert_claims` does not look at the count, so a pass that dies in an
  alert's last attempt buys another one, where the module promises "bounded retries"
  (`adminbot/alerts.py:9-11`). `AlertIsResolved` shows that this ends when passes stop
  dying. The notification worker's recovery does check its limit.

* `RecoveryIsTold` needs the excuse `forgot`: if the bot restarts after an outage was
  announced, its end is never announced, and if that commit fails neither. The
  docstring of `adminbot/health.py` says a restart "at worst delays one alert
  cycle", and DEFERRED_REVIEW.md (24) and RELEASE_RISK_REGISTER.md (24) repeat it.
* `SilenceIsTold` needs the excuse `lost`: `alerted` is set before the commit, and also
  when `create_alert` suppresses the alert, so a second outage within 30 minutes of
  the first one's announcement is not announced however long it lasts.
* The health check named `database` cannot report a database that is down: the
  queries of the checks after it raise, and the cycle ends before `_process`.
* A reconciler that dies between the commit of its last allowed poll and `_finalize`
  leaves the attempts at the limit with a poll time set: `Worklist` counts the order
  as waiting for the gateway although it is never polled again. It stays visible
  there and later as expired (`WorklistComplete`).

Documents that have drifted from the code, without a run: invariant F11 in
`FINANCIAL_INVARIANTS.md` calls the admin bot read-only, while `/resend_failed`
requeues; F13 says the accepted state is written only by `record_attempt_result`,
while `execute_manual_accept` writes it too.

## 5. Proofs

Every invariant and every action property the passing runs check is also proved, and so
are the two refinements. A theorem holds for every value
of the constants that satisfies the assumptions named in the modules; the
assumptions say what the code asserts or the configuration enforces (limits are
positive, identifiers of different kinds differ, the ranges of user ids and derived
ids are disjoint, requests and addresses are finitely many).

### Delivery: `NotificationProofs`

Any sets of payments and workers, either retry mode, any attempt limit >= 1 and any
bound on requeues.

| theorem | property | argument |
|---|---|---|
| `TypeCorrect` | `TypeOK` | `TypeOK` is inductive; one lemma per column update |
| `AttemptsAreBounded` | `AttemptsBounded` | `AttemptsInv`: the bound alone does not survive a claim; a payment waiting to be claimed is *strictly* below it |
| `DeliveredAtMostOnce` | `SafeModeAtMostOnce` | `SafeInv`: a payment that can still be claimed has never reached the bot and is in no worker's memory; at most one worker holds it; one that holds it and saw no side effect is the first |
| `AcceptanceIsJustified`, `NothingIsStranded` | `AcceptedIsJustified`, `NoStrandedPayment` | `JustifiedInv`: also, a 2xx in a worker's memory was given for the payment it holds, and a verified status implies `gateway_verified_at` |
| `ReasonsAreTruthful` | - | `ReasonInv`: only verified payments carry a delivery reason, and every verified one in review does; the worklists divide reviews by it |
| `AcceptedStaysAccepted`, `ReviewIsNotBypassed` | `AcceptedIsFinal`, `ReviewNotBypassed` | `StatusStep`: the only ways any step changes a status |

### Money path: `SettlementTypes`, `SettlementProofs`

Any sets of orders, users, handlers and reconcilers, any amounts, fees, limits and
bounds, any rows an earlier release can have left (`OldPayersAssumption`).

| theorem | property | argument |
|---|---|---|
| `SettlementTypeCorrect` | `TypeOK` | inductive; one lemma per transaction |
| `SettlementIsExclusive` | `ExclusiveSettlement` | inductive with `TypeOK`: only the holder of a row lock moves the row on; `Movers` lists the few steps that let a process begin to talk to the gateway |
| `ReconciliationIsBounded` | `ReconciliationBounded` | `AttemptInv`: also the attempt a transaction carries is within the limit |
| `MoneyInvariant` | - | `MoneyInv`, below |
| `VerifiedPaymentsArePaid`, `LinkIsUnique`, `UsersAreSeparate`, `PriceIsFixed`, `DatabaseStaysClean` | `VerifiedIsPaid`, `OneLiveLink`, `NoCrossUserLink`, `OnePricePerOrder`, `DbCheckClean` | consequences of `MoneyInv` |
| `SettledStaysFrozen`, `SettlementIsAsPredicted`, `ExemptReplaysAreFree` | `SettledIsFrozen`, `SettlementAsPredicted`, `ExemptReplayIsFree` | action by action from `MoneyInv` |

None of these properties is inductive alone. `MoneyInv` adds what the code relies on
without saying so: a draft that waits for `getLink` agrees with its row in amount and
payable and belongs to the same user (`DraftInv`); no gateway order id serves two orders,
drafts of open transactions included (`GidInv`); a settlement between its checks and its
commit still faces the receipt it checked (`SettleInv`); what a request read without a
lock still holds when it locks (`CreateInv`, `ExemptInv`); every registered link asks for
the row's price (`OfferInv`); money arrives only on links the gateway registered
(`ReceiptInv`); every attempt has a token of its own, so a registered link with the row's
token is the row's own link, and a retry asks under the row's id or one that nothing was
registered with (`TokenInv`).

### Bridge: `BridgeProofs`

| theorem | property | argument |
|---|---|---|
| `BridgeInvariant` | - | `BridgeInv`: `MoneyInv`, the delivery invariants of `NotificationProofs` under `Bridge`'s substitution, and a receipt for every order under review. A step of one half is shown to be a step of it and to keep what the other half needs |
| `BridgeDelivers` | `ImplementsNotification` | every step of the bridge is a step of `Notification` on the statuses delivery sees, or leaves them alone |
| `BridgeKeepsItsPromise` | `ImplementsLifecycle` | in safe mode, as the run has it; step by step from `BridgeInv`: the status, the receipt for the row's own id and the bot's requests move only as `OrderLifecycle` allows |
| `ComponentsStaySafe` | - | the properties of both halves in the composition, `SafeModeAtMostOnce` among them |
| `BridgeAttemptsBounded` | `AttemptsBounded` | `AttemptsInv` of delivery, kept by the bridge because each of its steps is a step of delivery |
| `BridgeAcceptedIsFinal`, `BridgeReviewNotBypassed` | `AcceptedIsFinal`, `ReviewNotBypassed` | `SeenStatusStep`: no step of the money path moves a status delivery has seen |
| `ClosedOrdersCanStillSettle` | `ClosedCanStillSettle` | `IssuedInv`: a link that was handed out has a linked status; `TokenInv`: the registered link with the row's token is the row's |
| `WorklistIsComplete` | `WorklistComplete` | from `BridgeInv`, by cases on the status |

The proof attempt of `ImplementsLifecycle` failed at first, rightly: with more than one
order, one recovery pass may refer several of them to review, and the abstract `Refer`
allowed one. The run has a single order and could not show it.

### Admission: `AdmissionProofs`

Any sets of requests, users and orders, any derivation into a range disjoint from the
users' ids, any retired rows with unique ids; any limits, capacity, window and delay.

| theorem | property | argument |
|---|---|---|
| `PayersAlwaysIsolated`, `AdmittedPayersIsolated` | `PayersIsolated` | `IdentityInv`: the stored mapping is unique in both columns and sound (no reserved id, a user's row carries his own id), everything handed out is stored, and a request that met a conflict or derives again is still within its attempts; the second theorem is about admission as a whole |
| `AdmissionInvariant` | - | `LimiterInv`, below, and `IdentityInv` |
| `AdmissionTypeCorrect` | `AdmissionTypeOK` | a lookup finds a window neither stored nor held, by counting |
| `SharedBudgetHolds` | `SharedBudget` | every request let through within the window has an event of its own, of its age, in the shared sequence (`Accounts`), which is never longer than the limit |
| `OnlyCrowdsResetBudgets` | `BudgetLostToCrowdOnly` | the same for the stored window of an address, except for requests a crowd excuses |

`PayersIsolated` is not inductive: what is handed out next is read from the table, so
the table itself has to be shown clean, and the re-check after a conflict must be shown
to return a row of the same key.

For the limiters, a count is not inductive either, since pruning stops at the first
event that has not expired and events are appended out of order; an injection from
requests to events of the same age is, because an event younger than a window is
never pruned by any reading. Eviction is covered by `Crowd(s, a)`: at least `Capacity` other
addresses were looked up within age `a`. The store is in the order of the lookups
(`StoreInv`), so whoever is evicted has a crowd younger than his own last lookup
(`Displaced`). That lookup is at most `MaxDelay` older than the clock reading of any
request he was let through (`SpentInv`) or that a request of his still carries
(`GateInv`), which is why the crowd may have come before the window by as much: a
window evicted between a request's lookup and its reading takes the request with it.

### Fees: `FeeProofs`

Any sets of clerks and orders, any rates of 0..10000 basis points, any bounds.

| theorem | property | argument |
|---|---|---|
| `FeesInvariant` | - | `FeesInv`, below |
| `FeesTypeCorrect`, `SnapshotsAreDeclared` | `FeesTypeOK`, `SnapshotIsDeclared` | inductive with the rest; selection returns an eligible row because a finite set of ids has a best one |
| `InitialIsUnique` | `OneInitialPolicy` | `InitialInv`: at most one command holds the advisory lock, and while it does there is no initial policy |
| `HistoryIsAppendOnly` | `HistoryStands` | `RowStep`: the only step that changes a committed row is the commit of a cancel whose check still holds |
| `OldRatesStayGone` | `FallbackIsARace` | `RowStep`, and that the best eligible row stays eligible unless cancelled (`BestInForce`) |
| `FeeIsNearest` | - | the integer formula of `calculate_fee` is the nearest whole fee, half up, at most the amount |

None of the properties is inductive alone. `IdInv`: ids up to `lastId` are drawn, each by
one open insert, whose row is not stored, so that a commit overwrites nothing.
`CancelInv`: what a cancel checked under the row lock still holds when it commits, and
no other cancel has the row.

### Supervision: `SupervisionProofs`

Any set of payments, batch size and reservation (smaller than the batch, as the
configuration requires), any thresholds and any number of crashes and mishaps.

| theorem | property | argument |
|---|---|---|
| `SupervisionInvariant` | - | `PollInv`: in a contested pass the expiring payments claimed are one less than the slots used, up to the reservation; what is being verified is a payment. `HealthInv`: types and `AlertedIsTold` |
| `BothTiersAreServed` | `BothTiersServed` | a contested pass never runs out of payments, so it ends only beyond the mandatory prefix, and `PollInv` counts what that holds |
| `SupervisionTypeCorrect` | `SupervisionTypeOK` | `PollInv` and `HealthInv`; taking a payment from the due list leaves a list of payments (`WithoutType`) |
| `AlertedWasTold` | `AlertedIsTold` | its two halves are inductive together: a check is in `alerted` exactly while its alert stands, up to `lost` and `forgot` |

### Alerts: `AlertProofs`

Any number of alerts, passes, keys, attempts, monitors and faults, any batch size.

| theorem | property | argument |
|---|---|---|
| `DeliveryIsReal` | `DeliveredIsReal` | `DeliveredInv`: a pass that remembers a delivery made it for the alert whose turn it is; with `CreationInv`, since a commit that overwrote a row could forge one |
| `OutcomesAreFinal` | `OutboxFinal` | `CreationInv`: an id is drawn for one draft, and its row is absent until that draft commits |
| `SuppressionIsCovered` | `SuppressedIsCovered` | `CoveredInv`: the key of a draft that will be suppressed is covered already, and a covering row survives until then |
| `OutboxTypeCorrect` | `OutboxTypeOK` | with the ranges of ids a pass works on |
| `IncidentTypeCorrect` | `TypeOK` | on top of the outbox's |
| `MonitorInvariant`, `MonitorDoesNotSpam` | `NoAlertSpam` | `SpamInv`: live alerts of the incident other than the one it remembers are at most its rises in severity, and so are all of them while it is not marked alerted |

### Only model-checked

* All liveness (`DeliveryResolves`, `PaidIsSettled`, `PaidIsAnswered`, `AlertIsResolved`,
  `IncidentIsHeard`, `DueIsClaimed`, `SilenceIsTold`, `RecoveryIsTold`): outside the prover's
  reach, as is `ENABLED`.
* That the two properties of the violation runs fail.

## 6. Not modelled

* Event and audit rows, except for the two readings that decide something (a
  link failure after a resolution, the start of a pending period). Log records.
* Body parsing and its recovery forms, authentication, signatures, client-address
  resolution: validation of one input, without state. The limiters of invalid keys
  and invalid signatures are of the kind `Limiter` models. Limiters that raise.
* The CentralPay client: stateless; its answers are choices of the environment.
* Reply delivery, formatting, reports, counters and the daily report of the admin
  bot and the command line; the readiness endpoint; the individual monitor
  checks: they read.
* Configuration, pages, install, backup and host scripts.

## 7. What could follow

1. `Settlement` composed with `FeePolicies` in place of its free choice of the rate.
   `OnePricePerOrder` cannot change by that, since it holds for any rate.
2. The reply delivery of the admin bot and the two remaining limiters, which repeat
   patterns modelled here.
