----------------------------- MODULE FeePolicies -----------------------------
(***************************************************************************)
(* The append-only table of fee policies: operators and the installer add  *)
(* and cancel rows with `fee`, and a new order takes its fee from the row  *)
(* in force.  A command reads the clock, locks, checks, inserts and        *)
(* commits in separate steps, and so does an order that reads the clock    *)
(* before it selects.                                                      *)
(***************************************************************************)
EXTENDS Naturals

CONSTANTS
    Clerks,       \* processes that run a fee command
    NoClerk,      \* nobody
    Orders,       \* orders being created
    FeeRates,     \* rates in basis points
    MaxTime,      \* bound: the clock
    MaxPolicies   \* bound: ids drawn

ASSUME FeesAssumption ==
    /\ NoClerk \notin Clerks
    /\ FeeRates \subseteq 0..10000
    /\ MaxTime \in Nat
    /\ MaxPolicies \in Nat

VARIABLES
    clock,
    lastId,   \* the table's sequence
    policy,   \* fee_policies, by id
    clerk,    \* the command of each process
    order     \* the fee snapshot of each order

feeVars == <<clock, lastId, policy, clerk, order>>

Ids == 1..MaxPolicies

NoPolicy == 0

Times == 0..MaxTime

Row == [stored      : BOOLEAN,     \* committed
        rate        : FeeRates \cup {0},
        effectiveAt : Times,
        initial     : BOOLEAN,     \* history: created as the initial policy
        cancelledBy : Clerks \cup {NoClerk}]

Absent == [stored |-> FALSE, rate |-> 0, effectiveAt |-> 0, initial |-> FALSE,
           cancelledBy |-> NoClerk]

Command == [pc      : {"idle", "lock", "insert", "commit", "find", "cancel"},
            initial : BOOLEAN,                \* only if the table is empty
            rate    : FeeRates \cup {0},
            time    : Times,                  \* effective_at, or the clock a cancel read
            id      : Ids \cup {NoPolicy}]    \* the row inserted, or to be cancelled

Idle == [pc |-> "idle", initial |-> FALSE, rate |-> 0, time |-> 0, id |-> NoPolicy]

Snapshot == [pc : {"new", "select", "done"}, now : Times, policy : Ids \cup {NoPolicy},
             rate : FeeRates \cup {0}]

FeesTypeOK ==
    /\ clock \in Times
    /\ lastId \in Ids \cup {0}
    /\ policy \in [Ids -> Row]
    /\ clerk \in [Clerks -> Command]
    /\ order \in [Orders -> Snapshot]

-----------------------------------------------------------------------------
(* select_effective_policy *)

Uncancelled(i) == policy[i].stored /\ policy[i].cancelledBy = NoClerk

(* Mutant: the select forgets effective_at <= now. *)
EligibleEarly(now) == {i \in Ids : Uncancelled(i)}

Eligible(now) == {i \in Ids : Uncancelled(i) /\ policy[i].effectiveAt <= now}

(* Later effective_at first, then the higher id. *)
Outranks(i, j) ==
    \/ policy[i].effectiveAt > policy[j].effectiveAt
    \/ policy[i].effectiveAt = policy[j].effectiveAt /\ i > j

Selected(now) ==
    IF Eligible(now) = {} THEN NoPolicy
    ELSE CHOOSE i \in Eligible(now) : \A j \in Eligible(now) : j = i \/ Outranks(i, j)

RateOf(i) == IF i = NoPolicy THEN 0 ELSE policy[i].rate

-----------------------------------------------------------------------------
(* fee set, fee schedule, fee ensure-initial and fee set --ensure-initial. *)

Draft(c, pc, initial, rate, time) ==
    clerk' = [clerk EXCEPT ![c] = [pc |-> pc, initial |-> initial, rate |-> rate,
                                   time |-> time, id |-> NoPolicy]]

BeginSet(c, rate) ==
    /\ clerk[c].pc = "idle"
    /\ Draft(c, "insert", FALSE, rate, clock)
    /\ UNCHANGED <<clock, lastId, policy, order>>

BeginSchedule(c, rate, at) ==
    /\ clerk[c].pc = "idle"
    /\ at > clock
    /\ Draft(c, "insert", FALSE, rate, at)
    /\ UNCHANGED <<clock, lastId, policy, order>>

BeginInitial(c, rate) ==
    /\ clerk[c].pc = "idle"
    /\ Draft(c, "lock", TRUE, rate, clock)
    /\ UNCHANGED <<clock, lastId, policy, order>>

(* The advisory lock is held until its transaction ends; set and schedule  *)
(* do not take it.                                                         *)
HoldsInitialLock(c) == clerk[c].initial /\ clerk[c].pc \in {"insert", "commit"}

(* Mutant: installers do not wait for each other. *)
InitialLockFreeAlways == TRUE

InitialLockFree == \A c \in Clerks : ~HoldsInitialLock(c)

TableEmpty == \A i \in Ids : ~policy[i].stored

(* `fee set --ensure-initial` took its time before the lock, ensure-initial *)
(* takes it after the count.                                               *)
AcquireInitial(c) ==
    /\ clerk[c].pc = "lock"
    /\ InitialLockFree
    /\ \/ TableEmpty /\ \E time \in {clerk[c].time, clock} :
             clerk' = [clerk EXCEPT ![c].pc = "insert", ![c].time = time]
       \/ ~TableEmpty /\ clerk' = [clerk EXCEPT ![c] = Idle]
    /\ UNCHANGED <<clock, lastId, policy, order>>

(* create_policy: the flush draws the id. *)
Insert(c) ==
    /\ clerk[c].pc = "insert"
    /\ lastId < MaxPolicies
    /\ lastId' = lastId + 1
    /\ clerk' = [clerk EXCEPT ![c].pc = "commit", ![c].id = lastId + 1]
    /\ UNCHANGED <<clock, policy, order>>

Commit(c) ==
    /\ clerk[c].pc = "commit"
    /\ policy' = [policy EXCEPT ![clerk[c].id] =
                    [stored |-> TRUE, rate |-> clerk[c].rate,
                     effectiveAt |-> clerk[c].time, initial |-> clerk[c].initial,
                     cancelledBy |-> NoClerk]]
    /\ clerk' = [clerk EXCEPT ![c] = Idle]
    /\ UNCHANGED <<clock, lastId, order>>

(* A refused rate or note, a lost connection, a process that is killed. *)
Rollback(c) ==
    /\ clerk[c].pc # "idle"
    /\ clerk' = [clerk EXCEPT ![c] = Idle]
    /\ UNCHANGED <<clock, lastId, policy, order>>

-----------------------------------------------------------------------------
(* fee cancel *)

BeginCancel(c, i) ==
    /\ clerk[c].pc = "idle"
    /\ clerk' = [clerk EXCEPT ![c] = [Idle EXCEPT !.pc = "find", !.id = i, !.time = clock]]
    /\ UNCHANGED <<clock, lastId, policy, order>>

(* Mutant: the row is read without FOR UPDATE. *)
RowFreeAlways(i) == TRUE

RowFree(i) == \A d \in Clerks : ~(clerk[d].pc = "cancel" /\ clerk[d].id = i)

(* Mutant: a policy in force may be cancelled. *)
CancellableAnytime(c) == Uncancelled(clerk[c].id)

Cancellable(c) ==
    /\ Uncancelled(clerk[c].id)
    /\ policy[clerk[c].id].effectiveAt > clerk[c].time

LockPolicy(c) ==
    /\ clerk[c].pc = "find"
    /\ RowFree(clerk[c].id)
    /\ clerk' = [clerk EXCEPT ![c] = IF Cancellable(c) THEN [@ EXCEPT !.pc = "cancel"] ELSE Idle]
    /\ UNCHANGED <<clock, lastId, policy, order>>

CommitCancel(c) ==
    /\ clerk[c].pc = "cancel"
    /\ policy' = [policy EXCEPT ![clerk[c].id].cancelledBy = c]
    /\ clerk' = [clerk EXCEPT ![c] = Idle]
    /\ UNCHANGED <<clock, lastId, order>>

-----------------------------------------------------------------------------
(* Orders and time. *)

ReadClock(o) ==
    /\ order[o].pc = "new"
    /\ order' = [order EXCEPT ![o].pc = "select", ![o].now = clock]
    /\ UNCHANGED <<clock, lastId, policy, clerk>>

SelectPolicy(o) ==
    /\ order[o].pc = "select"
    /\ LET i == Selected(order[o].now) IN
          order' = [order EXCEPT ![o].pc = "done", ![o].policy = i, ![o].rate = RateOf(i)]
    /\ UNCHANGED <<clock, lastId, policy, clerk>>

Tick ==
    /\ clock < MaxTime
    /\ clock' = clock + 1
    /\ UNCHANGED <<lastId, policy, clerk, order>>

FeesInit ==
    /\ clock = 0
    /\ lastId = 0
    /\ policy = [i \in Ids |-> Absent]
    /\ clerk = [c \in Clerks |-> Idle]
    /\ order = [o \in Orders |-> [pc |-> "new", now |-> 0, policy |-> NoPolicy, rate |-> 0]]

ClerkStep(c) ==
    \/ \E rate \in FeeRates : BeginSet(c, rate) \/ BeginInitial(c, rate)
    \/ \E rate \in FeeRates, at \in Times : BeginSchedule(c, rate, at)
    \/ AcquireInitial(c)
    \/ Insert(c)
    \/ Commit(c)
    \/ Rollback(c)
    \/ \E i \in Ids : BeginCancel(c, i)
    \/ LockPolicy(c)
    \/ CommitCancel(c)

FeesNext ==
    \/ \E c \in Clerks : ClerkStep(c)
    \/ \E o \in Orders : ReadClock(o) \/ SelectPolicy(o)
    \/ Tick

FeesSpec == FeesInit /\ [][FeesNext]_feeVars

-----------------------------------------------------------------------------
(* Properties. *)

(* Installers that run at the same time create one initial policy between  *)
(* them (`fee ensure-initial` and `fee set --ensure-initial`).             *)
OneInitialPolicy ==
    \A i, j \in Ids :
        policy[i].stored /\ policy[i].initial /\ policy[j].stored /\ policy[j].initial => i = j

(* The table is append-only: whatever commands run side by side, a         *)
(* committed row is overwritten by none, and is cancelled once.            *)
HistoryStands ==
    [][\A i \in Ids : policy[i].stored =>
          \/ policy'[i] = policy[i]
          \/ /\ policy[i].cancelledBy = NoClerk
             /\ \E c \in Clerks : policy'[i] = [policy[i] EXCEPT !.cancelledBy = c]]_feeVars

InForce(i) == Selected(clock) = i

SupersededBy(i) == Selected(clock) # NoPolicy /\ Outranks(Selected(clock), i)

(* The policy in force gives way to one that does not outrank it only when *)
(* `fee cancel` read the clock before the policy came into force and       *)
(* commits after: no late commit, no other command and no passing of time  *)
(* brings back an old rate.                                                *)
FallbackIsARace ==
    [][\A i \in Ids : InForce(i) /\ ~InForce(i)' /\ ~SupersededBy(i)' =>
          \E c \in Clerks : /\ CommitCancel(c)
                            /\ clerk[c].id = i
                            /\ clerk[c].time < policy[i].effectiveAt
                            /\ policy[i].effectiveAt <= clock]_feeVars

(* An order's snapshot is the rate of a committed policy that was in force *)
(* when it read the clock, whatever happened to the table since; an order  *)
(* without a policy pays no fee.                                           *)
SnapshotIsDeclared ==
    \A o \in Orders : order[o].pc = "done" =>
        IF order[o].policy = NoPolicy THEN order[o].rate = 0
        ELSE /\ policy[order[o].policy].stored
             /\ policy[order[o].policy].rate = order[o].rate
             /\ policy[order[o].policy].effectiveAt <= order[o].now

=============================================================================
