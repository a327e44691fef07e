----------------------------- MODULE PollingPass -----------------------------
(***************************************************************************)
(* The reconciliation thread of the worker process: which due payment a    *)
(* pass of run_reconciliation_pass claims next, when it stops, and what a  *)
(* crash of the process leaves behind.  What a verification does to a      *)
(* payment is Reconciliation; here it is only polled again later or never  *)
(* again.  A row another transaction has locked, which the query skips     *)
(* (SKIP LOCKED), is not distinguished here: Reconciliation.ClaimDue takes *)
(* free rows only.                                                         *)
(*                                                                         *)
(* Names of payments that are no longer polled are taken by new ones, so   *)
(* traffic never ends.                                                     *)
(***************************************************************************)
EXTENDS Naturals, Sequences, SequencesExt

CONSTANTS
    Polled,         \* payments with a link, at one time
    BatchSize,      \* RECONCILIATION_BATCH_SIZE
    ReservedSlots,  \* RECONCILIATION_SLOW_TIER_RESERVED_SLOTS
    NoPayment,      \* nothing claimed
    MaxCrashes      \* bound: crashes of the worker process

ASSUME PollingAssumption ==
    /\ {BatchSize, ReservedSlots} \subseteq Nat \ {0}
    /\ ReservedSlots < BatchSize
    /\ NoPayment \notin Polled
    /\ MaxCrashes \in Nat

VARIABLES
    tier,    \* age of each payment's link: too young, active, expiring; none: not polled
    due,     \* payments whose schedule has come, by coalesce(next_at, created_at)
    later,   \* payments whose next_at is in the future
    pass,    \* the reconciliation thread
    up,      \* the worker process runs
    crashes  \* history: its crashes

pollVars == <<tier, due, later, pass, up, crashes>>

Tiers == {"active", "expiring"}

Waiting == [pc |-> "wait", processed |-> 0, spent |-> FALSE, payment |-> NoPayment,
            contested |-> FALSE, slow |-> 0]

PollTypeOK ==
    /\ tier \in [Polled -> Tiers \cup {"none", "young"}]
    /\ due \in Seq(Polled) /\ later \subseteq Polled
    /\ pass \in [pc        : {"wait", "claim", "verify"},
                 processed : 0..BatchSize,
                 spent     : BOOLEAN,           \* the time budget is used up
                 payment   : Polled \cup {NoPayment},
                 contested : BOOLEAN,           \* history: both tiers were due at every slot
                 slow      : 0..BatchSize]      \* history: expiring payments claimed meanwhile
    /\ up \in BOOLEAN
    /\ crashes \in 0..MaxCrashes

-----------------------------------------------------------------------------
(* The pass. *)

(* Mutant: only the first slot is exempt from the budget. *)
MandatorySlotsFirst == 1

(* The prefix that runs whatever the time. *)
MandatorySlots == IF 1 + ReservedSlots < BatchSize THEN 1 + ReservedSlots ELSE BatchSize

(* Mutant: a pass with time left goes on past its batch size. *)
MayClaimUnlimited == pass.processed < MandatorySlots \/ ~pass.spent

MayClaim ==
    /\ pass.processed < BatchSize
    /\ pass.processed < MandatorySlots \/ ~pass.spent

Positions(t) == {i \in 1..Len(due) : tier[due[i]] = t}

(* The payment of a tier that has been due longest. *)
FirstDue(t) == due[CHOOSE i \in Positions(t) : \A j \in Positions(t) : i <= j]

PrefersExpiring == pass.processed \in 1..ReservedSlots

Preferred == IF PrefersExpiring THEN "expiring" ELSE "active"
Fallback  == IF PrefersExpiring THEN "active" ELSE "expiring"

(* _claim_next_due *)
NextDue ==
    CASE Positions(Preferred) # {} -> FirstDue(Preferred)
      [] Positions(Preferred) = {} /\ Positions(Fallback) # {} -> FirstDue(Fallback)
      [] OTHER -> NoPayment

BothDue == Positions("active") # {} /\ Positions("expiring") # {}

Contested == pass.contested /\ BothDue

BeginPass ==
    /\ up
    /\ pass.pc = "wait"
    /\ pass' = [Waiting EXCEPT !.pc = "claim", !.contested = TRUE]
    /\ UNCHANGED <<tier, due, later, up, crashes>>

ClaimNextDue ==
    /\ pass.pc = "claim"
    /\ MayClaim
    /\ NextDue # NoPayment
    /\ pass' = [pass EXCEPT !.pc = "verify", !.payment = NextDue, !.processed = @ + 1,
                          !.contested = Contested,
                          !.slow = CASE ~Contested -> 0
                                     [] Contested /\ tier[NextDue] = "expiring" -> @ + 1
                                     [] OTHER -> @]
    /\ UNCHANGED <<tier, due, later, up, crashes>>

EndPass ==
    /\ pass.pc = "claim"
    /\ ~MayClaim \/ NextDue = NoPayment
    /\ pass' = Waiting
    /\ UNCHANGED <<tier, due, later, up, crashes>>

(* A payment has one place in the schedule. *)
Without(p) == RemoveFirst(due, p)

(* The payment is settled, sent to review or exhausted, or it is scheduled *)
(* again; the call may have used up the budget.                            *)
FinishVerify ==
    /\ pass.pc = "verify"
    /\ due' = Without(pass.payment)
    /\ \/ tier' = [tier EXCEPT ![pass.payment] = "none"] /\ UNCHANGED later
       \/ later' = (IF tier[pass.payment] = "none" THEN later ELSE later \cup {pass.payment})
          /\ UNCHANGED tier
    /\ \E spent \in {pass.spent, TRUE} :
          pass' = [pass EXCEPT !.pc = "claim", !.payment = NoPayment, !.spent = spent]
    /\ UNCHANGED <<up, crashes>>

(* The process dies: an open claim is rolled back, and the container is    *)
(* started again.                                                          *)
WorkerCrashes ==
    /\ up
    /\ crashes < MaxCrashes
    /\ up' = FALSE
    /\ crashes' = crashes + 1
    /\ pass' = Waiting
    /\ UNCHANGED <<tier, due, later>>

WorkerStarts ==
    /\ ~up
    /\ up' = TRUE
    /\ UNCHANGED <<tier, due, later, pass, crashes>>

-----------------------------------------------------------------------------
(* Payments and time. *)

LinkCreated(p) ==
    /\ tier[p] = "none" /\ pass.payment # p
    /\ tier' = [tier EXCEPT ![p] = "young"]
    /\ due' = Append(due, p)        \* ordered by created_at, claimed once active
    /\ UNCHANGED <<later, pass, up, crashes>>

(* min_age, fast_window and max_age pass; after that nobody polls. *)
LinkAges(p) ==
    \/ /\ tier[p] \in {"young", "active"}
       /\ tier' = [tier EXCEPT ![p] = IF @ = "young" THEN "active" ELSE "expiring"]
       /\ UNCHANGED <<due, later, pass, up, crashes>>
    \/ /\ tier[p] = "expiring"
       /\ tier' = [tier EXCEPT ![p] = "none"]
       /\ due' = Without(p)
       /\ later' = later \ {p}
       /\ UNCHANGED <<pass, up, crashes>>

(* A callback or an operator settles it; the row of a claim is locked. *)
SettledElsewhere(p) ==
    /\ tier[p] # "none" /\ pass.payment # p
    /\ tier' = [tier EXCEPT ![p] = "none"]
    /\ due' = Without(p)
    /\ later' = later \ {p}
    /\ UNCHANGED <<pass, up, crashes>>

ComesDue(p) ==
    /\ p \in later
    /\ due' = Append(due, p)
    /\ later' = later \ {p}
    /\ UNCHANGED <<tier, pass, up, crashes>>

PollInit ==
    /\ tier = [p \in Polled |-> "none"]
    /\ due = <<>>
    /\ later = {}
    /\ pass = Waiting
    /\ up = TRUE
    /\ crashes = 0

PassStep == BeginPass \/ ClaimNextDue \/ EndPass \/ FinishVerify

PaymentStep(p) == LinkCreated(p) \/ LinkAges(p) \/ SettledElsewhere(p) \/ ComesDue(p)

PollNext ==
    \/ PassStep
    \/ WorkerCrashes
    \/ WorkerStarts
    \/ \E p \in Polled : PaymentStep(p)

-----------------------------------------------------------------------------
(* Properties. *)

Claimable(p) == tier[p] \in Tiers /\ \E i \in 1..Len(due) : due[i] = p

(* Both tiers get their share of a pass whose every slot found payments of *)
(* both due: run_reconciliation_pass may stop early, because a verification *)
(* was slow or the batch is full, but never before one active payment and  *)
(* all the reserved slots' expiring ones were claimed.                     *)
BothTiersServed ==
    [][EndPass /\ Contested => pass.slow >= ReservedSlots /\ pass.processed > pass.slow]_pollVars

(* However slow verifications are and however many payments of the other   *)
(* age keep coming due, a due payment is claimed, settled or past its      *)
(* lifetime in the end.                                                    *)
DueIsClaimed == \A p \in Polled : Claimable(p) ~> (pass.payment = p \/ ~Claimable(p))

=============================================================================
