-------------------------- MODULE SupervisionProofs --------------------------
(***************************************************************************)
(* Proofs about the worker's polling pass and the health monitor, for any  *)
(* number of payments, any batch size, reservation and thresholds.         *)
(***************************************************************************)
EXTENDS Supervision, SequenceTheorems, WellFoundedInduction, TLAPS

-----------------------------------------------------------------------------
(* Positions. *)

LEMMA LeastNatural ==
    ASSUME NEW S \in SUBSET Nat, S # {}
    PROVE  \E n \in S : \A m \in S : n <= m
  <1> DEFINE less == OpToRel(<, Nat)
  <1>1. PICK n \in S : \A m \in S : <<m, n>> \notin less
    BY NatLessThanWellFounded, WFMin
  <1>2. \A m, k \in Nat : m < k => <<m, k>> \in less
    BY Zenon DEF OpToRel
  <1> HIDE DEF less
  <1>3. \A m \in S : m \in Nat /\ n \in Nat /\ ~(m < n)
    BY <1>1, <1>2
  <1> QED BY <1>3

(* The library's Min picks a member. *)
LEMMA MinIsMember ==
    ASSUME NEW S \in SUBSET Nat, S # {}
    PROVE  Min(S) \in S
  <1>1. \E n \in S : \A m \in S : n <= m
    BY LeastNatural
  <1> QED BY <1>1 DEF Min

LEMMA RemoveAtType ==
    ASSUME NEW S, NEW s \in Seq(S), NEW i \in 1..Len(s)
    PROVE  RemoveAt(s, i) \in Seq(S)
  <1>1. SubSeq(s, 1, i - 1) \in Seq(S) /\ SubSeq(s, i + 1, Len(s)) \in Seq(S)
    BY SubSeqProperties
  <1> QED BY <1>1, ConcatProperties DEF RemoveAt

(* Taking a payment from the schedule leaves payments. *)
LEMMA WithoutType ==
    ASSUME due \in Seq(Polled), NEW p
    PROVE  Without(p) \in Seq(Polled)
  <1> DEFINE I == {i \in 1..Len(due) : due[i] = p}
  <1>1. CASE I = {}
    BY <1>1 DEF Without, RemoveFirst
  <1>2. CASE I # {}
    <2>1. I \in SUBSET Nat /\ I \subseteq 1..Len(due)
      OBVIOUS
    <2>3. Min(I) \in I
      <3> HIDE DEF I
      <3> QED BY <1>2, <2>1, MinIsMember
    <2>4. Min(I) \in 1..Len(due)
      BY <2>1, <2>3
    <2>2. Without(p) = RemoveAt(due, Min(I))
      BY <1>2 DEF Without, RemoveFirst, SelectInSeq
    <2> QED BY <2>2, <2>4, RemoveAtType
  <1> QED BY <1>1, <1>2

(* _claim_in_age_range finds a payment of its tier when there is one. *)
LEMMA FirstDueOfTier ==
    ASSUME due \in Seq(Polled), NEW t, Positions(t) # {}
    PROVE  FirstDue(t) \in Polled /\ tier[FirstDue(t)] = t
  <1> DEFINE First(i) == \A j \in Positions(t) : i <= j
  <1>1. Positions(t) \in SUBSET Nat
    BY DEF Positions
  <1>2. \E i \in Positions(t) : First(i)
    BY <1>1, LeastNatural
  <1>3. FirstDue(t) = due[CHOOSE i \in Positions(t) : First(i)]
    BY DEF FirstDue
  <1> HIDE DEF First
  <1>4. PICK i \in Positions(t) : FirstDue(t) = due[i]
    BY <1>2, <1>3
  <1> QED BY <1>4 DEF Positions

LEMMA NextDueType ==
    ASSUME due \in Seq(Polled)
    PROVE  /\ NextDue \in Polled \cup {NoPayment}
           /\ BothDue => NextDue \in Polled /\ tier[NextDue] = Preferred
  <1>1. \A t \in Tiers : Positions(t) # {} => FirstDue(t) \in Polled /\ tier[FirstDue(t)] = t
    BY FirstDueOfTier
  <1>2. Preferred \in Tiers /\ Fallback \in Tiers
    BY DEF Preferred, Fallback, Tiers
  <1>3. CASE Positions(Preferred) # {}
    <2>1. NextDue = FirstDue(Preferred)
      BY <1>3 DEF NextDue
    <2> QED BY <2>1, <1>1, <1>2, <1>3
  <1>4. CASE Positions(Preferred) = {}
    <2>1. ~BothDue
      BY <1>2, <1>4 DEF BothDue, Tiers
    <2>2. CASE Positions(Fallback) # {}
      <3>1. NextDue = FirstDue(Fallback)
        BY <1>4, <2>2 DEF NextDue
      <3> QED BY <3>1, <2>1, <2>2, <1>1, <1>2
    <2>3. CASE Positions(Fallback) = {}
      <3>1. NextDue = NoPayment
        BY <1>4, <2>3 DEF NextDue
      <3> QED BY <3>1, <2>1
    <2> QED BY <2>2, <2>3
  <1> QED BY <1>3, <1>4

-----------------------------------------------------------------------------
(* The pass. *)

(* How many expiring payments a contested pass has claimed by its n-th slot. *)
Share(n) ==
    IF n = 0 THEN 0 ELSE IF n - 1 <= ReservedSlots THEN n - 1 ELSE ReservedSlots

(* Without the second conjunct the schedule is not known to hold payments  *)
(* after a verification; the third and fourth are what the budget check    *)
(* relies on.                                                              *)
PollInv ==
    /\ PollTypeOK
    /\ pass.pc = "verify" => pass.payment \in Polled
    /\ pass.slow <= pass.processed
    /\ pass.contested => pass.slow = Share(pass.processed)

LEMMA PollStart == PollInit => PollInv
  BY PollingAssumption DEF PollInit, PollInv, PollTypeOK, Waiting, Share, Tiers

(* Steps that leave the thread alone, or put it back to its wait. *)
LEMMA WaitingKeeps ==
    ASSUME PollInv, pass' = Waiting \/ UNCHANGED pass,
           tier' \in [Polled -> Tiers \cup {"none", "young"}],
           due' \in Seq(Polled), later' \subseteq Polled,
           up' \in BOOLEAN, crashes' \in 0..MaxCrashes
    PROVE  PollInv'
  <1>1. CASE UNCHANGED pass
    BY <1>1 DEF PollInv, PollTypeOK, Share
  <1>2. CASE pass' = Waiting
    BY <1>2, PollingAssumption DEF PollInv, PollTypeOK, Share, Waiting
  <1> QED BY <1>1, <1>2

LEMMA BeginPassKeeps == PollInv /\ BeginPass => PollInv'
  <1> SUFFICES ASSUME PollInv, BeginPass PROVE PollInv'
    OBVIOUS
  <1>1. pass' = [pc |-> "claim", processed |-> 0, spent |-> FALSE, payment |-> NoPayment,
                 contested |-> TRUE, slow |-> 0]
    BY DEF BeginPass, Waiting
  <1>2. UNCHANGED <<tier, due, later, up, crashes>>
    BY DEF BeginPass
  <1> QED BY <1>1, <1>2, PollingAssumption DEF PollInv, PollTypeOK, Share

LEMMA ClaimKeeps == PollInv /\ ClaimNextDue => PollInv'
  <1> SUFFICES ASSUME PollInv, ClaimNextDue PROVE PollInv'
    OBVIOUS
  <1>1. /\ NextDue \in Polled
        /\ BothDue => tier[NextDue] = Preferred
    BY NextDueType DEF PollInv, PollTypeOK, ClaimNextDue
  <1>2. /\ pass.processed \in 0..(BatchSize - 1)
        /\ pass.slow \in 0..pass.processed
        /\ pass.contested \in BOOLEAN
    BY PollingAssumption DEF PollInv, PollTypeOK, ClaimNextDue, MayClaim
  <1> DEFINE slow == CASE ~Contested -> 0
                       [] Contested /\ tier[NextDue] = "expiring" -> pass.slow + 1
                       [] OTHER -> pass.slow
  <1>3. pass' = [pass EXCEPT !.pc = "verify", !.payment = NextDue,
                             !.processed = pass.processed + 1,
                             !.contested = Contested, !.slow = slow]
    BY DEF ClaimNextDue, PollInv, PollTypeOK
  <1>4. slow \in 0..(pass.processed + 1)
    BY <1>2
  <1>5. ASSUME Contested PROVE slow = Share(pass.processed + 1)
    <2>1. pass.slow = Share(pass.processed) /\ tier[NextDue] = Preferred
      BY <1>1, <1>5 DEF Contested, PollInv
    <2>2. CASE PrefersExpiring
      <3>1. slow = pass.slow + 1
        BY <1>5, <2>1, <2>2 DEF Preferred
      <3> HIDE DEF slow
      <3> QED BY <1>2, <2>1, <2>2, <3>1, PollingAssumption DEF PrefersExpiring, Share
    <2>3. CASE ~PrefersExpiring
      <3>1. slow = pass.slow
        BY <1>5, <2>1, <2>3 DEF Preferred
      <3> HIDE DEF slow
      <3> QED BY <1>2, <2>1, <2>3, <3>1, PollingAssumption DEF PrefersExpiring, Share
    <2> QED BY <2>2, <2>3
  <1>6. Contested \in BOOLEAN
    BY <1>2 DEF Contested, BothDue
  <1> HIDE DEF slow
  <1>7. /\ pass'.pc = "verify" /\ pass'.payment = NextDue
        /\ pass'.processed = pass.processed + 1
        /\ pass'.slow = slow
        /\ pass'.contested = Contested
    BY <1>3 DEF PollInv, PollTypeOK
  <1>8. PollTypeOK'
    <2>1. pass.processed + 1 \in 0..BatchSize /\ slow \in 0..BatchSize
      BY <1>2, <1>4, PollingAssumption
    <2>2. pass' \in [pc : {"wait", "claim", "verify"}, processed : 0..BatchSize,
                     spent : BOOLEAN, payment : Polled \cup {NoPayment},
                     contested : BOOLEAN, slow : 0..BatchSize]
      BY <1>1, <1>3, <1>6, <2>1 DEF PollInv, PollTypeOK
    <2>3. UNCHANGED <<tier, due, later, up, crashes>>
      BY DEF ClaimNextDue
    <2> QED BY <2>2, <2>3 DEF PollInv, PollTypeOK
  <1> QED BY <1>1, <1>2, <1>4, <1>5, <1>7, <1>8 DEF PollInv, Share

LEMMA EndPassKeeps == PollInv /\ EndPass => PollInv'
  <1> SUFFICES ASSUME PollInv, EndPass PROVE PollInv'
    OBVIOUS
  <1> QED BY WaitingKeeps DEF PollInv, PollTypeOK, EndPass

LEMMA FinishVerifyKeeps == PollInv /\ FinishVerify => PollInv'
  <1> SUFFICES ASSUME PollInv, FinishVerify PROVE PollInv'
    OBVIOUS
  <1>1. pass.payment \in Polled /\ due' \in Seq(Polled)
    BY WithoutType DEF PollInv, PollTypeOK, FinishVerify
  <1>2. /\ tier' \in [Polled -> Tiers \cup {"none", "young"}]
        /\ later' \subseteq Polled
    BY <1>1 DEF PollInv, PollTypeOK, FinishVerify
  <1>3. PICK spent \in BOOLEAN :
           pass' = [pass EXCEPT !.pc = "claim", !.payment = NoPayment, !.spent = spent]
    BY DEF PollInv, PollTypeOK, FinishVerify
  <1>4. UNCHANGED <<up, crashes>>
    BY DEF FinishVerify
  <1> QED BY <1>1, <1>2, <1>3, <1>4 DEF PollInv, PollTypeOK, Share

LEMMA PaymentKeeps ==
    ASSUME PollInv, NEW p \in Polled, PaymentStep(p)
    PROVE  PollInv'
  <1>1. Without(p) \in Seq(Polled) /\ Append(due, p) \in Seq(Polled)
    BY WithoutType, AppendProperties DEF PollInv, PollTypeOK
  <1>2. UNCHANGED <<pass, up, crashes>>
    BY DEF PaymentStep, LinkCreated, LinkAges, SettledElsewhere, ComesDue
  <1>3. due' \in Seq(Polled)
    BY <1>1 DEF PollInv, PollTypeOK, PaymentStep, LinkCreated, LinkAges,
                SettledElsewhere, ComesDue
  <1>4. /\ tier' \in [Polled -> Tiers \cup {"none", "young"}]
        /\ later' \subseteq Polled
    BY DEF PollInv, PollTypeOK, PaymentStep, LinkCreated, LinkAges,
           SettledElsewhere, ComesDue, Tiers
  <1> QED BY <1>2, <1>3, <1>4, WaitingKeeps DEF PollInv, PollTypeOK

LEMMA PollStep == PollInv /\ [PollNext]_pollVars => PollInv'
  <1> SUFFICES ASSUME PollInv, [PollNext]_pollVars PROVE PollInv'
    OBVIOUS
  <1>1. CASE PassStep
    BY <1>1, BeginPassKeeps, ClaimKeeps, EndPassKeeps, FinishVerifyKeeps DEF PassStep
  <1>2. CASE WorkerCrashes
    <2>1. crashes' \in 0..MaxCrashes
      BY <1>2, PollingAssumption DEF PollInv, PollTypeOK, WorkerCrashes
    <2> QED BY <1>2, <2>1, WaitingKeeps DEF PollInv, PollTypeOK, WorkerCrashes
  <1>3. CASE WorkerStarts
    BY <1>3, WaitingKeeps DEF PollInv, PollTypeOK, WorkerStarts
  <1>4. CASE \E p \in Polled : PaymentStep(p)
    BY <1>4, PaymentKeeps
  <1>5. CASE UNCHANGED pollVars
    BY <1>5, WaitingKeeps DEF PollInv, PollTypeOK, pollVars
  <1> QED BY <1>1, <1>2, <1>3, <1>4, <1>5 DEF PollNext

(* While both tiers are due no pass ends for want of payments. *)
LEMMA ContestedPassRunsOn ==
    ASSUME PollInv, EndPass, Contested
    PROVE  pass.processed >= 1 + ReservedSlots
  <1>1. NextDue \in Polled
    BY NextDueType DEF PollInv, PollTypeOK, Contested
  <1>2. ~MayClaim
    BY <1>1, PollingAssumption DEF EndPass
  <1>3. MandatorySlots = 1 + ReservedSlots
    BY PollingAssumption DEF MandatorySlots
  <1> QED BY <1>2, <1>3, PollingAssumption DEF MayClaim, PollInv, PollTypeOK

(* What BothTiersServed says of a step. *)
ServedStep == EndPass /\ Contested => pass.slow >= ReservedSlots /\ pass.processed > pass.slow

LEMMA ServesBoth == PollInv => ServedStep
  <1> SUFFICES ASSUME PollInv, EndPass, Contested
               PROVE  pass.slow >= ReservedSlots /\ pass.processed > pass.slow
    BY DEF ServedStep
  <1>1. pass.processed >= 1 + ReservedSlots /\ pass.processed \in Nat
    BY ContestedPassRunsOn, PollingAssumption DEF PollInv, PollTypeOK
  <1>2. pass.slow = Share(pass.processed)
    BY DEF PollInv, Contested
  <1> QED BY <1>1, <1>2, PollingAssumption DEF Share

-----------------------------------------------------------------------------
(* The health monitor. *)

(* Each half of AlertedIsTold is what keeps the other: a recovery alert    *)
(* follows an unhealthy one only because the memory and the table agree.   *)
HealthInv == HealthTypeOK /\ AlertedIsTold

LEMMA HealthStart == HealthInit => HealthInv
  <1> SUFFICES ASSUME HealthInit PROVE HealthInv
    OBVIOUS
  <1>1. 0 \in 0..FailureThreshold /\ 0 \in 0..RecoveryThreshold
    BY HealthAssumption
  <1>2. 0 \in 0..MaxMishaps
    BY HealthAssumption
  <1>3. HealthTypeOK
    BY <1>1, <1>2 DEF HealthInit, HealthTypeOK, Blank
  <1>4. AlertedIsTold
    BY DEF HealthInit, AlertedIsTold, Blank
  <1> QED BY <1>3, <1>4 DEF HealthInv

LEMMA HealthUnchanged == HealthInv /\ UNCHANGED healthVars => HealthInv'
  BY DEF HealthInv, HealthTypeOK, AlertedIsTold, healthVars

LEMMA CountedType ==
    ASSUME HealthTypeOK
    PROVE  /\ Counted \in [failures : 0..FailureThreshold, successes : 0..RecoveryThreshold,
                           alerted : BOOLEAN]
           /\ Counted.alerted = memory.alerted
  <1>1. /\ memory.failures \in 0..FailureThreshold
        /\ memory.successes \in 0..RecoveryThreshold
    BY DEF HealthTypeOK
  <1>2. /\ Upto(memory.failures, FailureThreshold) \in 0..FailureThreshold
        /\ Upto(memory.successes, RecoveryThreshold) \in 0..RecoveryThreshold
    BY <1>1, HealthAssumption DEF Upto
  <1>3. 0 \in 0..FailureThreshold /\ 0 \in 0..RecoveryThreshold
    BY HealthAssumption
  <1> DEFINE f == IF Ok THEN 0 ELSE Upto(memory.failures, FailureThreshold)
             s == IF Ok THEN Upto(memory.successes, RecoveryThreshold) ELSE 0
  <1>4. f \in 0..FailureThreshold /\ s \in 0..RecoveryThreshold
    BY <1>2, <1>3
  <1>5. Counted = [memory EXCEPT !.failures = f, !.successes = s]
    BY DEF Counted, HealthTypeOK
  <1> HIDE DEF f, s
  <1> QED BY <1>4, <1>5 DEF HealthTypeOK

(* What one cycle makes of the memory. *)
LEMMA ProcessedType ==
    ASSUME HealthTypeOK
    PROVE  /\ Processed \in [failures : 0..FailureThreshold, successes : 0..RecoveryThreshold,
                             alerted : BOOLEAN]
           /\ Processed.alerted <=> (memory.alerted \/ Alarms) /\ ~Recovers
  <1>1. Alarms \in BOOLEAN /\ Recovers \in BOOLEAN /\ memory.alerted \in BOOLEAN
    BY DEF Alarms, Recovers, HealthTypeOK
  <1> DEFINE a == (Counted.alerted \/ Alarms) /\ ~Recovers
  <1>2. a \in BOOLEAN
    BY <1>1
  <1>3. Processed = [Counted EXCEPT !.alerted = a]
    BY CountedType DEF Processed
  <1>4. a <=> (memory.alerted \/ Alarms) /\ ~Recovers
    BY CountedType
  <1> HIDE DEF a
  <1> QED BY <1>2, <1>3, <1>4, CountedType

LEMMA CycleKeeps == HealthInv /\ BotCycle => HealthInv'
  <1> SUFFICES ASSUME HealthInv, BotCycle PROVE HealthInv'
    OBVIOUS
  <1>1. /\ memory' \in [failures : 0..FailureThreshold, successes : 0..RecoveryThreshold,
                        alerted : BOOLEAN]
        /\ memory'.alerted <=> (memory.alerted \/ Alarms) /\ ~Recovers
    BY ProcessedType DEF HealthInv, BotCycle
  <1>2. Alarms \in BOOLEAN /\ Recovers \in BOOLEAN /\ ~(Alarms /\ Recovers)
    BY DEF Alarms, Recovers, HealthInv, HealthTypeOK
  <1>3. /\ recent \in BOOLEAN /\ lost \in BOOLEAN /\ forgot \in BOOLEAN
        /\ news \in {"none", "unhealthy", "recovered"}
        /\ memory.alerted => news = "unhealthy" \/ lost
        /\ news = "unhealthy" => memory.alerted \/ forgot
    BY DEF HealthInv, HealthTypeOK, AlertedIsTold
  <1>4. /\ recent' <=> (recent \/ Alarms)
        /\ lost' <=> ((lost /\ ~Recovers) \/ (Alarms /\ recent))
        /\ forgot' <=> (forgot /\ ~Alarms)
        /\ {recent', lost', forgot'} \subseteq BOOLEAN
    BY <1>2, <1>3 DEF BotCycle, Queued
  <1>5. /\ Recovers => news' = "recovered"
        /\ Alarms /\ ~recent => news' = "unhealthy"
        /\ ~Recovers /\ ~(Alarms /\ ~recent) => news' = news
    BY <1>2 DEF BotCycle, Queued
  <1>6. UNCHANGED <<heartbeat, mishaps>>
    BY DEF BotCycle
  <1>7. news' \in {"none", "unhealthy", "recovered"}
    BY <1>3, <1>5
  <1>8. HealthTypeOK'
    BY <1>1, <1>4, <1>6, <1>7 DEF HealthInv, HealthTypeOK
  <1>9. memory'.alerted => news' = "unhealthy" \/ lost'
    BY <1>1, <1>2, <1>3, <1>4, <1>5
  <1>10. news' = "unhealthy" => memory'.alerted \/ forgot'
    BY <1>1, <1>2, <1>3, <1>4, <1>5 DEF Alarms
  <1> QED BY <1>8, <1>9, <1>10 DEF HealthInv, AlertedIsTold

LEMMA CommitFailsKeeps == HealthInv /\ CommitFails => HealthInv'
  <1> SUFFICES ASSUME HealthInv, CommitFails PROVE HealthInv'
    OBVIOUS
  <1>1. /\ memory' \in [failures : 0..FailureThreshold, successes : 0..RecoveryThreshold,
                        alerted : BOOLEAN]
        /\ memory'.alerted <=> (memory.alerted \/ Alarms) /\ ~Recovers
    BY ProcessedType DEF HealthInv, CommitFails
  <1>2. Alarms \in BOOLEAN /\ Recovers \in BOOLEAN /\ ~(Alarms /\ Recovers)
    BY DEF Alarms, Recovers, HealthInv, HealthTypeOK
  <1>3. /\ recent \in BOOLEAN /\ lost \in BOOLEAN /\ forgot \in BOOLEAN
        /\ memory.alerted => news = "unhealthy" \/ lost
        /\ news = "unhealthy" => memory.alerted \/ forgot
    BY DEF HealthInv, HealthTypeOK, AlertedIsTold
  <1>4. /\ lost' <=> ((lost /\ ~Recovers) \/ Alarms)
        /\ forgot' <=> ((forgot /\ ~Alarms) \/ Recovers)
        /\ {recent', lost', forgot'} \subseteq BOOLEAN
    BY <1>2, <1>3 DEF CommitFails
  <1>5. UNCHANGED <<heartbeat, news, recent>>
    BY DEF CommitFails
  <1>6. mishaps' \in 0..MaxMishaps
    BY HealthAssumption DEF CommitFails, HealthInv, HealthTypeOK
  <1>7. HealthTypeOK'
    BY <1>1, <1>4, <1>5, <1>6 DEF HealthInv, HealthTypeOK
  <1>8. AlertedIsTold'
    BY <1>1, <1>2, <1>3, <1>4, <1>5 DEF AlertedIsTold
  <1> QED BY <1>7, <1>8 DEF HealthInv

LEMMA RestartKeeps == HealthInv /\ BotRestarts => HealthInv'
  <1> SUFFICES ASSUME HealthInv, BotRestarts PROVE HealthInv'
    OBVIOUS
  <1>1. mishaps' \in 0..MaxMishaps
    BY HealthAssumption DEF BotRestarts, HealthInv, HealthTypeOK
  <1>2. /\ recent \in BOOLEAN /\ forgot \in BOOLEAN /\ memory.alerted \in BOOLEAN
        /\ news = "unhealthy" => memory.alerted \/ forgot
    BY DEF HealthInv, HealthTypeOK, AlertedIsTold
  <1>3. /\ forgot' <=> (forgot \/ memory.alerted)
        /\ lost' = FALSE
        /\ {recent', lost', forgot'} \subseteq BOOLEAN
    BY <1>2 DEF BotRestarts
  <1>4. UNCHANGED <<heartbeat, news, recent>> /\ memory' = Blank
    BY DEF BotRestarts
  <1>5. HealthTypeOK'
    BY <1>1, <1>3, <1>4, HealthAssumption DEF HealthInv, HealthTypeOK, Blank
  <1>6. AlertedIsTold'
    BY <1>2, <1>3, <1>4 DEF AlertedIsTold, Blank
  <1> QED BY <1>5, <1>6 DEF HealthInv

LEMMA BeatKeeps == HealthInv /\ (Beat \/ ClockStep) => HealthInv'
  BY DEF HealthInv, HealthTypeOK, AlertedIsTold, Beat, ClockStep,
         HeartbeatGoesStale, WindowPasses

-----------------------------------------------------------------------------
(* The two processes. *)

SupervisionInv == PollInv /\ HealthInv

LEMMA SupervisionStep ==
    SupervisionInv /\ [SupervisionNext]_supervisionVars => SupervisionInv'
  <1> SUFFICES ASSUME SupervisionInv, [SupervisionNext]_supervisionVars
               PROVE  SupervisionInv'
    OBVIOUS
  <1>1. CASE Worker
    BY <1>1, PollStep, HealthUnchanged DEF Worker, SupervisionInv
  <1>2. ASSUME UNCHANGED pollVars, Beat \/ BotStep \/ ClockStep PROVE SupervisionInv'
    BY <1>2, PollStep, BeatKeeps, CycleKeeps, CommitFailsKeeps, RestartKeeps
       DEF SupervisionInv, BotStep
  <1>3. CASE UNCHANGED supervisionVars
    BY <1>3, PollStep, HealthUnchanged DEF supervisionVars, SupervisionInv
  <1> QED BY <1>1, <1>2, <1>3
          DEF SupervisionNext, NotificationPass, Bot, Clock

(* The worker keeps its count of a contested pass, and the bot's memory    *)
(* agrees with its alerts, each whatever the other process does.           *)
THEOREM SupervisionInvariant == SupervisionSpec => []SupervisionInv
  <1>1. SupervisionInit => SupervisionInv
    BY PollStart, HealthStart DEF SupervisionInit, SupervisionInv
  <1> QED BY <1>1, SupervisionStep, PTL DEF SupervisionSpec

(* The types of the worker's and the bot's state; the number of payments   *)
(* a pass claims never exceeds RECONCILIATION_BATCH_SIZE.                  *)
THEOREM SupervisionTypeCorrect == SupervisionSpec => []SupervisionTypeOK
  <1>1. SupervisionInv => SupervisionTypeOK
    BY DEF SupervisionInv, PollInv, HealthInv, SupervisionTypeOK
  <1> QED BY <1>1, SupervisionInvariant, PTL

(* run_reconciliation_pass never ends a pass in which both tiers kept      *)
(* having due payments before one active payment and every reserved slot's *)
(* expiring payment was claimed, for any batch size, reservation and       *)
(* number of payments, however slow the verifications.                     *)
THEOREM BothTiersAreServed == SupervisionSpec => BothTiersServed
  <1>1. SupervisionInv => ServedStep
    BY ServesBoth DEF SupervisionInv
  <1> QED BY <1>1, SupervisionInvariant, PTL DEF BothTiersServed, ServedStep

(* HealthMonitor holds as announced exactly the outages whose alert        *)
(* stands, up to alerts that were rolled back or suppressed and memory     *)
(* lost to a restart or a failed commit, for any thresholds.               *)
THEOREM AlertedWasTold == SupervisionSpec => []AlertedIsTold
  <1>1. SupervisionInv => AlertedIsTold
    BY DEF SupervisionInv, HealthInv
  <1> QED BY <1>1, SupervisionInvariant, PTL

=============================================================================
