------------------------------ MODULE FeeProofs ------------------------------
(***************************************************************************)
(* Proofs about fee policies, for any number of commands, orders, rates    *)
(* and policies and any range of times; and about the fee formula.         *)
(***************************************************************************)
EXTENDS FeePolicies, Fees, WellFoundedInduction, TLAPS

-----------------------------------------------------------------------------
(* The inductive invariant. *)

(* A draft that was flushed has an id of its own, and no row under it yet. *)
IdInv ==
    /\ \A i \in Ids : i > lastId => ~policy[i].stored
    /\ \A c \in Clerks : clerk[c].pc = "commit" =>
          clerk[c].id \in 1..lastId /\ ~policy[clerk[c].id].stored
    /\ \A c, d \in Clerks : clerk[c].pc = "commit" /\ clerk[d].pc = "commit"
                              /\ clerk[c].id = clerk[d].id => c = d

(* Only the holder of the advisory lock can add an initial policy, and it  *)
(* found none.                                                             *)
InitialInv ==
    /\ \A c, d \in Clerks : HoldsInitialLock(c) /\ HoldsInitialLock(d) => c = d
    /\ \A c \in Clerks : HoldsInitialLock(c) =>
          \A i \in Ids : ~(policy[i].stored /\ policy[i].initial)
    /\ OneInitialPolicy

(* What a cancel checked under its row lock still holds when it commits. *)
CancelInv ==
    /\ \A c \in Clerks : clerk[c].pc \in {"find", "cancel"} => clerk[c].id \in Ids
    /\ \A c \in Clerks : clerk[c].pc = "cancel" => Cancellable(c)
    /\ \A c, d \in Clerks : clerk[c].pc = "cancel" /\ clerk[d].pc = "cancel"
                              /\ clerk[c].id = clerk[d].id => c = d

FeesInv == FeesTypeOK /\ IdInv /\ InitialInv /\ CancelInv /\ SnapshotIsDeclared

-----------------------------------------------------------------------------
(* Selection. *)

LEMMA LeastNatural ==
    ASSUME NEW S \in SUBSET Nat, S # {}
    PROVE  \E n \in S : \A m \in S : n <= m
  <1> DEFINE less == OpToRel(<, Nat)
  <1>1. PICK n \in S : \A m \in S : <<m, n>> \notin less
    BY NatLessThanWellFounded, WFMin
  <1>2. \A m, k \in Nat : m < k => <<m, k>> \in less
    BY Zenon DEF OpToRel
  <1> HIDE DEF less
  <1>3. \A m \in S : m \in Nat /\ n \in Nat /\ ~(m < n)
    BY <1>1, <1>2
  <1> QED BY <1>3

LEMMA GreatestBelow ==
    ASSUME NEW n \in Nat, NEW S \in SUBSET (0..n), S # {}
    PROVE  \E m \in S : \A k \in S : k <= m
  <1> DEFINE T == {n - m : m \in S}
  <1>0. \A k \in S : k \in Nat /\ k <= n /\ n - k \in Nat
    OBVIOUS
  <1>1. T \in SUBSET Nat /\ T # {}
    BY <1>0
  <1>2. PICK t \in T : \A u \in T : t <= u
    BY <1>1, LeastNatural
  <1>3. PICK m \in S : t = n - m
    OBVIOUS
  <1>4. \A k \in S : n - m <= n - k
    BY <1>2, <1>3
  <1>5. \A k \in S : k <= m
    BY <1>0, <1>4
  <1> QED BY <1>5

(* The ORDER BY of select_effective_policy has a first row. *)
LEMMA BestExists ==
    ASSUME FeesTypeOK, NEW now \in Times, Eligible(now) # {}
    PROVE  \E i \in Eligible(now) : \A j \in Eligible(now) : j = i \/ Outranks(i, j)
  <1> DEFINE E == Eligible(now)
             A == {policy[i].effectiveAt : i \in E}
  <1>0. MaxTime \in Nat /\ MaxPolicies \in Nat
    BY FeesAssumption
  <1>1. E \subseteq Ids /\ \A i \in Ids : policy[i].effectiveAt \in 0..MaxTime
    BY DEF FeesTypeOK, Eligible, Row, Times
  <1>2. A \in SUBSET (0..MaxTime) /\ A # {}
    BY <1>1
  <1>3. PICK a \in A : \A b \in A : b <= a
    BY <1>0, <1>2, GreatestBelow
  <1> DEFINE L == {i \in E : policy[i].effectiveAt = a}
  <1>4. L \in SUBSET (0..MaxPolicies) /\ L # {}
    BY <1>1, <1>3 DEF Ids
  <1>5. PICK i \in L : \A j \in L : j <= i
    BY <1>0, <1>4, GreatestBelow
  <1>6. ASSUME NEW j \in E PROVE j = i \/ Outranks(i, j)
    <2>1. policy[j].effectiveAt \in A /\ policy[j].effectiveAt \in 0..MaxTime
      BY <1>1
    <2>2. i \in E /\ policy[i].effectiveAt = a /\ a \in 0..MaxTime
      BY <1>2, <1>3
    <2>3. CASE policy[j].effectiveAt = a
      <3>1. j \in L /\ j <= i /\ i \in Nat /\ j \in Nat
        BY <2>3, <1>4, <1>5, <1>0
      <3> QED BY <3>1, <2>3, <2>2 DEF Outranks
    <2>4. CASE policy[j].effectiveAt # a
      <3>1. policy[j].effectiveAt <= a
        BY <2>1, <1>3
      <3>2. policy[i].effectiveAt > policy[j].effectiveAt
        BY <3>1, <2>1, <2>2, <2>4
      <3> QED BY <3>2 DEF Outranks
    <2> QED BY <2>3, <2>4
  <1> QED BY <1>6

LEMMA SelectedBest ==
    ASSUME FeesTypeOK, NEW now \in Times
    PROVE  /\ Eligible(now) = {} => Selected(now) = NoPolicy
           /\ Eligible(now) # {} =>
                /\ Selected(now) \in Eligible(now)
                /\ \A j \in Eligible(now) : j = Selected(now) \/ Outranks(Selected(now), j)
  <1>1. CASE Eligible(now) = {}
    BY <1>1 DEF Selected
  <1>2. CASE Eligible(now) # {}
    <2> DEFINE Best(i) == \A j \in Eligible(now) : j = i \/ Outranks(i, j)
    <2>1. \E i \in Eligible(now) : Best(i)
      BY <1>2, BestExists
    <2>2. Selected(now) = CHOOSE i \in Eligible(now) : Best(i)
      BY <1>2 DEF Selected
    <2> HIDE DEF Best
    <2>3. Selected(now) \in Eligible(now) /\ Best(Selected(now))
      BY <2>1, <2>2
    <2> QED BY <2>3, <1>2 DEF Best
  <1> QED BY <1>1, <1>2

LEMMA SelectedType ==
    ASSUME FeesTypeOK, NEW now \in Times
    PROVE  /\ Selected(now) \in Ids \cup {NoPolicy}
           /\ RateOf(Selected(now)) \in FeeRates \cup {0}
           /\ Selected(now) # NoPolicy =>
                policy[Selected(now)].stored /\ policy[Selected(now)].effectiveAt <= now
  <1>1. Selected(now) \in Eligible(now) \/ Selected(now) = NoPolicy
    BY SelectedBest
  <1>2. \A i \in Ids : policy[i] \in Row
    BY DEF FeesTypeOK
  <1> QED BY <1>1, <1>2 DEF Eligible, Uncancelled, RateOf, Row

-----------------------------------------------------------------------------
(* Every step keeps the invariant. *)

LEMMA CommandTypes ==
    ASSUME FeesTypeOK
    PROVE  /\ \A c \in Clerks : clerk[c] \in Command
           /\ \A i \in Ids : policy[i] \in Row
           /\ \A o \in Orders : order[o] \in Snapshot
           /\ Ids \subseteq Nat \ {0} /\ Times \subseteq Nat /\ lastId \in Nat /\ clock \in Nat
  <1>1. Ids \subseteq Nat \ {0} /\ Times \subseteq Nat
    BY FeesAssumption DEF Ids, Times
  <1>2. lastId \in Nat /\ clock \in Nat
    BY <1>1 DEF FeesTypeOK
  <1> QED BY <1>1, <1>2 DEF FeesTypeOK

LEMMA IdleType == Idle \in Command /\ Idle.pc = "idle" /\ ~Idle.initial
BY FeesAssumption DEF Idle, Command, Times

LEMMA FeesStart == FeesInit => FeesInv
  <1> SUFFICES ASSUME FeesInit PROVE FeesInv
    OBVIOUS
  <1>1. FeesTypeOK
    BY IdleType, FeesAssumption
       DEF FeesInit, FeesTypeOK, Absent, Row, Snapshot, Times, Ids, NoPolicy
  <1>2. /\ \A i \in Ids : ~policy[i].stored
        /\ \A c \in Clerks : clerk[c].pc = "idle"
        /\ \A o \in Orders : order[o].pc = "new"
    BY DEF FeesInit, Absent, Idle
  <1> QED
    BY <1>1, <1>2 DEF FeesInv, IdInv, InitialInv, OneInitialPolicy, HoldsInitialLock,
                      CancelInv, SnapshotIsDeclared

(* The commands that only start, stop or give up. *)
LEMMA CommandKeeps ==
    ASSUME FeesInv, NEW c \in Clerks, NEW d \in Command,
           clerk' = [clerk EXCEPT ![c] = d],
           UNCHANGED <<clock, lastId, policy, order>>,
           \/ d.pc \in {"idle", "lock"}
           \/ d.pc = "insert" /\ ~d.initial
           \/ d.pc = "find" /\ d.id \in Ids
    PROVE  FeesInv'
  <1>1. FeesTypeOK'
    BY DEF FeesInv, FeesTypeOK
  <1>2. \A e \in Clerks : clerk'[e] = IF e = c THEN d ELSE clerk[e]
    BY DEF FeesInv, FeesTypeOK
  <1>3. IdInv'
    BY <1>2 DEF FeesInv, IdInv
  <1>4. InitialInv'
    BY <1>2 DEF FeesInv, InitialInv, OneInitialPolicy, HoldsInitialLock
  <1>5. CancelInv'
    BY <1>2 DEF FeesInv, CancelInv, Cancellable, Uncancelled
  <1>6. SnapshotIsDeclared'
    BY DEF FeesInv, SnapshotIsDeclared
  <1> QED BY <1>1, <1>3, <1>4, <1>5, <1>6 DEF FeesInv

LEMMA DraftKeeps ==
    ASSUME FeesInv, NEW c \in Clerks, NEW pc \in {"lock", "insert"}, NEW initial \in BOOLEAN,
           NEW rate \in FeeRates, NEW time \in Times,
           Draft(c, pc, initial, rate, time), UNCHANGED <<clock, lastId, policy, order>>,
           pc = "insert" => ~initial
    PROVE  FeesInv'
  <1> DEFINE d == [pc |-> pc, initial |-> initial, rate |-> rate, time |-> time,
                   id |-> NoPolicy]
  <1>1. d \in Command
    BY DEF Command
  <1> QED BY <1>1, CommandKeeps DEF Draft

LEMMA AcquireKeeps ==
    ASSUME FeesInv, NEW c \in Clerks, AcquireInitial(c)
    PROVE  FeesInv'
  <1>0. FeesTypeOK /\ clerk[c] \in Command
    BY CommandTypes DEF FeesInv
  <1>1. CASE ~TableEmpty
    BY <1>1, IdleType, CommandKeeps DEF AcquireInitial
  <1>2. CASE TableEmpty
    <2>1. PICK time \in {clerk[c].time, clock} :
             clerk' = [clerk EXCEPT ![c].pc = "insert", ![c].time = time]
      BY <1>2 DEF AcquireInitial
    <2>2. time \in Times /\ UNCHANGED <<clock, lastId, policy, order>>
      BY <1>0 DEF FeesTypeOK, Command, AcquireInitial
    <2> DEFINE d == [clerk[c] EXCEPT !.pc = "insert", !.time = time]
    <2>3. d \in Command /\ d.pc = "insert"
      BY <1>0, <2>2 DEF Command
    <2>4. clerk' = [clerk EXCEPT ![c] = d]
      BY <2>1
    <2> HIDE DEF d
    <2>5. \A e \in Clerks : clerk'[e] = IF e = c THEN d ELSE clerk[e]
      BY <1>0, <2>4 DEF FeesTypeOK
    <2>6. FeesTypeOK'
      BY <1>0, <2>2, <2>3, <2>4 DEF FeesTypeOK
    <2>7. IdInv'
      BY <2>2, <2>3, <2>5 DEF FeesInv, IdInv
    <2>8. InitialInv'
      <3>1. \A e \in Clerks : HoldsInitialLock(e)' => e = c
        BY <2>5 DEF HoldsInitialLock, AcquireInitial, InitialLockFree
      <3>2. \A i \in Ids : ~policy'[i].stored
        BY <1>2, <2>2 DEF TableEmpty
      <3> QED BY <3>1, <3>2 DEF InitialInv, OneInitialPolicy
    <2>9. CancelInv'
      BY <2>2, <2>3, <2>5 DEF FeesInv, CancelInv, Cancellable, Uncancelled
    <2>10. SnapshotIsDeclared'
      BY <2>2 DEF FeesInv, SnapshotIsDeclared
    <2> QED BY <2>6, <2>7, <2>8, <2>9, <2>10 DEF FeesInv
  <1> QED BY <1>1, <1>2

LEMMA InsertKeeps ==
    ASSUME FeesInv, NEW c \in Clerks, Insert(c)
    PROVE  FeesInv'
  <1>0. FeesTypeOK /\ clerk[c] \in Command /\ lastId \in Nat /\ MaxPolicies \in Nat
    BY CommandTypes, FeesAssumption DEF FeesInv
  <1> DEFINE d == [clerk[c] EXCEPT !.pc = "commit", !.id = lastId + 1]
  <1>1. lastId + 1 \in Ids /\ UNCHANGED <<clock, policy, order>> /\ lastId' = lastId + 1
    BY <1>0 DEF Insert, Ids
  <1>2. d \in Command /\ d.pc = "commit" /\ d.id = lastId + 1 /\ d.initial = clerk[c].initial
    BY <1>0, <1>1 DEF Command
  <1>3. clerk' = [clerk EXCEPT ![c] = d]
    BY DEF Insert
  <1> HIDE DEF d
  <1>4. \A e \in Clerks : clerk'[e] = IF e = c THEN d ELSE clerk[e]
    BY <1>0, <1>3 DEF FeesTypeOK
  <1>5. FeesTypeOK'
    BY <1>0, <1>1, <1>2, <1>3 DEF FeesTypeOK
  <1>6. IdInv'
    <2>1. ~policy[lastId + 1].stored
      BY <1>0, <1>1 DEF FeesInv, IdInv
    <2>2. \A i \in Ids : i > lastId' => ~policy'[i].stored
      BY <1>0, <1>1 DEF FeesInv, IdInv, Ids
    <2>3. \A e \in Clerks : clerk'[e].pc = "commit" =>
             clerk'[e].id \in 1..lastId' /\ ~policy'[clerk'[e].id].stored
      BY <1>0, <1>1, <1>2, <1>4, <2>1 DEF FeesInv, IdInv
    <2>4. \A e \in Clerks : e # c /\ clerk'[e].pc = "commit" => clerk'[e].id # lastId + 1
      BY <1>0, <1>4 DEF FeesInv, IdInv
    <2>5. ASSUME NEW e \in Clerks, NEW g \in Clerks,
                 clerk'[e].pc = "commit", clerk'[g].pc = "commit", clerk'[e].id = clerk'[g].id
          PROVE  e = g
      <3>1. CASE e = c \/ g = c
        BY <3>1, <2>4, <2>5, <1>2, <1>4
      <3>2. CASE e # c /\ g # c
        BY <3>2, <2>5, <1>4 DEF FeesInv, IdInv
      <3> QED BY <3>1, <3>2
    <2> QED BY <2>2, <2>3, <2>5 DEF IdInv
  <1>7. InitialInv'
    <2>1. \A e \in Clerks : HoldsInitialLock(e)' => HoldsInitialLock(e)
      BY <1>2, <1>4 DEF HoldsInitialLock, Insert
    <2>2. policy' = policy
      BY <1>1
    <2> QED BY <2>1, <2>2 DEF FeesInv, InitialInv, OneInitialPolicy
  <1>8. CancelInv'
    BY <1>1, <1>2, <1>4 DEF FeesInv, CancelInv, Cancellable, Uncancelled
  <1>9. SnapshotIsDeclared'
    BY <1>1 DEF FeesInv, SnapshotIsDeclared
  <1> QED BY <1>5, <1>6, <1>7, <1>8, <1>9 DEF FeesInv

LEMMA CommitKeeps ==
    ASSUME FeesInv, NEW c \in Clerks, Commit(c)
    PROVE  FeesInv'
  <1> DEFINE i == clerk[c].id
             r == [stored |-> TRUE, rate |-> clerk[c].rate, effectiveAt |-> clerk[c].time,
                   initial |-> clerk[c].initial, cancelledBy |-> NoClerk]
  <1>0. FeesTypeOK /\ clerk[c] \in Command /\ clerk[c].pc = "commit"
    BY CommandTypes DEF FeesInv, Commit
  <1>1. i \in Ids /\ i <= lastId /\ ~policy[i].stored /\ lastId \in Nat
    <2>1. i \in 1..lastId /\ ~policy[i].stored
      BY <1>0 DEF FeesInv, IdInv
    <2>2. lastId \in Nat /\ i \in Ids \cup {NoPolicy}
      BY <1>0, CommandTypes DEF Command
    <2> QED BY <2>1, <2>2 DEF NoPolicy
  <1>2. r \in Row /\ r.stored /\ r.initial = clerk[c].initial /\ r.cancelledBy = NoClerk
    BY <1>0 DEF Row, Command
  <1>3. /\ policy' = [policy EXCEPT ![i] = r]
        /\ clerk' = [clerk EXCEPT ![c] = Idle]
        /\ UNCHANGED <<clock, lastId, order>>
    BY DEF Commit
  <1>4. /\ \A e \in Clerks : clerk'[e] = IF e = c THEN Idle ELSE clerk[e]
        /\ \A j \in Ids : policy'[j] = IF j = i THEN r ELSE policy[j]
    BY <1>0, <1>3 DEF FeesTypeOK
  <1> HIDE DEF r, i
  <1>5. FeesTypeOK'
    BY <1>0, <1>1, <1>2, <1>3, IdleType DEF FeesTypeOK
  <1>6. IdInv'
    <2>1. \A j \in Ids : j > lastId' => ~policy'[j].stored
      BY <1>1, <1>3, <1>4 DEF FeesInv, IdInv, Ids
    <2>2. ASSUME NEW e \in Clerks, clerk'[e].pc = "commit"
          PROVE  clerk'[e].id \in 1..lastId' /\ ~policy'[clerk'[e].id].stored
      <3>1. e # c /\ clerk'[e] = clerk[e]
        BY <2>2, <1>4, IdleType
      <3>2. clerk[e].id # i
        BY <3>1, <2>2, <1>0 DEF FeesInv, IdInv, i
      <3>3. clerk[e].id \in 1..lastId /\ ~policy[clerk[e].id].stored /\ clerk[e].id \in Ids
        BY <3>1, <2>2, <1>0 DEF FeesInv, IdInv, Command, FeesTypeOK, Ids, NoPolicy
      <3> QED BY <3>1, <3>2, <3>3, <1>3, <1>4
    <2>3. \A e, g \in Clerks : clerk'[e].pc = "commit" /\ clerk'[g].pc = "commit"
                                 /\ clerk'[e].id = clerk'[g].id => e = g
      BY <1>4, IdleType DEF FeesInv, IdInv
    <2> QED BY <2>1, <2>2, <2>3 DEF IdInv
  <1>7. InitialInv'
    <2>1. \A e \in Clerks : HoldsInitialLock(e)' => e # c /\ HoldsInitialLock(e)
      BY <1>4, IdleType DEF HoldsInitialLock
    <2>2. \A e, g \in Clerks : HoldsInitialLock(e)' /\ HoldsInitialLock(g)' => e = g
      BY <2>1 DEF FeesInv, InitialInv
    <2>3. CASE clerk[c].initial
      <3>1. HoldsInitialLock(c)
        BY <2>3, <1>0 DEF HoldsInitialLock
      <3>2. \A j \in Ids : policy'[j].stored /\ policy'[j].initial => j = i
        BY <3>1, <1>4 DEF FeesInv, InitialInv
      <3>3. \A e \in Clerks : ~HoldsInitialLock(e)'
        BY <3>1, <2>1 DEF FeesInv, InitialInv
      <3> QED BY <3>2, <3>3 DEF InitialInv, OneInitialPolicy
    <2>4. CASE ~clerk[c].initial
      <3>1. \A j \in Ids : policy'[j].stored /\ policy'[j].initial
                               => policy[j].stored /\ policy[j].initial
        BY <2>4, <1>2, <1>4
      <3>2. OneInitialPolicy'
        BY <3>1 DEF FeesInv, InitialInv, OneInitialPolicy
      <3>3. \A e \in Clerks : HoldsInitialLock(e)' =>
               \A j \in Ids : ~(policy'[j].stored /\ policy'[j].initial)
        BY <3>1, <2>1 DEF FeesInv, InitialInv
      <3> QED BY <2>2, <3>2, <3>3 DEF InitialInv
    <2> QED BY <2>3, <2>4
  <1>8. CancelInv'
    <2>1. \A e \in Clerks : clerk'[e].pc \in {"find", "cancel"} => clerk'[e] = clerk[e]
      BY <1>4, IdleType
    <2>2. ASSUME NEW e \in Clerks, clerk'[e].pc = "cancel" PROVE Cancellable(e)'
      <3>1. clerk'[e] = clerk[e] /\ Cancellable(e) /\ clerk[e].id \in Ids
        BY <2>1, <2>2 DEF FeesInv, CancelInv
      <3>2. clerk[e].id # i
        BY <3>1, <1>1 DEF Cancellable, Uncancelled
      <3> QED BY <3>1, <3>2, <1>4 DEF Cancellable, Uncancelled
    <2>3. \A e \in Clerks : clerk'[e].pc \in {"find", "cancel"} => clerk'[e].id \in Ids
      BY <2>1 DEF FeesInv, CancelInv
    <2>4. \A e, g \in Clerks : clerk'[e].pc = "cancel" /\ clerk'[g].pc = "cancel"
                                 /\ clerk'[e].id = clerk'[g].id => e = g
      BY <2>1 DEF FeesInv, CancelInv
    <2> QED BY <2>2, <2>3, <2>4 DEF CancelInv
  <1>9. SnapshotIsDeclared'
    <2>1. \A o \in Orders : order[o].policy \in Ids \cup {NoPolicy}
      BY <1>0, CommandTypes DEF Snapshot
    <2>2. \A j \in Ids : policy[j].stored => policy'[j] = policy[j]
      BY <1>1, <1>4
    <2> QED BY <1>3, <2>1, <2>2 DEF FeesInv, SnapshotIsDeclared
  <1> QED BY <1>5, <1>6, <1>7, <1>8, <1>9 DEF FeesInv

LEMMA LockKeeps ==
    ASSUME FeesInv, NEW c \in Clerks, LockPolicy(c)
    PROVE  FeesInv'
  <1>0. FeesTypeOK /\ clerk[c] \in Command /\ UNCHANGED <<clock, lastId, policy, order>>
    BY CommandTypes DEF FeesInv, LockPolicy
  <1>1. CASE ~Cancellable(c)
    BY <1>0, <1>1, IdleType, CommandKeeps DEF LockPolicy
  <1>2. CASE Cancellable(c)
    <2> DEFINE d == [clerk[c] EXCEPT !.pc = "cancel"]
    <2>1. d \in Command /\ d.pc = "cancel" /\ d.id = clerk[c].id /\ d.time = clerk[c].time
      BY <1>0 DEF Command
    <2>2. clerk' = [clerk EXCEPT ![c] = d]
      BY <1>2 DEF LockPolicy
    <2> HIDE DEF d
    <2>3. \A e \in Clerks : clerk'[e] = IF e = c THEN d ELSE clerk[e]
      BY <1>0, <2>2 DEF FeesTypeOK
    <2>4. FeesTypeOK'
      BY <1>0, <2>1, <2>2 DEF FeesTypeOK
    <2>5. IdInv'
      BY <1>0, <2>1, <2>3 DEF FeesInv, IdInv
    <2>6. InitialInv'
      BY <1>0, <2>1, <2>3 DEF FeesInv, InitialInv, OneInitialPolicy, HoldsInitialLock
    <2>7. CancelInv'
      <3>1. \A e \in Clerks : clerk[e].pc = "cancel" => clerk[e].id # clerk[c].id
        BY DEF LockPolicy, RowFree
      <3>2. \A e \in Clerks : clerk'[e].pc \in {"find", "cancel"} => clerk'[e].id \in Ids
        BY <2>1, <2>3 DEF FeesInv, CancelInv, LockPolicy
      <3>3. \A e \in Clerks : clerk'[e].pc = "cancel" => Cancellable(e)'
        BY <1>0, <1>2, <2>1, <2>3 DEF FeesInv, CancelInv, Cancellable, Uncancelled
      <3>4. \A e, g \in Clerks : clerk'[e].pc = "cancel" /\ clerk'[g].pc = "cancel"
                                   /\ clerk'[e].id = clerk'[g].id => e = g
        BY <2>1, <2>3, <3>1 DEF FeesInv, CancelInv
      <3> QED BY <3>2, <3>3, <3>4 DEF CancelInv
    <2>8. SnapshotIsDeclared'
      BY <1>0 DEF FeesInv, SnapshotIsDeclared
    <2> QED BY <2>4, <2>5, <2>6, <2>7, <2>8 DEF FeesInv
  <1> QED BY <1>1, <1>2

LEMMA CancelKeeps ==
    ASSUME FeesInv, NEW c \in Clerks, CommitCancel(c)
    PROVE  /\ FeesInv'
           /\ clerk[c].id \in Ids /\ Cancellable(c)
           /\ \A j \in Ids : policy'[j] = IF j = clerk[c].id THEN [policy[j] EXCEPT !.cancelledBy = c]
                                           ELSE policy[j]
  <1> DEFINE i == clerk[c].id
             r == [policy[i] EXCEPT !.cancelledBy = c]
  <1>0. FeesTypeOK /\ clerk[c] \in Command /\ clerk[c].pc = "cancel"
    BY CommandTypes DEF FeesInv, CommitCancel
  <1>1. i \in Ids /\ Cancellable(c) /\ policy[i].stored /\ policy[i] \in Row
    BY <1>0, CommandTypes DEF FeesInv, CancelInv, Cancellable, Uncancelled
  <1>2. /\ r \in Row /\ (r.stored <=> policy[i].stored) /\ (r.initial <=> policy[i].initial)
        /\ r.rate = policy[i].rate /\ r.effectiveAt = policy[i].effectiveAt
    BY <1>1 DEF Row
  <1>3. /\ policy' = [policy EXCEPT ![i] = r]
        /\ clerk' = [clerk EXCEPT ![c] = Idle]
        /\ UNCHANGED <<clock, lastId, order>>
    BY DEF CommitCancel
  <1>4. /\ \A e \in Clerks : clerk'[e] = IF e = c THEN Idle ELSE clerk[e]
        /\ \A j \in Ids : policy'[j] = IF j = i THEN r ELSE policy[j]
    BY <1>0, <1>3 DEF FeesTypeOK
  <1>5. \A j \in Ids : policy'[j] = IF j = i THEN [policy[j] EXCEPT !.cancelledBy = c]
                                     ELSE policy[j]
    BY <1>4
  <1>6. \A j \in Ids :
           /\ policy'[j].stored <=> policy[j].stored
           /\ policy'[j].initial <=> policy[j].initial
           /\ policy'[j].rate = policy[j].rate
           /\ policy'[j].effectiveAt = policy[j].effectiveAt
           /\ j # i => policy'[j] = policy[j]
    BY <1>2, <1>4
  <1> HIDE DEF r
  <1>7. FeesTypeOK'
    BY <1>0, <1>1, <1>2, <1>3, IdleType DEF FeesTypeOK
  <1>8. IdInv'
    <2>1. \A e \in Clerks : clerk'[e].pc = "commit" =>
             clerk'[e] = clerk[e] /\ clerk[e].id \in Ids /\ ~policy[clerk[e].id].stored
      BY <1>0, <1>4, IdleType DEF FeesInv, IdInv, FeesTypeOK, Command, Ids, NoPolicy
    <2> QED BY <1>3, <1>6, <2>1 DEF FeesInv, IdInv
  <1>9. InitialInv'
    <2>1. \A e \in Clerks : HoldsInitialLock(e)' => HoldsInitialLock(e)
      BY <1>4, IdleType DEF HoldsInitialLock
    <2> QED BY <1>6, <2>1 DEF FeesInv, InitialInv, OneInitialPolicy
  <1>10. CancelInv'
    <2>1. \A e \in Clerks : clerk'[e].pc \in {"find", "cancel"} => e # c /\ clerk'[e] = clerk[e]
      BY <1>4, IdleType
    <2>2. ASSUME NEW e \in Clerks, clerk'[e].pc = "cancel" PROVE Cancellable(e)'
      <3>1. /\ clerk'[e] = clerk[e] /\ Cancellable(e) /\ clerk[e].id \in Ids
            /\ clerk[e].id # i
        BY <2>1, <2>2, <1>0 DEF FeesInv, CancelInv
      <3> QED BY <3>1, <1>6 DEF Cancellable, Uncancelled
    <2>3. \A e \in Clerks : clerk'[e].pc \in {"find", "cancel"} => clerk'[e].id \in Ids
      BY <2>1 DEF FeesInv, CancelInv
    <2>4. \A e, g \in Clerks : clerk'[e].pc = "cancel" /\ clerk'[g].pc = "cancel"
                                 /\ clerk'[e].id = clerk'[g].id => e = g
      BY <2>1 DEF FeesInv, CancelInv
    <2> QED BY <2>2, <2>3, <2>4 DEF CancelInv
  <1>11. SnapshotIsDeclared'
    <2>1. \A o \in Orders : order[o].policy \in Ids \cup {NoPolicy}
      BY <1>0, CommandTypes DEF Snapshot
    <2> QED BY <1>3, <1>6, <2>1 DEF FeesInv, SnapshotIsDeclared
  <1> QED BY <1>1, <1>5, <1>7, <1>8, <1>9, <1>10, <1>11 DEF FeesInv

LEMMA OrderKeeps ==
    ASSUME FeesInv, NEW o \in Orders, ReadClock(o) \/ SelectPolicy(o)
    PROVE  FeesInv'
  <1>0. FeesTypeOK /\ order[o] \in Snapshot /\ UNCHANGED <<clock, lastId, policy, clerk>>
    BY CommandTypes DEF FeesInv, ReadClock, SelectPolicy
  <1>1. IdInv' /\ InitialInv' /\ CancelInv'
    BY <1>0 DEF FeesInv, IdInv, InitialInv, OneInitialPolicy, HoldsInitialLock, CancelInv,
                Cancellable, Uncancelled
  <1>2. CASE ReadClock(o)
    <2> DEFINE q == [order[o] EXCEPT !.pc = "select", !.now = clock]
    <2>1. q \in Snapshot /\ q.pc = "select"
      BY <1>0 DEF Snapshot, FeesTypeOK
    <2>2. order' = [order EXCEPT ![o] = q]
      BY <1>2 DEF ReadClock
    <2> HIDE DEF q
    <2>3. FeesTypeOK'
      BY <1>0, <2>1, <2>2 DEF FeesTypeOK
    <2>4. SnapshotIsDeclared'
      BY <1>0, <2>1, <2>2 DEF FeesInv, FeesTypeOK, SnapshotIsDeclared
    <2> QED BY <1>1, <2>3, <2>4 DEF FeesInv
  <1>3. CASE SelectPolicy(o)
    <2> DEFINE i == Selected(order[o].now)
               q == [order[o] EXCEPT !.pc = "done", !.policy = i, !.rate = RateOf(i)]
    <2>0. order[o].now \in Times
      BY <1>0 DEF Snapshot
    <2>1. /\ i \in Ids \cup {NoPolicy} /\ RateOf(i) \in FeeRates \cup {0}
          /\ i # NoPolicy => policy[i].stored /\ policy[i].effectiveAt <= order[o].now
      BY <1>0, <2>0, SelectedType
    <2>2. order' = [order EXCEPT ![o] = q]
      BY <1>3 DEF SelectPolicy
    <2> HIDE DEF i
    <2>3. q \in Snapshot /\ q.policy = i /\ q.rate = RateOf(i) /\ q.now = order[o].now
      BY <1>0, <2>1 DEF Snapshot
    <2> HIDE DEF q
    <2>4. FeesTypeOK'
      BY <1>0, <2>2, <2>3 DEF FeesTypeOK
    <2>5. \A p \in Orders : order'[p] = IF p = o THEN q ELSE order[p]
      BY <1>0, <2>2 DEF FeesTypeOK
    <2>6. SnapshotIsDeclared'
      BY <1>0, <2>1, <2>3, <2>5 DEF FeesInv, SnapshotIsDeclared, RateOf
    <2> QED BY <1>1, <2>4, <2>6 DEF FeesInv
  <1> QED BY <1>2, <1>3

LEMMA TickKeeps ==
    ASSUME FeesInv, Tick \/ UNCHANGED feeVars
    PROVE  FeesInv'
  <1>1. UNCHANGED <<lastId, policy, clerk, order>>
    BY DEF Tick, feeVars
  <1>2. clock' \in Times
    <2>1. clock \in 0..MaxTime /\ MaxTime \in Nat
      BY FeesAssumption DEF FeesInv, FeesTypeOK, Times
    <2>2. clock' = clock \/ (clock < MaxTime /\ clock' = clock + 1)
      BY DEF Tick, feeVars
    <2> QED BY <2>1, <2>2 DEF Times
  <1> QED
    BY <1>1, <1>2
       DEF FeesInv, FeesTypeOK, IdInv, InitialInv, OneInitialPolicy, HoldsInitialLock, CancelInv,
           Cancellable, Uncancelled, SnapshotIsDeclared

LEMMA ClerkKeeps ==
    ASSUME FeesInv, NEW c \in Clerks, ClerkStep(c)
    PROVE  FeesInv'
  <1>0. clock \in Times
    BY DEF FeesInv, FeesTypeOK
  <1>1. ASSUME NEW rate \in FeeRates, BeginSet(c, rate) PROVE FeesInv'
    BY <1>0, <1>1, DraftKeeps DEF BeginSet
  <1>2. ASSUME NEW rate \in FeeRates, BeginInitial(c, rate) PROVE FeesInv'
    BY <1>0, <1>2, DraftKeeps DEF BeginInitial
  <1>3. ASSUME NEW rate \in FeeRates, NEW at \in Times, BeginSchedule(c, rate, at)
        PROVE  FeesInv'
    BY <1>3, DraftKeeps DEF BeginSchedule
  <1>4. CASE Rollback(c)
    BY <1>4, IdleType, CommandKeeps DEF Rollback
  <1>5. ASSUME NEW i \in Ids, BeginCancel(c, i) PROVE FeesInv'
    <2> DEFINE d == [Idle EXCEPT !.pc = "find", !.id = i, !.time = clock]
    <2>1. d \in Command /\ d.pc = "find" /\ d.id = i
      BY <1>0, IdleType DEF Command, Idle
    <2>2. clerk' = [clerk EXCEPT ![c] = d] /\ UNCHANGED <<clock, lastId, policy, order>>
      BY <1>5 DEF BeginCancel
    <2> HIDE DEF d
    <2> QED BY <2>1, <2>2, CommandKeeps
  <1> QED
    BY <1>1, <1>2, <1>3, <1>4, <1>5, AcquireKeeps, InsertKeeps, CommitKeeps, LockKeeps,
       CancelKeeps DEF ClerkStep

LEMMA FeesStep == FeesInv /\ [FeesNext]_feeVars => FeesInv'
BY ClerkKeeps, OrderKeeps, TickKeeps DEF FeesNext

-----------------------------------------------------------------------------
(* Theorems. *)

(* The invariant behind the others: ids drawn by the sequence belong to    *)
(* one open insert each, an installer that holds the advisory lock is the  *)
(* only one and found no row, and what a cancel checked still holds.       *)
THEOREM FeesInvariant == FeesSpec => []FeesInv
BY FeesStart, FeesStep, PTL DEF FeesSpec

(* The columns keep their ranges. *)
THEOREM FeesTypeCorrect == FeesSpec => []FeesTypeOK
BY FeesInvariant, PTL DEF FeesInv

(* However many installers race, they leave one initial policy. *)
THEOREM InitialIsUnique == FeesSpec => []OneInitialPolicy
BY FeesInvariant, PTL DEF FeesInv, InitialInv

(* Every order pays the rate of a committed policy that was in force when  *)
(* it read the clock.                                                      *)
THEOREM SnapshotsAreDeclared == FeesSpec => []SnapshotIsDeclared
BY FeesInvariant, PTL DEF FeesInv

(* What a step may do to a committed row. *)
LEMMA RowStep ==
    ASSUME FeesInv, [FeesNext]_feeVars, NEW i \in Ids, policy[i].stored
    PROVE  \/ policy'[i] = policy[i]
           \/ \E c \in Clerks :
                 /\ CommitCancel(c) /\ clerk[c].id = i /\ Cancellable(c)
                 /\ policy'[i] = [policy[i] EXCEPT !.cancelledBy = c]
  <1>1. CASE UNCHANGED policy
    BY <1>1
  <1>2. ASSUME NEW c \in Clerks, Commit(c) PROVE policy'[i] = policy[i]
    <2>1. ~policy[clerk[c].id].stored
      BY <1>2 DEF FeesInv, IdInv, Commit
    <2>2. i # clerk[c].id
      BY <2>1
    <2> QED BY <1>2, <2>2 DEF FeesInv, FeesTypeOK, Commit
  <1>3. ASSUME NEW c \in Clerks, CommitCancel(c)
        PROVE  \/ policy'[i] = policy[i]
               \/ /\ clerk[c].id = i /\ Cancellable(c)
                  /\ policy'[i] = [policy[i] EXCEPT !.cancelledBy = c]
    BY <1>3, CancelKeeps
  <1>4. UNCHANGED policy \/ \E c \in Clerks : Commit(c) \/ CommitCancel(c)
    BY DEF FeesNext, feeVars, ClerkStep, BeginSet, BeginSchedule, BeginInitial, AcquireInitial,
           Insert, Rollback, BeginCancel, LockPolicy, ReadClock, SelectPolicy, Tick
  <1> QED BY <1>1, <1>2, <1>3, <1>4

(* The table is append-only, and a cancellation is final. *)
THEOREM HistoryIsAppendOnly == FeesSpec => HistoryStands
  <1>1. FeesInv /\ [FeesNext]_feeVars =>
          [\A i \in Ids : policy[i].stored =>
             \/ policy'[i] = policy[i]
             \/ /\ policy[i].cancelledBy = NoClerk
                /\ \E c \in Clerks : policy'[i] = [policy[i] EXCEPT !.cancelledBy = c]]_feeVars
    BY RowStep DEF Cancellable, Uncancelled
  <1> QED BY <1>1, FeesInvariant, PTL DEF FeesSpec, HistoryStands

BestTaken == \A i \in Eligible(clock) : InForce(i) \/ SupersededBy(i)

(* A policy that could be selected is, or one that outranks it. *)
LEMMA BestInForce ==
    FeesTypeOK => /\ BestTaken
                  /\ \A i \in Ids : InForce(i) => i \in Eligible(clock)
  <1> SUFFICES ASSUME FeesTypeOK
               PROVE  /\ BestTaken
                      /\ \A i \in Ids : InForce(i) => i \in Eligible(clock)
    OBVIOUS
  <1>1. clock \in Times /\ \A i \in Ids : i # NoPolicy
    BY CommandTypes DEF FeesTypeOK, NoPolicy
  <1>2. Eligible(clock) \subseteq Ids
    BY DEF Eligible
  <1> QED BY <1>1, <1>2, SelectedBest DEF BestTaken, InForce, SupersededBy

(* An old rate comes back only through a cancel that raced the clock. *)
THEOREM OldRatesStayGone == FeesSpec => FallbackIsARace
  <1> DEFINE Race(i) == \E c \in Clerks : /\ CommitCancel(c)
                                          /\ clerk[c].id = i
                                          /\ clerk[c].time < policy[i].effectiveAt
                                          /\ policy[i].effectiveAt <= clock
  <1>1. FeesInv' => BestTaken'
    <2>1. FeesInv => BestTaken
      BY BestInForce DEF FeesInv
    <2> QED BY <2>1, PTL
  <1>2. ASSUME FeesInv, FeesInv', [FeesNext]_feeVars, NEW i \in Ids,
               InForce(i), ~InForce(i)', ~SupersededBy(i)'
        PROVE  Race(i)
    <2>1. i \in Eligible(clock) /\ i \notin Eligible(clock)'
      BY <1>1, <1>2, BestInForce DEF FeesInv, BestTaken
    <2>2. policy[i].stored /\ policy[i].cancelledBy = NoClerk /\ policy[i].effectiveAt <= clock
      BY <2>1 DEF Eligible, Uncancelled
    <2>3. clock \in Nat /\ clock' \in Nat /\ clock <= clock' /\ policy[i].effectiveAt \in Nat
      <3>1. clock \in Nat /\ policy[i].effectiveAt \in Nat
        BY <1>2, CommandTypes DEF FeesInv, Row
      <3>2. UNCHANGED clock \/ clock' = clock + 1
        BY <1>2 DEF FeesNext, feeVars, ClerkStep, BeginSet, BeginSchedule, BeginInitial,
                    AcquireInitial, Insert, Commit, Rollback, BeginCancel, LockPolicy,
                    CommitCancel, ReadClock, SelectPolicy, Tick
      <3> QED BY <3>1, <3>2
    <2>4. policy'[i] # policy[i]
      BY <2>1, <2>2, <2>3 DEF Eligible, Uncancelled
    <2>5. PICK c \in Clerks : CommitCancel(c) /\ clerk[c].id = i /\ Cancellable(c)
      BY <1>2, <2>2, <2>4, RowStep
    <2>6. clerk[c].time < policy[i].effectiveAt
      BY <1>2, <2>3, <2>5, CommandTypes DEF Cancellable, FeesInv, Command
    <2> QED BY <2>2, <2>5, <2>6
  <1>3. FeesInv /\ FeesInv' /\ [FeesNext]_feeVars =>
          [\A i \in Ids : InForce(i) /\ ~InForce(i)' /\ ~SupersededBy(i)' => Race(i)]_feeVars
    BY <1>2
  <1> QED BY <1>3, FeesInvariant, PTL DEF FeesSpec, FallbackIsARace

-----------------------------------------------------------------------------
(* The fee formula. *)

LEMMA Product ==
    ASSUME NEW a \in Nat, NEW r \in 0..10000
    PROVE  a * r \in Nat /\ a * r <= 10000 * a
OBVIOUS

(* calculate_fee rounds half up: no other whole amount is nearer to the    *)
(* exact fee, and of two equally near ones it takes the higher.  The fee   *)
(* never exceeds the amount, and the payable amount is never less.         *)
THEOREM FeeIsNearest ==
    ASSUME NEW amount \in Nat, NEW rate \in 0..10000
    PROVE  LET fee == FeeAmount(amount, rate) IN
           /\ fee \in 0..amount
           /\ 10000 * fee - amount * rate <= 5000
           /\ amount * rate - 10000 * fee < 5000
           /\ Payable(amount, rate) \in amount..(2 * amount)
  <1> DEFINE x == amount * rate
             fee == FeeAmount(amount, rate)
  <1>1. x \in Nat /\ x <= 10000 * amount
    BY Product
  <1>2. fee = (x + 5000) \div 10000
    BY DEF FeeAmount
  <1> HIDE DEF x
  <1>3. fee \in Nat /\ 10000 * fee <= x + 5000 /\ x + 5000 < 10000 * fee + 10000
    BY <1>1, <1>2
  <1> HIDE DEF fee
  <1>4. fee <= amount
    BY <1>1, <1>3
  <1> QED BY <1>1, <1>3, <1>4 DEF x, fee, Payable

=============================================================================
