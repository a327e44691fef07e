-------------------------- MODULE AdmissionProofs --------------------------
(***************************************************************************)
(* Proofs about admission, for any number of requests, addresses, limits,  *)
(* windows and delays: the budgets of the rate limiters, and the isolation *)
(* of payer identities behind them.                                        *)
(***************************************************************************)
EXTENDS Admission, FiniteSetTheorems, SequenceTheorems, WellFoundedInduction, TLAPS

-----------------------------------------------------------------------------
(* Payer identities. *)

(* The two UNIQUE constraints of the table. *)
MappingUnique == \A r, s \in mapping : r.key = s.key \/ r.id = s.id => r = s

(* No row hands out the shared id, or a number that is not the user's. *)
MappingSound ==
    \A r \in mapping : /\ r.id # Reserved
                       /\ r.key \in TelegramUsers => r.id = TelegramId[r.key]

(* Rows are never changed, so what was handed out is still stored. *)
ResolvedStored == \A a \in resolved : \E r \in mapping : r.key = a.key /\ r.id = a.id

(* A request that met a conflict was trying one of its candidates. *)
RecheckBounded ==
    \A h \in Requests : request[h].pc = "recheck" => request[h].attempt < MaxDerivations

IdentityInv ==
    IdentityTypeOK /\ MappingUnique /\ MappingSound /\ ResolvedStored /\ RecheckBounded

LEMMA NoRequestType == NoRequest \in RequestType /\ NoRequest.pc = "idle"
BY IdentityAssumption DEF NoRequest, RequestType

LEMMA InitIdentity == IdentityInit => IdentityInv
BY NoRequestType, HistoricalAssumption
   DEF IdentityInit, IdentityInv, IdentityTypeOK, MappingUnique, MappingSound,
       ResolvedStored, RecheckBounded, IdentityKeys

(* Returning a stored row of the request's key keeps the invariant. *)
LEMMA ReturnKeeps ==
    ASSUME IdentityInv, NEW h \in Requests, request[h].key \in IdentityKeys,
           NEW r \in mapping, r.key = request[h].key,
           Return(h, r), UNCHANGED mapping
    PROVE  IdentityInv'
<1>1. RecheckBounded'
  BY NoRequestType DEF IdentityInv, IdentityTypeOK, RecheckBounded, Return
<1>2. IdentityTypeOK'
  BY NoRequestType DEF IdentityInv, IdentityTypeOK, Return
<1>3. ResolvedStored'
  BY DEF IdentityInv, ResolvedStored, Return
<1> QED
  BY <1>1, <1>2, <1>3 DEF IdentityInv, MappingUnique, MappingSound

(* So does a step that only moves a request along. *)
LEMMA MoveKeeps ==
    ASSUME IdentityInv, NEW h \in Requests, NEW c \in RequestType,
           c.pc # "idle" => c.key \in IdentityKeys,
           c.pc = "recheck" => c.attempt < MaxDerivations,
           request' = [request EXCEPT ![h] = c],
           UNCHANGED <<mapping, resolved>>
    PROVE  IdentityInv'
<1>1. IdentityTypeOK' /\ RecheckBounded'
  BY DEF IdentityInv, IdentityTypeOK, RecheckBounded
<1> QED
  BY <1>1 DEF IdentityInv, MappingUnique, MappingSound, ResolvedStored

LEMMA FailKeeps ==
    ASSUME IdentityInv, NEW h \in Requests, Fail(h)
    PROVE  IdentityInv'
BY MoveKeeps, NoRequestType DEF Fail

(* A candidate is a number, and for a Telegram user his own. *)
LEMMA CandidateNat ==
    ASSUME NEW c \in RequestType, c.key \in IdentityKeys, c.attempt < MaxDerivations
    PROVE  /\ Candidate(c) \in Nat
           /\ c.key \in TelegramUsers => Candidate(c) = TelegramId[c.key]
<1>1. c.attempt \in 0..(MaxDerivations - 1)
  BY IdentityAssumption DEF RequestType
<1> QED
  BY <1>1, IdentityAssumption DEF Candidate, IdentityKeys

LEMMA InsertKeeps ==
    ASSUME IdentityInv, NEW h \in Requests, Insert(h)
    PROVE  IdentityInv'
<1> DEFINE c == request[h]
           row == [key |-> c.key, id |-> Candidate(c)]
<1>1. c \in RequestType /\ c.key \in IdentityKeys /\ c.attempt < MaxDerivations
  BY DEF IdentityInv, IdentityTypeOK, Insert
<1>2. /\ Candidate(c) \in Nat
      /\ c.key \in TelegramUsers => Candidate(c) = TelegramId[c.key]
  BY <1>1, CandidateNat
<1>3. mapping' = mapping \cup {row} /\ Return(h, row)
  BY DEF Insert
<1>4. \A r \in mapping : r.key # row.key /\ r.id # row.id
  BY DEF Insert, Conflicts
<1>5. MappingUnique'
  BY <1>3, <1>4 DEF IdentityInv, MappingUnique
<1>6. MappingSound'
  BY <1>2, <1>3 DEF IdentityInv, MappingSound, Insert
<1>7. ResolvedStored'
  BY <1>3 DEF IdentityInv, ResolvedStored, Return
<1>8. RecheckBounded'
  BY <1>3, NoRequestType DEF IdentityInv, IdentityTypeOK, RecheckBounded, Return
<1>9. IdentityTypeOK'
  BY <1>1, <1>2, <1>3, NoRequestType DEF IdentityInv, IdentityTypeOK, Return
<1> QED
  BY <1>5, <1>6, <1>7, <1>8, <1>9 DEF IdentityInv

LEMMA NextIdentity == IdentityInv /\ [IdentityNext]_identityVars => IdentityInv'
<1> SUFFICES ASSUME IdentityInv, [IdentityNext]_identityVars PROVE IdentityInv'
  OBVIOUS
<1>0. \A h \in Requests : /\ request[h] \in RequestType
                          /\ request[h].pc # "idle" => request[h].key \in IdentityKeys
  BY DEF IdentityInv, IdentityTypeOK
<1>1. ASSUME NEW h \in Requests, NEW key \in IdentityKeys, Start(h, key)
      PROVE  IdentityInv'
  <2> DEFINE c == [pc |-> "lookup", key |-> key, attempt |-> 0]
  <2>1. c \in RequestType /\ c.key \in IdentityKeys /\ c.pc # "recheck"
    BY IdentityAssumption DEF RequestType
  <2> QED
    BY <1>1, <2>1, MoveKeeps DEF Start
<1>2. ASSUME NEW h \in Requests, LookupFinds(h) PROVE IdentityInv'
  BY <1>0, <1>2, ReturnKeeps DEF LookupFinds, RowsOf
<1>3. ASSUME NEW h \in Requests, LookupMisses(h) PROVE IdentityInv'
  <2> DEFINE c == [request[h] EXCEPT !.pc = "insert"]
  <2>1. c \in RequestType /\ c.key \in IdentityKeys /\ c.pc # "recheck"
    BY <1>0, <1>3 DEF LookupMisses, RequestType
  <2>2. request' = [request EXCEPT ![h] = c]
    BY <1>3 DEF LookupMisses
  <2> QED
    BY <1>3, <2>1, <2>2, MoveKeeps DEF LookupMisses
<1>4. ASSUME NEW h \in Requests, MeetReserved(h) PROVE IdentityInv'
  <2>1. CASE request[h].key \in TelegramUsers
    BY <1>4, <2>1, FailKeeps DEF MeetReserved, Fail
  <2>2. CASE request[h].key \notin TelegramUsers
    <3> DEFINE c == [request[h] EXCEPT !.attempt = @ + 1]
    <3>1. request[h].attempt + 1 \in 0..MaxDerivations
      BY <1>0, <1>4, IdentityAssumption DEF MeetReserved, RequestType
    <3>2. c \in RequestType /\ c.key \in IdentityKeys /\ c.pc # "recheck"
      BY <1>0, <1>4, <3>1 DEF MeetReserved, RequestType
    <3> QED
      BY <1>4, <2>2, <3>2, MoveKeeps DEF MeetReserved
  <2> QED
    BY <2>1, <2>2
<1>5. ASSUME NEW h \in Requests, InsertConflicts(h) PROVE IdentityInv'
  <2> DEFINE c == [request[h] EXCEPT !.pc = "recheck"]
  <2>1. c \in RequestType /\ c.key \in IdentityKeys /\ c.attempt < MaxDerivations
    BY <1>0, <1>5 DEF InsertConflicts, RequestType
  <2>2. request' = [request EXCEPT ![h] = c]
    BY <1>5 DEF InsertConflicts
  <2> QED
    BY <1>5, <2>1, <2>2, MoveKeeps DEF InsertConflicts
<1>6. ASSUME NEW h \in Requests, RecheckFinds(h) PROVE IdentityInv'
  BY <1>0, <1>6, ReturnKeeps DEF RecheckFinds, Concurrent, Conflicts
<1>7. ASSUME NEW h \in Requests, RecheckMisses(h) PROVE IdentityInv'
  <2>1. CASE Fail(h)
    BY <2>1, FailKeeps
  <2>2. CASE ~Fail(h)
    <3> DEFINE c == [request[h] EXCEPT !.pc = "insert", !.attempt = @ + 1]
    <3>1. /\ request' = [request EXCEPT ![h] = c]
          /\ UNCHANGED <<mapping, resolved>>
      BY <1>7, <2>2 DEF RecheckMisses
    <3>2. request[h].attempt + 1 \in 0..MaxDerivations
      BY <1>0, <1>7, IdentityAssumption
         DEF RecheckMisses, RequestType, IdentityInv, RecheckBounded
    <3>3. c \in RequestType /\ c.key \in IdentityKeys /\ c.pc # "recheck"
      BY <1>0, <1>7, <3>2 DEF RecheckMisses, RequestType
    <3> QED
      BY <3>1, <3>3, MoveKeeps
  <2> QED
    BY <2>1, <2>2
<1>8. CASE UNCHANGED identityVars
  BY <1>8 DEF identityVars, IdentityInv, IdentityTypeOK, MappingUnique, MappingSound,
              ResolvedStored, RecheckBounded
<1> QED
  BY <1>1, <1>2, <1>3, <1>4, <1>5, <1>6, <1>7, <1>8, InsertKeeps, FailKeeps
     DEF IdentityNext, ResolveStep, GiveUp

(* The table's constraints keep payers apart, whatever rows it holds. *)
LEMMA StoredIsolated == IdentityInv => PayersIsolated
BY DEF IdentityInv, MappingUnique, MappingSound, ResolvedStored, PayersIsolated

(* No interleaving of resolve_payer_identity calls gives two payers one    *)
(* gateway userId or one payer two, hands out the shared id, or lends a    *)
(* Telegram user's number.                                                 *)
THEOREM PayersAlwaysIsolated == IdentitySpec => []PayersIsolated
BY InitIdentity, NextIdentity, StoredIsolated, PTL DEF IdentitySpec

-----------------------------------------------------------------------------
(* Rate limiters. *)

(* A nonempty set of naturals has a least element. *)
LEMMA LeastNatural ==
    ASSUME NEW S \in SUBSET Nat, S # {}
    PROVE  \E n \in S : \A m \in S : n <= m
  <1> DEFINE less == OpToRel(<, Nat)
  <1>1. PICK n \in S : \A m \in S : <<m, n>> \notin less
    BY NatLessThanWellFounded, WFMin
  <1>2. \A m, k \in Nat : m < k => <<m, k>> \in less
    BY Zenon DEF OpToRel
  <1> HIDE DEF less
  <1>3. \A m \in S : m \in Nat /\ n \in Nat /\ ~(m < n)
    BY <1>1, <1>2
  <1> QED BY <1>3

LEMMA MinLemma ==
    ASSUME NEW m \in Nat, NEW n \in Nat
    PROVE  Min({m, n}) = IF m <= n THEN m ELSE n
  <1> DEFINE x == IF m <= n THEN m ELSE n
  <1>1. x \in {m, n} /\ \A y \in {m, n} : x <= y
    OBVIOUS
  <1>2. \A z \in {m, n} : (\A y \in {m, n} : z <= y) => z = x
    OBVIOUS
  <1> HIDE DEF x
  <1>3. Min({m, n}) = x
    BY <1>1, <1>2 DEF Min
  <1> QED BY <1>3 DEF x

LEMMA AgeFacts ==
    /\ Window \in Nat /\ MaxDelay \in Nat /\ Oldest \in Nat
    /\ Oldest = Window + MaxDelay + 1
    /\ Ages = 0..Oldest
    /\ Recent = 0..Window
    /\ Recent \subseteq Ages
  BY LimiterAssumption DEF Oldest, Ages, Recent

-----------------------------------------------------------------------------
(* Windows. *)

(* Pruning drops a prefix of expired events. *)
LEMMA PruneLemma ==
    ASSUME NEW events \in Seq(Ages), NEW read \in Nat
    PROVE  \E k \in 0..Len(events) :
              /\ Prune(events, read) \in Seq(Ages)
              /\ Len(Prune(events, read)) = Len(events) - k
              /\ \A j \in 1..(Len(events) - k) : Prune(events, read)[j] = events[j + k]
              /\ \A i \in 1..k : Expired(events[i], read)
  <1> DEFINE live == {i \in 1..Len(events) : ~Expired(events[i], read)}
             P(k) == /\ Prune(events, read) \in Seq(Ages)
                     /\ Len(Prune(events, read)) = Len(events) - k
                     /\ \A j \in 1..(Len(events) - k) : Prune(events, read)[j] = events[j + k]
                     /\ \A i \in 1..k : Expired(events[i], read)
  <1>0. Len(events) \in Nat
    OBVIOUS
  <1>1. CASE live = {}
    <2>1. Prune(events, read) = <<>>
      BY <1>1 DEF Prune
    <2>2. \A i \in 1..Len(events) : Expired(events[i], read)
      BY <1>1
    <2> HIDE DEF live
    <2>3. P(Len(events))
      BY <1>0, <2>1, <2>2
    <2> QED BY <1>0, <2>3
  <1>2. CASE live # {}
    <2> DEFINE first == CHOOSE i \in live : \A j \in live : i <= j
    <2>1. live \in SUBSET Nat
      OBVIOUS
    <2>2. first \in live /\ \A j \in live : first <= j
      BY <1>2, <2>1, LeastNatural
    <2>3. Prune(events, read) = SubSeq(events, first, Len(events))
      BY <1>2 DEF Prune
    <2>4. first \in 1..Len(events)
      BY <2>2
    <2>5. \A i \in 1..(first - 1) : Expired(events[i], read)
      BY <2>2, <2>4
    <2> HIDE DEF first, live
    <2>6. first - 1 \in 0..Len(events)
      BY <2>4
    <2>7. /\ SubSeq(events, first, Len(events)) \in Seq(Ages)
          /\ Len(SubSeq(events, first, Len(events))) = Len(events) - (first - 1)
          /\ \A j \in 1..(Len(events) - (first - 1)) :
                SubSeq(events, first, Len(events))[j] = events[j + (first - 1)]
      BY <2>4
    <2>8. P(first - 1)
      BY <2>3, <2>5, <2>7
    <2> QED BY <2>6, <2>8
  <1> QED BY <1>1, <1>2

LEMMA OlderLemma ==
    ASSUME NEW age \in Ages
    PROVE  /\ Older(age) \in Ages
           /\ age <= Window + MaxDelay => Older(age) = age + 1
  BY AgeFacts DEF Older

(* A tick ages the events; what leaves was out of every window. *)
LEMMA OlderSeqLemma ==
    ASSUME NEW events \in Seq(Ages)
    PROVE  \E k \in 0..Len(events) :
              /\ OlderSeq(events) \in Seq(Ages)
              /\ Len(OlderSeq(events)) = Len(events) - k
              /\ \A j \in 1..(Len(events) - k) : OlderSeq(events)[j] = Older(events[j + k])
              /\ \A i \in 1..k : Older(events[i]) > Window
  <1> DEFINE aged == [i \in 1..Len(events) |-> Older(events[i])]
  <1>1. \A i \in 1..Len(events) : events[i] \in Ages /\ Older(events[i]) \in Ages
    BY OlderLemma
  <1>2. aged \in Seq(Ages) /\ Len(aged) = Len(events)
    BY <1>1
  <1>3. OlderSeq(events) = Prune(aged, MaxDelay)
    BY DEF OlderSeq
  <1>4. \A i \in 1..Len(events) : aged[i] = Older(events[i])
    OBVIOUS
  <1> HIDE DEF aged
  <1>5. PICK k \in 0..Len(aged) :
              /\ Prune(aged, MaxDelay) \in Seq(Ages)
              /\ Len(Prune(aged, MaxDelay)) = Len(aged) - k
              /\ \A j \in 1..(Len(aged) - k) : Prune(aged, MaxDelay)[j] = aged[j + k]
              /\ \A i \in 1..k : Expired(aged[i], MaxDelay)
    BY <1>2, AgeFacts, PruneLemma
  <1>6. \A j \in 1..(Len(events) - k) : OlderSeq(events)[j] = Older(events[j + k])
    BY <1>2, <1>3, <1>4, <1>5
  <1>7. \A i \in 1..k : Older(events[i]) > Window
    <2> SUFFICES ASSUME NEW i \in 1..k PROVE Older(events[i]) > Window
      OBVIOUS
    <2>1. i \in 1..Len(events)
      BY <1>2, <1>5
    <2>2. aged[i] = Older(events[i]) /\ Older(events[i]) \in Nat
      BY <1>1, <1>4, <2>1, AgeFacts
    <2>3. aged[i] > Window + MaxDelay
      BY <1>5 DEF Expired
    <2> QED BY <2>2, <2>3, AgeFacts
  <1> QED BY <1>2, <1>3, <1>5, <1>6, <1>7

-----------------------------------------------------------------------------
(* Tickets and events. *)

(* The events of a window account for a set of tickets: each has an event  *)
(* of its own, of its age.                                                 *)
Accounts(events, tickets) ==
    \E F \in [tickets -> 1..Len(events)] :
        /\ \A t \in tickets : events[F[t]] = t[1]
        /\ \A t, u \in tickets : F[t] = F[u] => t = u

Numbered == Recent \X Nat

LEMMA TicketsNumbered ==
    ASSUME NEW log, NEW limit \in Nat
    PROVE  Tickets(log, limit) \in SUBSET Numbered
  BY DEF Tickets, Numbered

LEMMA AccountsSubset ==
    ASSUME NEW events, NEW T, NEW U \in SUBSET T, Accounts(events, T)
    PROVE  Accounts(events, U)
  <1>1. PICK F \in [T -> 1..Len(events)] :
           /\ \A t \in T : events[F[t]] = t[1]
           /\ \A t, u \in T : F[t] = F[u] => t = u
    BY DEF Accounts
  <1> DEFINE G == [t \in U |-> F[t]]
  <1>2. G \in [U -> 1..Len(events)]
    BY <1>1
  <1>3. \A t \in U : G[t] = F[t] /\ t \in T
    OBVIOUS
  <1> HIDE DEF G
  <1> QED BY <1>1, <1>2, <1>3 DEF Accounts

(* No more tickets than events. *)
LEMMA AccountsBound ==
    ASSUME NEW events \in Seq(Ages), NEW T, Accounts(events, T)
    PROVE  IsFiniteSet(T) /\ Cardinality(T) \in Nat /\ Cardinality(T) <= Len(events)
  <1>1. PICK F \in [T -> 1..Len(events)] : \A t, u \in T : F[t] = F[u] => t = u
    BY DEF Accounts
  <1>2. F \in Injection(T, 1..Len(events))
    BY <1>1 DEF Injection, IsInjective
  <1>3. IsFiniteSet(1..Len(events)) /\ Cardinality(1..Len(events)) = Len(events)
    <2> DEFINE n == Len(events)
    <2>1. n \in Nat
      OBVIOUS
    <2> HIDE DEF n
    <2>2. IsFiniteSet(1..n) /\ Cardinality(1..n) = n
      BY <2>1, FS_Interval
    <2> QED BY <2>2 DEF n
  <1>4. IsFiniteSet(T) /\ Cardinality(T) <= Cardinality(1..Len(events))
    BY <1>2, <1>3, FS_Injection DEF ExistsInjection
  <1> QED BY <1>3, <1>4, FS_CardinalityType

(* Tickets are recent, so their events do not expire for any reading. *)
LEMMA AccountsPrune ==
    ASSUME NEW events \in Seq(Ages), NEW read \in Nat, NEW T \in SUBSET Numbered,
           Accounts(events, T)
    PROVE  Accounts(Prune(events, read), T)
  <1>1. PICK F \in [T -> 1..Len(events)] :
           /\ \A t \in T : events[F[t]] = t[1]
           /\ \A t, u \in T : F[t] = F[u] => t = u
    BY DEF Accounts
  <1>2. PICK k \in 0..Len(events) :
           /\ Len(Prune(events, read)) = Len(events) - k
           /\ \A j \in 1..(Len(events) - k) : Prune(events, read)[j] = events[j + k]
           /\ \A i \in 1..k : Expired(events[i], read)
    BY PruneLemma
  <1>3. \A t \in T : F[t] \in 1..Len(events) /\ ~(F[t] \in 1..k)
    <2> SUFFICES ASSUME NEW t \in T, F[t] \in 1..k PROVE FALSE
      BY <1>1
    <2>1. t[1] \in 0..Window
      BY AgeFacts DEF Numbered
    <2>2. t[1] > Window + read
      BY <1>1, <1>2 DEF Expired
    <2> QED BY <2>1, <2>2, AgeFacts
  <1> DEFINE G == [t \in T |-> F[t] - k]
  <1>4. \A t \in T : /\ F[t] - k \in 1..(Len(events) - k)
                     /\ (F[t] - k) + k = F[t]
    BY <1>2, <1>3
  <1>5. G \in [T -> 1..Len(Prune(events, read))]
    BY <1>2, <1>4
  <1>6. \A t \in T : G[t] = F[t] - k
    OBVIOUS
  <1> HIDE DEF G
  <1>7. \A t \in T : Prune(events, read)[G[t]] = t[1]
    BY <1>1, <1>2, <1>4, <1>6
  <1>8. \A t, u \in T : G[t] = G[u] => t = u
    BY <1>1, <1>4, <1>6
  <1> QED BY <1>5, <1>7, <1>8 DEF Accounts

(* A new event accounts for one ticket more. *)
LEMMA AccountsAppend ==
    ASSUME NEW events \in Seq(Ages), NEW T, NEW x, x[1] \in Ages, Accounts(events, T)
    PROVE  Accounts(Append(events, x[1]), T \cup {x})
  <1>1. PICK F \in [T -> 1..Len(events)] :
           /\ \A t \in T : events[F[t]] = t[1]
           /\ \A t, u \in T : F[t] = F[u] => t = u
    BY DEF Accounts
  <1> DEFINE more == Append(events, x[1])
             G == [t \in T \cup {x} |-> IF t \in T THEN F[t] ELSE Len(events) + 1]
  <1>2. /\ Len(more) = Len(events) + 1
        /\ more[Len(events) + 1] = x[1]
        /\ \A i \in 1..Len(events) : more[i] = events[i]
    OBVIOUS
  <1>3. \A t \in T : F[t] \in 1..Len(events) /\ F[t] \in 1..(Len(events) + 1) /\ F[t] # Len(events) + 1
    BY <1>1
  <1>4. G \in [T \cup {x} -> 1..(Len(events) + 1)]
    BY <1>3
  <1>5. \A t \in T \cup {x} : G[t] = IF t \in T THEN F[t] ELSE Len(events) + 1
    OBVIOUS
  <1> HIDE DEF G, more
  <1>6. \A t \in T \cup {x} : more[G[t]] = t[1]
    BY <1>1, <1>2, <1>3, <1>5
  <1>7. \A t, u \in T \cup {x} : G[t] = G[u] => t = u
    BY <1>1, <1>3, <1>5
  <1> QED BY <1>2, <1>4, <1>6, <1>7 DEF Accounts, more

(* A tick ages tickets and events alike. *)
LEMMA AccountsOlder ==
    ASSUME NEW events \in Seq(Ages), NEW T \in SUBSET Numbered, Accounts(events, T),
           NEW U \in SUBSET Numbered,
           \A u \in U : u[1] # 0 /\ <<u[1] - 1, u[2]>> \in T
    PROVE  Accounts(OlderSeq(events), U)
  <1>1. PICK F \in [T -> 1..Len(events)] :
           /\ \A t \in T : events[F[t]] = t[1]
           /\ \A t, u \in T : F[t] = F[u] => t = u
    BY DEF Accounts
  <1>2. PICK k \in 0..Len(events) :
           /\ Len(OlderSeq(events)) = Len(events) - k
           /\ \A j \in 1..(Len(events) - k) : OlderSeq(events)[j] = Older(events[j + k])
           /\ \A i \in 1..k : Older(events[i]) > Window
    BY OlderSeqLemma
  <1> DEFINE Before(u) == <<u[1] - 1, u[2]>>
  <1>3. \A u \in U : /\ u = <<u[1], u[2]>>
                     /\ u[1] \in 1..Window
                     /\ Before(u) \in T
                     /\ Before(u)[1] = u[1] - 1
                     /\ Before(u)[2] = u[2]
    <2> SUFFICES ASSUME NEW u \in U
                 PROVE  u = <<u[1], u[2]>> /\ u[1] \in 1..Window /\ Before(u) \in T
      OBVIOUS
    <2>1. u \in (0..Window) \X Nat
      BY AgeFacts DEF Numbered
    <2>2. u[1] # 0 /\ Before(u) \in T
      OBVIOUS
    <2>3. u[1] \in 0..Window /\ u = <<u[1], u[2]>>
      BY <2>1
    <2> HIDE DEF Before
    <2> QED BY <2>2, <2>3, AgeFacts
  <1>4. \A u, v \in U : Before(u) = Before(v) => u = v
    <2> SUFFICES ASSUME NEW u \in U, NEW v \in U, Before(u) = Before(v) PROVE u = v
      OBVIOUS
    <2>1. u[1] - 1 = v[1] - 1 /\ u[2] = v[2]
      BY <1>3
    <2>2. u[1] = v[1]
      <3>1. u[1] \in Int /\ v[1] \in Int
        <4>1. u[1] \in 1..Window /\ v[1] \in 1..Window
          BY <1>3
        <4> QED BY <4>1
      <3> QED BY <2>1, <3>1
    <2> QED BY <1>3, <2>1, <2>2
  <1> HIDE DEF Before
  <1>5. \A u \in U : /\ F[Before(u)] \in 1..Len(events)
                     /\ Older(events[F[Before(u)]]) = u[1]
    <2> SUFFICES ASSUME NEW u \in U
                 PROVE  /\ F[Before(u)] \in 1..Len(events)
                        /\ Older(events[F[Before(u)]]) = u[1]
      OBVIOUS
    <2>1. F[Before(u)] \in 1..Len(events) /\ events[F[Before(u)]] = u[1] - 1
      BY <1>1, <1>3
    <2>2. u[1] - 1 \in Ages /\ u[1] - 1 <= Window + MaxDelay /\ (u[1] - 1) + 1 = u[1]
      BY <1>3, AgeFacts
    <2> QED BY <2>1, <2>2, OlderLemma
  <1>6. \A u \in U : ~(F[Before(u)] \in 1..k)
    <2> SUFFICES ASSUME NEW u \in U, F[Before(u)] \in 1..k PROVE FALSE
      OBVIOUS
    <2>1. u[1] > Window
      BY <1>2, <1>5
    <2> QED BY <1>3, <2>1, AgeFacts
  <1> DEFINE G == [u \in U |-> F[Before(u)] - k]
  <1>7. \A u \in U : /\ F[Before(u)] - k \in 1..(Len(events) - k)
                     /\ (F[Before(u)] - k) + k = F[Before(u)]
    BY <1>2, <1>5, <1>6
  <1>8. G \in [U -> 1..Len(OlderSeq(events))]
    BY <1>2, <1>7
  <1>9. \A u \in U : G[u] = F[Before(u)] - k
    OBVIOUS
  <1> HIDE DEF G
  <1>10. \A u \in U : OlderSeq(events)[G[u]] = u[1]
    BY <1>2, <1>5, <1>7, <1>9
  <1>11. \A u, v \in U : G[u] = G[v] => u = v
    BY <1>1, <1>3, <1>4, <1>7, <1>9
  <1> QED BY <1>8, <1>10, <1>11 DEF Accounts

(* Letting a request through adds at most its own ticket. *)
LEMMA LogLemma ==
    ASSUME NEW log \in [Ages -> Nat], NEW read \in Ages, NEW limit \in Nat
    PROVE  /\ Log(log, read, limit) \in [Ages -> Nat]
           /\ \A t \in Tickets(Log(log, read, limit), limit) :
                 t \in Tickets(log, limit) \/ t = <<read, log[read] + 1>>
  <1> DEFINE n == Min({log[read] + 1, limit + 1})
  <1>1. n \in Nat /\ n <= log[read] + 1
    BY MinLemma
  <1>2. Log(log, read, limit) = [log EXCEPT ![read] = n]
    BY DEF Log
  <1> HIDE DEF n
  <1>3. \A a \in Ages : Log(log, read, limit)[a] = IF a = read THEN n ELSE log[a]
    BY <1>2
  <1>4. ASSUME NEW t \in Tickets(Log(log, read, limit), limit), t \notin Tickets(log, limit)
        PROVE  t = <<read, log[read] + 1>>
    <2>1. /\ t = <<t[1], t[2]>>
          /\ t[1] \in Ages
          /\ t[2] \in Nat
          /\ t[2] <= Log(log, read, limit)[t[1]]
          /\ ~(t[2] <= log[t[1]])
      BY <1>4, AgeFacts DEF Tickets
    <2>2. t[1] = read
      BY <1>3, <2>1
    <2>3. t[2] = log[read] + 1
      BY <1>1, <1>3, <2>1, <2>2
    <2> QED BY <2>1, <2>2, <2>3
  <1>5. Log(log, read, limit) \in [Ages -> Nat]
    BY <1>1, <1>2
  <1> QED BY <1>4, <1>5

LEMMA OlderLogLemma ==
    ASSUME NEW log \in [Ages -> Nat], NEW limit \in Nat
    PROVE  /\ OlderLog(log) \in [Ages -> Nat]
           /\ \A t \in Tickets(OlderLog(log), limit) :
                 t[1] # 0 /\ <<t[1] - 1, t[2]>> \in Tickets(log, limit)
  <1>1. \A a \in Ages : a # 0 => a - 1 \in Ages
    BY AgeFacts
  <1>2. OlderLog(log) \in [Ages -> Nat]
    BY <1>1 DEF OlderLog
  <1>3. ASSUME NEW t \in Tickets(OlderLog(log), limit)
        PROVE  t[1] # 0 /\ <<t[1] - 1, t[2]>> \in Tickets(log, limit)
    <2>1. /\ t[1] \in Recent /\ t[1] \in Ages
          /\ t[2] \in 1..(limit + 1)
          /\ t[2] <= OlderLog(log)[t[1]]
      BY AgeFacts DEF Tickets
    <2>2. OlderLog(log)[t[1]] = IF t[1] = 0 \/ t[1] > Window THEN 0 ELSE log[t[1] - 1]
      BY <2>1 DEF OlderLog
    <2>3. t[1] # 0 /\ t[1] - 1 \in Recent /\ t[2] <= log[t[1] - 1]
      <3>1. t[1] \in 0..Window /\ Window \in Nat /\ t[2] \in Nat /\ t[2] # 0
        BY <2>1, AgeFacts
      <3>2. t[1] # 0 /\ t[2] <= log[t[1] - 1]
        BY <2>1, <2>2, <3>1
      <3>3. t[1] - 1 \in 0..Window
        BY <3>1, <3>2
      <3> QED BY <3>2, <3>3, AgeFacts
    <2>4. <<t[1] - 1, t[2]>> \in Recent \X (1..(limit + 1))
      BY <2>1, <2>3
    <2> QED BY <2>3, <2>4 DEF Tickets
  <1> QED BY <1>2, <1>3

-----------------------------------------------------------------------------
(* The store. *)

Entry == [source : Sources, bucket : BucketIds]

(* At most one image per element. *)
LEMMA ImageLemma ==
    ASSUME NEW S, IsFiniteSet(S), NEW f, f = [x \in S |-> f[x]],
           NEW T, T = {f[x] : x \in S}
    PROVE  /\ IsFiniteSet(T)
           /\ Cardinality(T) \in Nat
           /\ Cardinality(T) <= Cardinality(S)
  <1>1. f \in Surjection(S, T)
    BY DEF Surjection
  <1>2. IsFiniteSet(T) /\ Cardinality(T) <= Cardinality(S)
    BY <1>1, FS_Surjection
  <1> QED BY <1>2, FS_CardinalityType

LEMMA UptoLemma ==
    ASSUME NEW n \in Nat
    PROVE  IsFiniteSet(1..n) /\ Cardinality(1..n) = n
  BY FS_Interval

(* A sequence without its i-th element. *)
LEMMA RemoveLemma ==
    ASSUME NEW S, NEW q \in Seq(S), NEW i \in 1..Len(q)
    PROVE  LET r == SubSeq(q, 1, i - 1) \o SubSeq(q, i + 1, Len(q))
           IN  /\ r \in Seq(S)
               /\ Len(r) = Len(q) - 1
               /\ \A k \in 1..(Len(q) - 1) : r[k] = IF k < i THEN q[k] ELSE q[k + 1]
  <1> DEFINE a == SubSeq(q, 1, i - 1)
             b == SubSeq(q, i + 1, Len(q))
  <1>0. Len(q) \in Nat /\ i \in Nat /\ i >= 1 /\ i <= Len(q)
    OBVIOUS
  <1>1. /\ a \in Seq(S)
        /\ Len(a) = i - 1
        /\ \A k \in 1..(i - 1) : a[k] = q[k]
    BY <1>0
  <1>2. /\ b \in Seq(S)
        /\ Len(b) = Len(q) - i
        /\ \A k \in 1..(Len(q) - i) : b[k] = q[k + i]
    <2>1. b \in Seq(S) /\ Len(b) = Len(q) - i
      BY <1>0
    <2>2. \A k \in 1..(Len(q) - i) : b[k] = q[(i + 1) + k - 1]
      BY <1>0
    <2>3. \A k \in 1..(Len(q) - i) : (i + 1) + k - 1 = k + i
      BY <1>0
    <2> QED BY <2>1, <2>2, <2>3
  <1> HIDE DEF a, b
  <1>3. /\ a \o b \in Seq(S)
        /\ Len(a \o b) = Len(q) - 1
        /\ \A k \in 1..(i - 1) : (a \o b)[k] = a[k]
        /\ \A k \in 1..(Len(q) - i) : (a \o b)[(i - 1) + k] = b[k]
    <2>1. a \o b \in Seq(S) /\ Len(a \o b) = Len(a) + Len(b)
      BY <1>1, <1>2, ConcatProperties
    <2>2. \A k \in 1..Len(a) : (a \o b)[k] = a[k]
      BY <1>0, <1>1, <1>2
    <2>3. \A k \in 1..Len(b) : (a \o b)[Len(a) + k] = b[k]
      <3> SUFFICES ASSUME NEW k \in 1..Len(b) PROVE (a \o b)[Len(a) + k] = b[k]
        OBVIOUS
      <3>1. Len(a) \in Nat /\ Len(b) \in Nat
        BY <1>1, <1>2
      <3>2. /\ Len(a) + k \in 1..(Len(a) + Len(b))
            /\ ~(Len(a) + k <= Len(a))
            /\ Len(a) + k - Len(a) = k
        BY <3>1
      <3>3. \A m \in 1..(Len(a) + Len(b)) :
               (a \o b)[m] = IF m <= Len(a) THEN a[m] ELSE b[m - Len(a)]
        BY <1>1, <1>2, ConcatProperties
      <3> QED BY <3>2, <3>3
    <2> QED BY <1>0, <1>1, <1>2, <2>1, <2>2, <2>3
  <1>4. ASSUME NEW k \in 1..(Len(q) - 1), ~(k < i) PROVE (a \o b)[k] = q[k + 1]
    <2>1. k - (i - 1) \in 1..(Len(q) - i) /\ (i - 1) + (k - (i - 1)) = k
      BY <1>0, <1>4
    <2>2. (a \o b)[k] = b[k - (i - 1)]
      BY <1>3, <2>1
    <2>3. b[k - (i - 1)] = q[(k - (i - 1)) + i]
      BY <1>2, <2>1
    <2>4. (k - (i - 1)) + i = k + 1
      BY <1>0
    <2> QED BY <2>2, <2>3, <2>4
  <1>5. ASSUME NEW k \in 1..(Len(q) - 1), k < i PROVE (a \o b)[k] = q[k]
    BY <1>0, <1>1, <1>3, <1>5
  <1>6. \A k \in 1..(Len(q) - 1) : (a \o b)[k] = IF k < i THEN q[k] ELSE q[k + 1]
    BY <1>4, <1>5
  <1> QED BY <1>3, <1>6 DEF a, b

(* A thread that is looking a window up leaves one unused. *)
LEMMA UnusedLemma ==
    ASSUME LimiterTypeOK, NEW t \in Threads, gate[t].pc \notin Holding
    PROVE  Unused # {} /\ Fresh \in Unused /\ Unused \in SUBSET BucketIds
  <1> DEFINE kept == {store[i].bucket : i \in 1..Len(store)}
             busy == {u \in Threads : gate[u].pc \in Holding}
             held == {gate[u].bucket : u \in busy}
             total == Capacity + Cardinality(Threads)
  <1>1. Len(store) \in Nat /\ Len(store) <= Capacity /\ Capacity \in Nat
    BY LimiterAssumption DEF LimiterTypeOK
  <1>2. IsFiniteSet(kept) /\ Cardinality(kept) \in Nat /\ Cardinality(kept) <= Len(store)
    <2>1. IsFiniteSet(1..Len(store)) /\ Cardinality(1..Len(store)) = Len(store)
      BY <1>1, UptoLemma
    <2> DEFINE f == [i \in 1..Len(store) |-> store[i].bucket]
    <2>2. kept = {f[i] : i \in 1..Len(store)} /\ f = [i \in 1..Len(store) |-> f[i]]
      OBVIOUS
    <2> HIDE DEF f, kept
    <2>3. IsFiniteSet(kept) /\ Cardinality(kept) <= Cardinality(1..Len(store))
      BY <2>1, <2>2, ImageLemma
    <2> QED BY <2>1, <2>3, FS_CardinalityType
  <1>3. /\ IsFiniteSet(held) /\ Cardinality(held) \in Nat
        /\ Cardinality(held) < Cardinality(Threads)
        /\ Cardinality(Threads) \in Nat
    <2>1. IsFiniteSet(Threads) /\ Cardinality(Threads) \in Nat
      BY LimiterAssumption, FS_CardinalityType
    <2>2. /\ IsFiniteSet(Threads \ {t})
          /\ Cardinality(Threads \ {t}) = Cardinality(Threads) - 1
      BY <2>1, FS_RemoveElement
    <2>3. busy \subseteq Threads \ {t}
      OBVIOUS
    <2>4. IsFiniteSet(busy) /\ Cardinality(busy) <= Cardinality(Threads) - 1
      BY <2>2, <2>3, FS_Subset
    <2> DEFINE f == [u \in busy |-> gate[u].bucket]
    <2>5. held = {f[u] : u \in busy} /\ f = [u \in busy |-> f[u]]
      OBVIOUS
    <2> HIDE DEF f, busy, held
    <2>6. IsFiniteSet(held) /\ Cardinality(held) <= Cardinality(busy)
      BY <2>4, <2>5, ImageLemma
    <2>7. Cardinality(held) \in Nat /\ Cardinality(busy) \in Nat
      BY <2>4, <2>6, FS_CardinalityType
    <2> QED BY <2>1, <2>4, <2>6, <2>7
  <1>4. IsFiniteSet(BucketIds) /\ Cardinality(BucketIds) = total /\ total \in Nat
    <2>1. total \in Nat
      BY <1>1, <1>3
    <2> HIDE DEF total
    <2>2. IsFiniteSet(1..total) /\ Cardinality(1..total) = total
      BY <2>1, FS_Interval
    <2> QED BY <2>1, <2>2 DEF BucketIds, total
  <1>5. InUse(store, gate) = kept \cup held
    BY DEF InUse
  <1> HIDE DEF kept, held, busy
  <1>6. IsFiniteSet(kept \cup held) /\ Cardinality(kept \cup held) < total
    <2>1. /\ IsFiniteSet(kept \cup held)
          /\ Cardinality(kept \cup held) =
                Cardinality(kept) + Cardinality(held) - Cardinality(kept \cap held)
      BY <1>2, <1>3, FS_Union
    <2>2. Cardinality(kept \cap held) \in Nat
      BY <1>2, FS_Intersection, FS_CardinalityType
    <2> QED BY <1>1, <1>2, <1>3, <2>1, <2>2
  <1>7. Unused # {}
    <2>1. SUFFICES ASSUME Unused = {} PROVE FALSE
      OBVIOUS
    <2>2. BucketIds \subseteq kept \cup held
      BY <1>5, <2>1 DEF Unused
    <2>3. Cardinality(BucketIds) <= Cardinality(kept \cup held)
      BY <1>6, <2>2, FS_Subset
    <2>4. Cardinality(kept \cup held) \in Nat
      BY <1>6, FS_CardinalityType
    <2> HIDE DEF total
    <2> QED BY <1>4, <1>6, <2>3, <2>4
  <1>8. Unused \in SUBSET BucketIds /\ Unused \in SUBSET Nat
    BY DEF Unused, BucketIds
  <1> QED BY <1>7, <1>8, LeastNatural DEF Fresh

(* An address is stored once. *)
StoredOnce ==
    \A i, j \in 1..Len(store) : store[i].source = store[j].source => i = j

(* The window looked up is the stored one, or else an unused one. *)
LEMMA WindowLemma ==
    ASSUME LimiterTypeOK, StoredOnce, NEW s \in Sources,
           NEW t \in Threads, gate[t].pc \notin Holding
    PROVE  /\ WindowOf(s) \in BucketIds
           /\ \A i \in 1..Len(store) : store[i].source = s => WindowOf(s) = store[i].bucket
           /\ Stored(s) = {} => WindowOf(s) \in Unused
  <1>1. \A i \in 1..Len(store) : store[i] \in Entry
    <2>1. store \in Seq(Entry)
      BY DEF LimiterTypeOK, Entry
    <2> QED BY <2>1, ElementOfSeq
  <1>2. CASE Stored(s) = {}
    <2>1. WindowOf(s) = Fresh
      BY <1>2 DEF WindowOf, Reusable
    <2> QED BY <1>2, <2>1, UnusedLemma DEF Stored
  <1>3. CASE Stored(s) # {}
    <2>1. PICK i \in 1..Len(store) : store[i].source = s
      BY <1>3 DEF Stored
    <2>2. Stored(s) = {i}
      BY <2>1 DEF Stored, StoredOnce
    <2>3. Reusable(s) = {store[i].bucket}
      BY <2>2 DEF Reusable
    <2>4. WindowOf(s) = store[i].bucket
      <3>1. (CHOOSE b \in Reusable(s) : TRUE) \in Reusable(s)
        BY <2>3
      <3> QED BY <2>3, <3>1 DEF WindowOf
    <2>5. \A k \in 1..Len(store) : store[k].source = s => k = i
      BY <2>1 DEF StoredOnce
    <2> QED BY <1>1, <1>3, <2>1, <2>4, <2>5 DEF Entry
  <1> QED BY <1>2, <1>3

(* A lookup removes one position j, or none (j behind the last): that of   *)
(* the address itself, or the first one if the store is full; and appends  *)
(* the address.                                                            *)
Moved(s, j) ==
    LET n == Touched(s)
        from(k) == IF k < j THEN k ELSE k + 1
    IN  /\ n \in Seq(Entry)
        /\ Len(n) <= Capacity
        /\ Len(n) = IF j <= Len(store) THEN Len(store) ELSE Len(store) + 1
        /\ n[Len(n)] = [source |-> s, bucket |-> WindowOf(s)]
        /\ \A k \in 1..(Len(n) - 1) : from(k) \in 1..Len(store) /\ n[k] = store[from(k)]
        /\ \A k \in 1..Len(store) : store[k].source = s => k = j
        /\ j <= Len(store) => \/ store[j].source = s
                              \/ j = 1 /\ Len(store) = Capacity /\ Stored(s) = {}

LEMMA AppendLemma ==
    ASSUME NEW S, NEW q \in Seq(S), NEW e \in S
    PROVE  /\ Append(q, e) \in Seq(S)
           /\ Len(Append(q, e)) = Len(q) + 1
           /\ Append(q, e)[Len(q) + 1] = e
           /\ \A k \in 1..Len(q) : Append(q, e)[k] = q[k]
  OBVIOUS

LEMMA TouchedLemma ==
    ASSUME LimiterTypeOK, StoredOnce, NEW s \in Sources,
           NEW t \in Threads, gate[t].pc \notin Holding
    PROVE  \E j \in 1..(Len(store) + 1) : Moved(s, j)
  <1> DEFINE e == [source |-> s, bucket |-> WindowOf(s)]
  <1>0. /\ store \in Seq(Entry)
        /\ Len(store) \in Nat
        /\ Len(store) <= Capacity
        /\ Capacity \in Nat /\ Capacity # 0
    BY LimiterAssumption DEF LimiterTypeOK, Entry
  <1>1. e \in Entry
    BY WindowLemma DEF Entry
  <1>2. CASE Stored(s) = {} /\ Len(store) < Capacity
    <2>1. Touched(s) = Append(store, e)
      BY <1>0, <1>2 DEF Touched, Crowded, Others
    <2>2. \A k \in 1..Len(store) : store[k].source # s
      BY <1>2 DEF Stored
    <2> HIDE DEF e
    <2>3. /\ Touched(s) \in Seq(Entry)
          /\ Len(Touched(s)) = Len(store) + 1
          /\ Touched(s)[Len(store) + 1] = e
          /\ \A k \in 1..Len(store) : Touched(s)[k] = store[k]
      BY <1>0, <1>1, <2>1, AppendLemma
    <2>4. Moved(s, Len(store) + 1)
      BY <1>0, <1>2, <2>2, <2>3 DEF Moved, e
    <2> QED BY <1>0, <2>4
  <1>3. CASE Stored(s) = {} /\ ~(Len(store) < Capacity)
    <2> DEFINE rest == Tail(store)
    <2>1. Touched(s) = Append(rest, e)
      BY <1>0, <1>3 DEF Touched, Crowded
    <2>2. \A k \in 1..Len(store) : store[k].source # s
      BY <1>3 DEF Stored
    <2>3. /\ rest \in Seq(Entry)
          /\ Len(rest) = Len(store) - 1
          /\ \A k \in 1..(Len(store) - 1) : rest[k] = store[k + 1]
      BY <1>0, <1>3
    <2> HIDE DEF e, rest
    <2>4. /\ Touched(s) \in Seq(Entry)
          /\ Len(Touched(s)) = Len(store)
          /\ Touched(s)[Len(store)] = e
          /\ \A k \in 1..(Len(store) - 1) : Touched(s)[k] = rest[k]
      BY <1>0, <1>1, <2>1, <2>3, AppendLemma
    <2>5. Len(store) = Capacity
      BY <1>0, <1>3
    <2>6. Moved(s, 1)
      BY <1>0, <1>3, <2>2, <2>3, <2>4, <2>5 DEF Moved, e
    <2> QED BY <1>0, <2>6
  <1>4. CASE Stored(s) # {}
    <2> DEFINE i == CHOOSE i \in Stored(s) : TRUE
               rest == SubSeq(store, 1, i - 1) \o SubSeq(store, i + 1, Len(store))
    <2>1. i \in Stored(s) /\ i \in 1..Len(store) /\ store[i].source = s
      BY <1>4 DEF Stored
    <2>2. Touched(s) = Append(rest, e)
      BY <1>4 DEF Touched, Crowded, Others
    <2> HIDE DEF i
    <2>3. /\ rest \in Seq(Entry)
          /\ Len(rest) = Len(store) - 1
          /\ \A k \in 1..(Len(store) - 1) : rest[k] = IF k < i THEN store[k] ELSE store[k + 1]
      BY <1>0, <2>1, RemoveLemma
    <2> HIDE DEF e, rest
    <2>4. /\ Touched(s) \in Seq(Entry)
          /\ Len(Touched(s)) = Len(store)
          /\ Touched(s)[Len(store)] = e
          /\ \A k \in 1..(Len(store) - 1) : Touched(s)[k] = rest[k]
      BY <1>0, <1>1, <2>1, <2>2, <2>3, AppendLemma
    <2>5. \A k \in 1..Len(store) : store[k].source = s => k = i
      BY <2>1 DEF StoredOnce
    <2>6. Moved(s, i)
      BY <1>0, <2>1, <2>3, <2>4, <2>5 DEF Moved, e
    <2> QED BY <1>0, <2>1, <2>6
  <1> QED BY <1>2, <1>3, <1>4

-----------------------------------------------------------------------------
(* The invariant of the limiters. *)

(* At least Capacity other addresses were looked up within this age. *)
Crowd(s, age) == Cardinality({q \in Sources \ {s} : seen[q] <= age}) >= Capacity

(* How long ago a request looked its window up, at most: the lookup is at  *)
(* most MaxDelay before the clock reading.                                 *)
Back(age) == age + MaxDelay
Since(g) == IF g.pc = "fetched" THEN g.read ELSE Back(g.read)

LEMMA SinceFacts ==
    /\ \A a \in Nat : Back(a) \in Nat /\ Back(a + 1) = Back(a) + 1
    /\ \A g \in GateType : g.read \in Nat /\ Since(g) \in Nat
  <1>1. MaxDelay \in Nat
    BY LimiterAssumption
  <1>2. \A a \in Nat : Back(a) \in Nat /\ Back(a + 1) = Back(a) + 1
    BY <1>1 DEF Back
  <1>3. \A g \in GateType : g.read \in Nat
    BY AgeFacts DEF GateType
  <1> QED BY <1>2, <1>3 DEF Since

(* The requests of an address that its windows have let through. *)
Spent(s) == Tickets(perSource[s], SourceLimit)

(* The events of the shared window account for everything it let through.  *)
SharedInv ==
    /\ Len(shared) <= Limit
    /\ Accounts(shared, Tickets(admitted, Limit))

(* The store is in the order of the last lookups, and its windows are its  *)
(* own.                                                                    *)
StoreInv ==
    /\ StoredOnce
    /\ \A i, j \in 1..Len(store) : store[i].bucket = store[j].bucket => i = j
    /\ \A i, j \in 1..Len(store) : i < j => seen[store[j].source] <= seen[store[i].source]

(* A request holds the stored window of its source, or one from which a    *)
(* crowd has displaced the source since.                                   *)
GateInv ==
    \A t \in Threads :
        /\ gate[t].pc \in Holding \cup {"retry_after"} => gate[t].source \in Sources
        /\ gate[t].pc \in Timed => gate[t].read <= MaxDelay
        /\ gate[t].pc \in Holding =>
             /\ \A i \in 1..Len(store) :
                   store[i].bucket = gate[t].bucket => store[i].source = gate[t].source
             /\ seen[gate[t].source] <= Since(gate[t])
             /\ \/ \E i \in 1..Len(store) : /\ store[i].source = gate[t].source
                                            /\ store[i].bucket = gate[t].bucket
                \/ Crowd(gate[t].source, Since(gate[t]))

WindowInv ==
    /\ \A b \in BucketIds : Len(buckets[b]) <= SourceLimit
    /\ \A b \in BucketIds \ InUse(store, gate) : buckets[b] = <<>>

(* What an address was let through and no crowd excuses is in its stored   *)
(* window.                                                                 *)
SpentInv ==
    \A s \in Sources :
        /\ \A x \in Spent(s) : seen[s] <= Back(x[1])
        /\ \A i \in 1..Len(store) : store[i].source = s =>
              Accounts(buckets[store[i].bucket], {x \in Spent(s) : ~Crowd(s, Back(x[1]))})
        /\ Stored(s) = {} => \A x \in Spent(s) : Crowd(s, Back(x[1]))

LimiterInv ==
    LimiterTypeOK /\ SharedInv /\ StoreInv /\ GateInv /\ WindowInv /\ SpentInv

(* What the invariant is for. *)
LEMMA BudgetsFromInv == LimiterInv => SharedBudget /\ BudgetLostToCrowdOnly
  <1> SUFFICES ASSUME LimiterInv PROVE SharedBudget /\ BudgetLostToCrowdOnly
    OBVIOUS
  <1>0. Limit \in Nat /\ SourceLimit \in Nat /\ Window \in Nat
    BY LimiterAssumption
  <1>1. SharedBudget
    <2>1. /\ shared \in Seq(Ages) /\ Len(shared) <= Limit
          /\ Accounts(shared, Tickets(admitted, Limit))
      BY DEF LimiterInv, LimiterTypeOK, SharedInv
    <2>2. /\ Cardinality(Tickets(admitted, Limit)) \in Nat
          /\ Cardinality(Tickets(admitted, Limit)) <= Len(shared)
      BY <2>1, AccountsBound
    <2>3. Len(shared) \in Nat
      BY <2>1
    <2> QED BY <1>0, <2>1, <2>2, <2>3 DEF SharedBudget, Within
  <1>2. ASSUME NEW s \in Sources, Within(perSource[s], SourceLimit) > SourceLimit
        PROVE  Crowd(s, Window + MaxDelay)
    <2>1. \E x \in Spent(s) : Crowd(s, Back(x[1]))
      <3>1. SUFFICES ASSUME \A x \in Spent(s) : ~Crowd(s, Back(x[1])) PROVE FALSE
        OBVIOUS
      <3>2. CASE Stored(s) = {}
        <4>1. Spent(s) = {}
          BY <3>1, <3>2 DEF LimiterInv, SpentInv
        <4>2. Cardinality(Spent(s)) = 0
          BY <4>1, FS_EmptySet
        <4> QED BY <1>0, <1>2, <4>2 DEF Within, Spent
      <3>3. CASE Stored(s) # {}
        <4>1. PICK i \in 1..Len(store) : store[i].source = s
          BY <3>3 DEF Stored
        <4>2. {x \in Spent(s) : ~Crowd(s, Back(x[1]))} = Spent(s)
          BY <3>1
        <4>3. Accounts(buckets[store[i].bucket], Spent(s))
          BY <4>1, <4>2 DEF LimiterInv, SpentInv
        <4>4. store[i].bucket \in BucketIds
          <5>1. store \in Seq(Entry)
            BY DEF LimiterInv, LimiterTypeOK, Entry
          <5>2. store[i] \in Entry
            BY <5>1, ElementOfSeq
          <5> QED BY <5>2 DEF Entry
        <4>5. /\ buckets[store[i].bucket] \in Seq(Ages)
              /\ Len(buckets[store[i].bucket]) <= SourceLimit
          BY <4>4 DEF LimiterInv, LimiterTypeOK, WindowInv
        <4>6. /\ Cardinality(Spent(s)) \in Nat
              /\ Cardinality(Spent(s)) <= Len(buckets[store[i].bucket])
          BY <4>3, <4>5, AccountsBound
        <4>7. Len(buckets[store[i].bucket]) \in Nat
          BY <4>5
        <4> QED BY <1>0, <1>2, <4>5, <4>6, <4>7 DEF Within, Spent
      <3> QED BY <3>2, <3>3
    <2>2. PICK x \in Spent(s) : Crowd(s, Back(x[1]))
      BY <2>1
    <2>3. x[1] \in Recent
      BY DEF Spent, Tickets
    <2>4. Back(x[1]) <= Window + MaxDelay /\ Back(x[1]) \in Nat /\ Window + MaxDelay \in Nat
      BY <2>3, AgeFacts DEF Back
    <2> DEFINE near == {q \in Sources \ {s} : seen[q] <= Back(x[1])}
               all == {q \in Sources \ {s} : seen[q] <= Window + MaxDelay}
    <2>5. \A q \in Sources : seen[q] \in Nat
      BY AgeFacts DEF LimiterInv, LimiterTypeOK
    <2>6. near \in SUBSET all
      BY <1>0, <2>4, <2>5
    <2>7. IsFiniteSet(all)
      BY LimiterAssumption, FS_Subset
    <2>8. Cardinality(near) >= Capacity
      BY <2>2 DEF Crowd
    <2> HIDE DEF near, all
    <2>9. /\ Cardinality(near) <= Cardinality(all)
          /\ Cardinality(near) \in Nat
          /\ Cardinality(all) \in Nat
      BY <2>6, <2>7, FS_Subset, FS_CardinalityType
    <2>10. Cardinality(all) >= Capacity
      BY <2>8, <2>9, LimiterAssumption
    <2> QED BY <2>10 DEF Crowd, all
  <1>3. BudgetLostToCrowdOnly
    BY <1>2 DEF BudgetLostToCrowdOnly, Crowd
  <1> QED BY <1>1, <1>3

LEMMA AccountsNothing == ASSUME NEW events PROVE Accounts(events, {})
  <1> DEFINE F == [t \in {} |-> 1]
  <1>1. F \in [{} -> 1..Len(events)]
    OBVIOUS
  <1> QED BY <1>1 DEF Accounts

(* A crowd stays a crowd while its members' lookups age no faster. *)
LEMMA CrowdStays ==
    ASSUME NEW s, NEW a, NEW b, Crowd(s, a),
           \A q \in Sources : seen[q] <= a => seen'[q] <= b
    PROVE  Crowd(s, b)'
  <1> DEFINE old == {q \in Sources \ {s} : seen[q] <= a}
             new == {q \in Sources \ {s} : seen'[q] <= b}
  <1>1. old \in SUBSET new
    OBVIOUS
  <1>2. IsFiniteSet(new)
    BY LimiterAssumption, FS_Subset
  <1>3. Cardinality(old) >= Capacity
    BY DEF Crowd
  <1> HIDE DEF old, new
  <1>4. /\ Cardinality(old) <= Cardinality(new)
        /\ Cardinality(old) \in Nat
        /\ Cardinality(new) \in Nat
    BY <1>1, <1>2, FS_Subset, FS_CardinalityType
  <1>5. Cardinality(new) >= Capacity
    BY <1>3, <1>4, LimiterAssumption
  <1> QED BY <1>5 DEF Crowd, new

LEMMA LimiterInitInv == LimiterInit => LimiterInv
  <1> SUFFICES ASSUME LimiterInit PROVE LimiterInv
    OBVIOUS
  <1>0. /\ Capacity \in Nat \ {0} /\ Cardinality(Threads) \in Nat
        /\ Limit \in Nat /\ SourceLimit \in Nat
    BY LimiterAssumption, FS_CardinalityType
  <1>1. 1 \in BucketIds
    BY <1>0 DEF BucketIds
  <1>2. IdleGate \in GateType /\ IdleGate.pc = "idle"
    BY <1>1, AgeFacts DEF IdleGate, GateType
  <1>3. Oldest \in Ages
    BY AgeFacts
  <1>4. 0 \in Ages
    BY AgeFacts
  <1>5. LimiterTypeOK
    BY <1>0, <1>2, <1>3, <1>4 DEF LimiterInit, LimiterTypeOK
  <1>6. ASSUME NEW log, log = [a \in Ages |-> 0], NEW limit \in Nat
        PROVE  Tickets(log, limit) = {}
    <2> SUFFICES ASSUME NEW x \in Tickets(log, limit) PROVE FALSE
      OBVIOUS
    <2>1. x[1] \in Ages /\ x[2] \in 1..(limit + 1) /\ x[2] <= log[x[1]]
      BY AgeFacts DEF Tickets
    <2>2. log[x[1]] = 0
      BY <1>6, <2>1
    <2> QED BY <2>1, <2>2
  <1>7. Tickets(admitted, Limit) = {} /\ \A s \in Sources : Spent(s) = {}
    BY <1>0, <1>6 DEF LimiterInit, Spent
  <1>8. SharedInv
    <2>1. Accounts(shared, Tickets(admitted, Limit))
      BY <1>7, AccountsNothing, Zenon
    <2>2. Len(shared) <= Limit
      BY <1>0 DEF LimiterInit
    <2> QED BY <2>1, <2>2 DEF SharedInv
  <1>9. StoreInv
    BY DEF StoreInv, StoredOnce, LimiterInit
  <1>10. GateInv
    BY <1>2 DEF GateInv, LimiterInit, Holding, Timed
  <1>11. WindowInv
    BY <1>0 DEF WindowInv, LimiterInit
  <1>12. SpentInv
    BY <1>7 DEF SpentInv, LimiterInit
  <1> QED BY <1>5, <1>8, <1>9, <1>10, <1>11, <1>12 DEF LimiterInv

-----------------------------------------------------------------------------
(* Lookups: Arrive and RetryAfter. *)

(* What a lookup by thread t does to the store, in terms of the position j *)
(* it removes and the window w it returns.                                 *)
Lookup(t, s, w, j) ==
    /\ gate[t].pc \notin Holding
    /\ seen' = [seen EXCEPT ![s] = 0]
    /\ store' \in Seq(Entry)
    /\ Len(store') \in Nat \ {0}
    /\ Len(store') <= Capacity
    /\ Len(store') = IF j <= Len(store) THEN Len(store) ELSE Len(store) + 1
    /\ store'[Len(store')].source = s /\ store'[Len(store')].bucket = w
    /\ \A k \in 1..(Len(store') - 1) :
          /\ k < j => k \in 1..Len(store) /\ store'[k] = store[k]
          /\ ~(k < j) => k + 1 \in 1..Len(store) /\ store'[k] = store[k + 1]
    /\ \A k \in 1..Len(store) : store[k].source = s => k = j /\ w = store[k].bucket
    /\ Stored(s) = {} => w \in Unused
    /\ j <= Len(store) => \/ store[j].source = s
                          \/ j = 1 /\ Len(store) = Capacity /\ Stored(s) = {}
    /\ w \in BucketIds
    /\ \A b \in BucketIds : buckets'[b] = IF b \in InUse(store, gate)' THEN buckets[b] ELSE <<>>
    /\ buckets' = [b \in BucketIds |-> buckets'[b]]

LEMMA LookupFromGet ==
    ASSUME LimiterInv, NEW s \in Sources, NEW t \in Threads, gate[t].pc \notin Holding,
           GetOrCreate(s), NEW w, w = WindowOf(s)
    PROVE  \E j \in 1..(Len(store) + 1) : Lookup(t, s, w, j)
  <1>0. LimiterTypeOK /\ StoredOnce
    BY DEF LimiterInv, StoreInv
  <1>1. PICK j \in 1..(Len(store) + 1) : Moved(s, j)
    BY <1>0, TouchedLemma
  <1>2. /\ store' = Touched(s)
        /\ seen' = [seen EXCEPT ![s] = 0]
        /\ buckets' = [b \in BucketIds |-> IF b \in InUse(store', gate') THEN buckets[b] ELSE <<>>]
    BY DEF GetOrCreate, Collect
  <1>3. InUse(store, gate)' = InUse(store', gate')
    BY DEF InUse
  <1>4. Len(store) \in Nat /\ Len(store) <= Capacity /\ Capacity \in Nat
    BY <1>0, LimiterAssumption DEF LimiterTypeOK
  <1>5. /\ store' \in Seq(Entry)
        /\ Len(store') <= Capacity
        /\ Len(store') = IF j <= Len(store) THEN Len(store) ELSE Len(store) + 1
        /\ store'[Len(store')] = [source |-> s, bucket |-> w]
        /\ \A k \in 1..(Len(store') - 1) :
              /\ (IF k < j THEN k ELSE k + 1) \in 1..Len(store)
              /\ store'[k] = store[IF k < j THEN k ELSE k + 1]
        /\ \A k \in 1..Len(store) : store[k].source = s => k = j
        /\ j <= Len(store) => \/ store[j].source = s
                              \/ j = 1 /\ Len(store) = Capacity /\ Stored(s) = {}
    BY <1>1, <1>2 DEF Moved
  <1>6. Len(store') \in Nat \ {0}
    BY <1>4, <1>5
  <1>7. /\ w \in BucketIds
        /\ \A i \in 1..Len(store) : store[i].source = s => w = store[i].bucket
        /\ Stored(s) = {} => w \in Unused
    BY <1>0, WindowLemma
  <1>8. \A k \in 1..(Len(store') - 1) :
          /\ k < j => k \in 1..Len(store) /\ store'[k] = store[k]
          /\ ~(k < j) => k + 1 \in 1..Len(store) /\ store'[k] = store[k + 1]
    BY <1>5
  <1>9. /\ \A b \in BucketIds : buckets'[b] = IF b \in InUse(store, gate)' THEN buckets[b] ELSE <<>>
        /\ buckets' = [b \in BucketIds |-> buckets'[b]]
    BY <1>2, <1>3
  <1>10. store'[Len(store')].source = s /\ store'[Len(store')].bucket = w
    BY <1>5
  <1> QED BY <1>2, <1>5, <1>6, <1>7, <1>8, <1>9, <1>10 DEF Lookup

LEMMA TypedFacts ==
    ASSUME LimiterTypeOK
    PROVE  /\ \A i \in 1..Len(store) : store[i].source \in Sources /\ store[i].bucket \in BucketIds
           /\ \A q \in Sources : seen[q] \in Nat
           /\ Len(store) \in Nat
  <1>1. store \in Seq(Entry)
    BY DEF LimiterTypeOK, Entry
  <1>2. \A i \in 1..Len(store) : store[i] \in Entry
    BY <1>1, ElementOfSeq
  <1>3. \A q \in Sources : seen[q] \in Nat
    BY AgeFacts DEF LimiterTypeOK
  <1> QED BY <1>1, <1>2, <1>3 DEF Entry

(* Every position of the new store but the last was another position than  *)
(* j, of another address and window; and all of these are kept.            *)
CameFrom(s, w, j) ==
    \A k \in 1..Len(store') : k # Len(store') =>
        \E i \in 1..Len(store) : /\ i # j /\ store'[k] = store[i]
                                 /\ store[i].source # s
                                 /\ store[i].bucket # w

WentTo(j) ==
    \A i \in 1..Len(store) : i # j =>
        \E k \in 1..Len(store') : k # Len(store') /\ store'[k] = store[i]

LEMMA LookupPositions ==
    ASSUME LimiterInv, NEW t \in Threads, NEW s \in Sources, NEW w,
           NEW j \in 1..(Len(store) + 1), Lookup(t, s, w, j)
    PROVE  CameFrom(s, w, j) /\ WentTo(j) /\ StoreInv'
  <1>0. /\ Len(store) \in Nat
        /\ \A i \in 1..Len(store) : store[i].source \in Sources /\ store[i].bucket \in BucketIds
        /\ \A q \in Sources : seen[q] \in Nat
    BY TypedFacts DEF LimiterInv
  <1> DEFINE n == Len(store')
             from(k) == IF k < j THEN k ELSE k + 1
  <1>1. n \in Nat \ {0} /\ n = IF j <= Len(store) THEN Len(store) ELSE Len(store) + 1
    BY DEF Lookup
  <1>2. \A k \in 1..(n - 1) : from(k) \in 1..Len(store) /\ store'[k] = store[from(k)] /\ from(k) # j
    BY DEF Lookup
  <1>3. \A i \in 1..Len(store) : i # j => store[i].source # s
    BY DEF Lookup
  <1>4. \A i \in 1..Len(store) : i # j => store[i].bucket # w
    <2> SUFFICES ASSUME NEW i \in 1..Len(store), i # j PROVE store[i].bucket # w
      OBVIOUS
    <2>1. CASE Stored(s) = {}
      <3>1. w \in Unused
        BY <2>1 DEF Lookup
      <3>2. store[i].bucket \in InUse(store, gate)
        BY DEF InUse
      <3> QED BY <3>1, <3>2 DEF Unused
    <2>2. CASE Stored(s) # {}
      <3>1. PICK k \in 1..Len(store) : store[k].source = s
        BY <2>2 DEF Stored
      <3>2. k = j /\ w = store[k].bucket
        BY <3>1 DEF Lookup
      <3> QED BY <3>1, <3>2 DEF LimiterInv, StoreInv
    <2> QED BY <2>1, <2>2
  <1>5. \A k, l \in 1..(n - 1) : /\ from(k) = from(l) => k = l
                                 /\ k < l => from(k) < from(l)
    BY <1>1
  <1>6. /\ store'[n].source = s /\ store'[n].bucket = w
        /\ \A q \in Sources : seen'[q] = IF q = s THEN 0 ELSE seen[q]
    BY DEF Lookup, LimiterInv, LimiterTypeOK
  <1>7. \A k \in 1..n : k # n => k \in 1..(n - 1)
    BY <1>1
  <1> HIDE DEF from
  <1>8. \A k \in 1..n : k # n =>
           \E i \in 1..Len(store) : /\ i # j /\ store'[k] = store[i]
                                    /\ store[i].source # s /\ store[i].bucket # w
    BY <1>2, <1>3, <1>4, <1>7
  <1>9. \A i \in 1..Len(store) : i # j =>
           \E k \in 1..n : k # n /\ store'[k] = store[i]
    <2> SUFFICES ASSUME NEW i \in 1..Len(store), i # j
                 PROVE  \E k \in 1..n : k # n /\ store'[k] = store[i]
      OBVIOUS
    <2>1. CASE i < j
      <3>1. i \in 1..n /\ i # n /\ i \in 1..(n - 1) /\ from(i) = i
        BY <1>0, <1>1, <2>1 DEF from
      <3> QED BY <1>2, <3>1
    <2>2. CASE ~(i < j)
      <3>1. i - 1 \in 1..n /\ i - 1 # n /\ i - 1 \in 1..(n - 1) /\ from(i - 1) = i
        BY <1>0, <1>1, <2>2 DEF from
      <3> QED BY <1>2, <3>1
    <2> QED BY <2>1, <2>2
  <1>10. StoredOnce'
    <2> SUFFICES ASSUME NEW k \in 1..n, NEW l \in 1..n, store'[k].source = store'[l].source
                 PROVE  k = l
      BY DEF StoredOnce
    <2>1. CASE k # n /\ l # n
      <3>1. /\ from(k) \in 1..Len(store) /\ store'[k] = store[from(k)]
            /\ from(l) \in 1..Len(store) /\ store'[l] = store[from(l)]
        BY <1>2, <1>7, <2>1
      <3>2. store[from(k)].source = store[from(l)].source
        BY <3>1
      <3>3. \A a, b \in 1..Len(store) : store[a].source = store[b].source => a = b
        BY DEF LimiterInv, StoreInv, StoredOnce
      <3>4. from(k) = from(l)
        BY <3>1, <3>2, <3>3
      <3> QED BY <1>5, <1>7, <2>1, <3>4
    <2>2. CASE k = n \/ l = n
      BY <1>6, <1>8, <2>2
    <2> QED BY <2>1, <2>2
  <1>11. \A k, l \in 1..n : store'[k].bucket = store'[l].bucket => k = l
    <2> SUFFICES ASSUME NEW k \in 1..n, NEW l \in 1..n, store'[k].bucket = store'[l].bucket
                 PROVE  k = l
      OBVIOUS
    <2>1. CASE k # n /\ l # n
      <3>1. from(k) = from(l)
        BY <1>2, <1>7, <2>1 DEF LimiterInv, StoreInv
      <3> QED BY <1>5, <1>7, <2>1, <3>1
    <2>2. CASE k = n \/ l = n
      BY <1>6, <1>8, <2>2
    <2> QED BY <2>1, <2>2
  <1>12. \A k, l \in 1..n : k < l => seen'[store'[l].source] <= seen'[store'[k].source]
    <2> SUFFICES ASSUME NEW k \in 1..n, NEW l \in 1..n, k < l
                 PROVE  seen'[store'[l].source] <= seen'[store'[k].source]
      OBVIOUS
    <2>1. k # n /\ k \in 1..(n - 1)
      BY <1>1
    <2>2. /\ from(k) \in 1..Len(store)
          /\ store'[k].source = store[from(k)].source
          /\ store[from(k)].source # s
          /\ seen'[store'[k].source] = seen[store[from(k)].source]
          /\ seen[store[from(k)].source] \in Nat
      BY <1>0, <1>2, <1>3, <1>6, <2>1
    <2>3. CASE l = n
      <3>1. seen'[store'[l].source] = 0
        BY <1>6, <2>3
      <3> QED BY <2>2, <3>1
    <2>4. CASE l # n
      <3>1. /\ from(l) \in 1..Len(store)
            /\ store'[l].source = store[from(l)].source
            /\ store[from(l)].source # s
            /\ seen'[store'[l].source] = seen[store[from(l)].source]
        BY <1>0, <1>2, <1>3, <1>6, <1>7, <2>4
      <3>2. from(k) < from(l)
        BY <1>5, <1>7, <2>1, <2>4
      <3> QED BY <2>2, <3>1, <3>2 DEF LimiterInv, StoreInv
    <2> QED BY <2>3, <2>4
  <1> QED BY <1>8, <1>9, <1>10, <1>11, <1>12 DEF StoreInv, CameFrom, WentTo

(* Whom a lookup evicts, a crowd has displaced: every other address in the *)
(* full store was looked up after it.                                      *)
LEMMA Displaced ==
    ASSUME LimiterInv, NEW t \in Threads, NEW s \in Sources, NEW w,
           NEW j \in 1..(Len(store) + 1), Lookup(t, s, w, j),
           j <= Len(store), NEW v, v = store[j].source, v # s,
           NEW a \in Nat, seen[v] <= a
    PROVE  Crowd(v, a)'
  <1> DEFINE n == Len(store')
             f == [k \in 1..n |-> store'[k].source]
             near == {q \in Sources \ {v} : seen'[q] <= a}
  <1>0. /\ Len(store) \in Nat /\ Capacity \in Nat
        /\ \A i \in 1..Len(store) : store[i].source \in Sources
        /\ \A q \in Sources : seen[q] \in Nat
    BY TypedFacts, LimiterAssumption DEF LimiterInv
  <1>1. j = 1 /\ Len(store) = Capacity /\ n = Capacity
    <2>1. /\ \/ store[j].source = s
             \/ j = 1 /\ Len(store) = Capacity /\ Stored(s) = {}
          /\ n = IF j <= Len(store) THEN Len(store) ELSE Len(store) + 1
      BY DEF Lookup
    <2> QED BY <2>1
  <1>2. /\ store'[n].source = s
        /\ \A q \in Sources : seen'[q] = IF q = s THEN 0 ELSE seen[q]
    BY DEF Lookup, LimiterInv, LimiterTypeOK
  <1>3. /\ \A k \in 1..n : k # n =>
              \E i \in 1..Len(store) : i # j /\ store'[k] = store[i] /\ store[i].source # s
        /\ StoreInv'
    <2>1. CameFrom(s, w, j) /\ StoreInv'
      BY LookupPositions
    <2> QED BY <2>1 DEF CameFrom
  <1>4. ASSUME NEW k \in 1..n PROVE store'[k].source \in near
    <2>1. CASE k = n
      <3>1. store'[k].source = s /\ seen'[s] = 0
        BY <1>2, <2>1
      <3>2. seen'[store'[k].source] <= a
        BY <3>1
      <3> QED BY <3>1, <3>2
    <2>2. CASE k # n
      <3>1. PICK i \in 1..Len(store) :
               i # j /\ store'[k] = store[i] /\ store[i].source # s
        BY <1>3, <2>2
      <3>2. store[i].source # v /\ store[i].source \in Sources
        BY <1>0, <3>1 DEF LimiterInv, StoreInv, StoredOnce
      <3>3. 1 < i
        BY <1>0, <1>1, <3>1
      <3>4. seen[store[i].source] <= seen[v]
        BY <1>0, <1>1, <3>3 DEF LimiterInv, StoreInv
      <3>5. seen[v] \in Nat /\ seen[store[i].source] \in Nat
        BY <1>0, <3>2
      <3>6. seen'[store'[k].source] = seen[store[i].source]
        BY <1>2, <3>1, <3>2
      <3>7. seen'[store'[k].source] <= a
        BY <3>4, <3>5, <3>6
      <3> QED BY <3>1, <3>2, <3>7
    <2> QED BY <2>1, <2>2
  <1>5. \A k, l \in 1..n : store'[k].source = store'[l].source => k = l
    BY <1>3 DEF StoreInv, StoredOnce
  <1>6. /\ f \in [1..n -> near]
        /\ \A k, l \in 1..n : f[k] = f[l] => k = l
    BY <1>4, <1>5
  <1>7. IsFiniteSet(near)
    BY LimiterAssumption, FS_Subset
  <1>8. IsFiniteSet(1..n) /\ Cardinality(1..n) = n /\ n \in Nat
    BY <1>0, <1>1, UptoLemma
  <1> HIDE DEF f, near, n
  <1>9. f \in Injection(1..n, near)
    BY <1>6 DEF Injection, IsInjective
  <1>10. Cardinality(1..n) <= Cardinality(near)
    BY <1>7, <1>9, FS_Injection DEF ExistsInjection
  <1>11. Cardinality(near) >= Capacity
    BY <1>0, <1>1, <1>7, <1>8, <1>10, FS_CardinalityType
  <1> QED BY <1>11 DEF Crowd, near

(* A lookup by t, which then holds the window it fetched or is done. *)
LEMMA LookupKeeps ==
    ASSUME LimiterInv, NEW t \in Threads, NEW s \in Sources, NEW w,
           NEW j \in 1..(Len(store) + 1), Lookup(t, s, w, j),
           NEW g \in GateType, gate' = [gate EXCEPT ![t] = g],
           \/ g.pc = "idle"
           \/ g.pc = "fetched" /\ g.source = s /\ g.bucket = w /\ g.read = 0,
           UNCHANGED <<shared, admitted, perSource>>
    PROVE  LimiterInv'
  <1> DEFINE n == Len(store')
  <1>0. /\ Len(store) \in Nat /\ n \in Nat \ {0} /\ MaxDelay \in Nat /\ SourceLimit \in Nat
        /\ \A i \in 1..Len(store) : store[i].source \in Sources /\ store[i].bucket \in BucketIds
        /\ \A q \in Sources : seen[q] \in Nat
    BY TypedFacts, LimiterAssumption DEF LimiterInv, Lookup
  <1>1. /\ store'[n].source = s /\ store'[n].bucket = w
        /\ \A q \in Sources : seen'[q] = IF q = s THEN 0 ELSE seen[q]
        /\ \A u \in Threads : gate'[u] = IF u = t THEN g ELSE gate[u]
    BY DEF Lookup, LimiterInv, LimiterTypeOK
  <1>1a. CameFrom(s, w, j) /\ WentTo(j) /\ StoreInv'
    BY LookupPositions
  <1>2. \A k \in 1..n : k # n =>
           \E i \in 1..Len(store) : /\ i # j /\ store'[k] = store[i]
                                    /\ store[i].source # s
                                    /\ store[i].bucket # w
    BY <1>1a DEF CameFrom
  <1>3. \A i \in 1..Len(store) : i # j => \E k \in 1..n : k # n /\ store'[k] = store[i]
    BY <1>1a DEF WentTo
  <1>4. StoreInv'
    BY <1>1a
  <1>5. LimiterTypeOK'
    <2>1. 0 \in Ages /\ <<>> \in Seq(Ages)
      BY AgeFacts
    <2>2. seen' \in [Sources -> Ages]
      BY <2>1 DEF Lookup, LimiterInv, LimiterTypeOK
    <2>3. buckets' \in [BucketIds -> Seq(Ages)]
      BY <2>1 DEF Lookup, LimiterInv, LimiterTypeOK
    <2>4. store' \in Seq([source : Sources, bucket : BucketIds]) /\ Len(store') <= Capacity
      BY DEF Lookup, Entry
    <2>5. gate' \in [Threads -> GateType]
      BY DEF LimiterInv, LimiterTypeOK
    <2> QED BY <2>2, <2>3, <2>4, <2>5 DEF LimiterInv, LimiterTypeOK
  <1>6. SharedInv'
    BY DEF LimiterInv, SharedInv
  <1>7. ASSUME NEW v, NEW a \in Nat, Crowd(v, a) PROVE Crowd(v, a)'
    <2>1. \A q \in Sources : seen[q] <= a => seen'[q] <= a
      BY <1>1
    <2> QED BY <1>7, <2>1, CrowdStays
  <1>8. ASSUME NEW v, NEW a \in Nat, j <= Len(store), v = store[j].source, v # s, seen[v] <= a
        PROVE  Crowd(v, a)'
    BY <1>8, Displaced
  <1>9. \A q \in Sources : seen'[q] <= seen[q]
    BY <1>0, <1>1
  <1>10. 1 <= n /\ n \in 1..n
    BY <1>0
  <1>11. GateInv'
    <2> SUFFICES ASSUME NEW u \in Threads
                 PROVE  (/\ gate[u].pc \in Holding \cup {"retry_after"} => gate[u].source \in Sources
                         /\ gate[u].pc \in Timed => gate[u].read <= MaxDelay
                         /\ gate[u].pc \in Holding =>
                              /\ \A i \in 1..Len(store) :
                                    store[i].bucket = gate[u].bucket => store[i].source = gate[u].source
                              /\ seen[gate[u].source] <= Since(gate[u])
                              /\ \/ \E i \in 1..Len(store) : /\ store[i].source = gate[u].source
                                                             /\ store[i].bucket = gate[u].bucket
                                 \/ Crowd(gate[u].source, Since(gate[u])))'
      BY DEF GateInv
    <2>1. CASE u = t
      <3>1. gate'[u] = g
        BY <1>1, <2>1
      <3>2. CASE g.pc = "idle"
        BY <3>1, <3>2 DEF Holding, Timed
      <3>3. CASE g.pc = "fetched" /\ g.source = s /\ g.bucket = w /\ g.read = 0
        <4>1. \A k \in 1..n : store'[k].bucket = w => store'[k].source = s
          BY <1>1, <1>2
        <4>2. seen'[s] <= 0
          BY <1>1
        <4>3. \E k \in 1..n : store'[k].source = s /\ store'[k].bucket = w
          BY <1>1, <1>10
        <4>4. Since(g) = 0 /\ g.pc \in Holding
          BY <3>3 DEF Since, Holding
        <4>5. Since(gate[u])' = Since(g)
          BY <3>1 DEF Since, Back
        <4> QED BY <1>0, <3>1, <3>3, <4>1, <4>2, <4>3, <4>4, <4>5
      <3> QED BY <3>2, <3>3
    <2>2. CASE u # t
      <3>1. PICK c \in GateType : c = gate[u]
        BY DEF LimiterInv, LimiterTypeOK
      <3>2. gate'[u] = c
        BY <1>1, <2>2, <3>1
      <3>3. /\ c.pc \in Holding \cup {"retry_after"} => c.source \in Sources
            /\ c.pc \in Timed => c.read <= MaxDelay
        BY <3>1 DEF LimiterInv, GateInv
      <3>4. ASSUME c.pc \in Holding
            PROVE  /\ \A k \in 1..n : store'[k].bucket = c.bucket => store'[k].source = c.source
                   /\ seen'[c.source] <= Since(c)
                   /\ \/ \E k \in 1..n : store'[k].source = c.source /\ store'[k].bucket = c.bucket
                      \/ Crowd(c.source, Since(c))'
        <4>0. c.source \in Sources /\ Since(c) \in Nat
          BY <3>3, <3>4, SinceFacts
        <4>1. /\ \A i \in 1..Len(store) : store[i].bucket = c.bucket => store[i].source = c.source
              /\ seen[c.source] <= Since(c)
              /\ \/ \E i \in 1..Len(store) : store[i].source = c.source /\ store[i].bucket = c.bucket
                 \/ Crowd(c.source, Since(c))
          BY <3>1, <3>4 DEF LimiterInv, GateInv
        <4>2. w = c.bucket => s = c.source
          <5> SUFFICES ASSUME w = c.bucket PROVE s = c.source
            OBVIOUS
          <5>1. c.bucket \in InUse(store, gate)
            BY <3>1, <3>4 DEF InUse
          <5>2. Stored(s) # {}
            <6>1. Stored(s) = {} => w \in Unused
              BY DEF Lookup
            <6> QED BY <5>1, <6>1 DEF Unused
          <5>3. PICK i \in 1..Len(store) : store[i].source = s
            BY <5>2 DEF Stored
          <5>4. w = store[i].bucket
            BY <5>3 DEF Lookup
          <5> QED BY <4>1, <5>3, <5>4
        <4>3. ASSUME NEW k \in 1..n, store'[k].bucket = c.bucket
              PROVE  store'[k].source = c.source
          <5>1. CASE k = n
            BY <1>1, <4>2, <4>3, <5>1
          <5>2. CASE k # n
            <6>1. PICK i \in 1..Len(store) : store'[k] = store[i]
              BY <1>2, <5>2
            <6> QED BY <4>1, <4>3, <6>1
          <5> QED BY <5>1, <5>2
        <4>4. seen'[c.source] <= Since(c)
          <5>1. seen[c.source] \in Nat /\ seen'[c.source] \in Nat /\ seen'[c.source] <= seen[c.source]
            BY <1>0, <1>1, <1>9, <4>0
          <5> QED BY <4>0, <4>1, <5>1
        <4>5. CASE Crowd(c.source, Since(c))
          BY <1>7, <4>0, <4>3, <4>4, <4>5
        <4>6. CASE \E i \in 1..Len(store) : store[i].source = c.source /\ store[i].bucket = c.bucket
          <5>1. PICK i \in 1..Len(store) : store[i].source = c.source /\ store[i].bucket = c.bucket
            BY <4>6
          <5>2. CASE i # j
            BY <1>3, <4>3, <4>4, <5>1, <5>2
          <5>3. CASE i = j /\ c.source = s
            <6>1. w = c.bucket
              BY <5>1, <5>3 DEF Lookup
            <6> QED BY <1>1, <1>10, <4>3, <4>4, <5>3, <6>1
          <5>4. CASE i = j /\ c.source # s
            <6>1. j <= Len(store) /\ c.source = store[j].source
              BY <1>0, <5>1, <5>4
            <6>2. Crowd(c.source, Since(c))'
              BY <1>8, <4>0, <4>1, <5>4, <6>1
            <6> QED BY <4>3, <4>4, <6>2
          <5> QED BY <5>2, <5>3, <5>4
        <4> QED BY <4>1, <4>5, <4>6
      <3>5. Since(gate[u])' = Since(c)
        BY <3>2 DEF Since, Back
      <3> QED BY <3>2, <3>3, <3>4, <3>5
    <2> QED BY <2>1, <2>2
  <1>12. WindowInv'
    <2>1. Len(<<>>) = 0
      OBVIOUS
    <2>2. ASSUME NEW b \in BucketIds PROVE Len(buckets'[b]) <= SourceLimit
      <3>1. buckets'[b] = buckets[b] \/ buckets'[b] = <<>>
        BY DEF Lookup
      <3> QED BY <1>0, <2>1, <3>1 DEF LimiterInv, WindowInv
    <2>3. \A b \in BucketIds \ InUse(store, gate)' : buckets'[b] = <<>>
      BY DEF Lookup
    <2>4. BucketIds' = BucketIds
      BY DEF BucketIds
    <2> QED BY <2>2, <2>3, <2>4 DEF WindowInv
  <1>13. SpentInv'
    <2> SUFFICES ASSUME NEW p \in Sources
                 PROVE  (/\ \A x \in Spent(p) : seen[p] <= Back(x[1])
                         /\ \A i \in 1..Len(store) : store[i].source = p =>
                               Accounts(buckets[store[i].bucket], {x \in Spent(p) : ~Crowd(p, Back(x[1]))})
                         /\ Stored(p) = {} => \A x \in Spent(p) : Crowd(p, Back(x[1])))'
      BY DEF SpentInv
    <2>1. PICK T : T = Spent(p)
      OBVIOUS
    <2>2. Spent(p)' = T
      BY <2>1 DEF Spent
    <2>3. \A x \in T : /\ Back(x[1]) \in Nat /\ seen[p] <= Back(x[1])
                        /\ seen[p] \in Nat /\ seen'[p] \in Nat
      <3>1. \A x \in T : Back(x[1]) \in Nat
        BY <2>1, AgeFacts, SinceFacts DEF Spent, Tickets
      <3> QED BY <1>0, <1>1, <2>1, <3>1 DEF LimiterInv, SpentInv
    <2>4. \A x \in T : seen'[p] <= Back(x[1])
      BY <1>9, <2>3
    <2>5. \A x \in T : Crowd(p, Back(x[1])) => Crowd(p, Back(x[1]))'
      BY <1>7, <2>3
    <2>6. PICK free : free = {x \in T : ~Crowd(p, Back(x[1]))}
      OBVIOUS
    <2>7. PICK free2 : free2 = {x \in T : ~Crowd(p, Back(x[1]))'}
      OBVIOUS
    <2>8. free2 \in SUBSET free
      BY <2>5, <2>6, <2>7
    <2>9. \A i \in 1..Len(store) : store[i].source = p => Accounts(buckets[store[i].bucket], free)
      BY <2>1, <2>6 DEF LimiterInv, SpentInv
    <2>10. ASSUME NEW k \in 1..n, store'[k].source = p
           PROVE  Accounts(buckets'[store'[k].bucket], free2)
      <3>1. buckets'[store'[k].bucket] = buckets[store'[k].bucket]
        <4>1. store'[k].bucket \in InUse(store, gate)'
          BY DEF InUse
        <4>2. store'[k].bucket \in BucketIds
          <5>1. store' \in Seq(Entry)
            BY DEF Lookup
          <5>2. store'[k] \in Entry
            BY <5>1, ElementOfSeq
          <5> QED BY <5>2 DEF Entry
        <4> QED BY <4>1, <4>2 DEF Lookup
      <3>2. CASE \E i \in 1..Len(store) : store[i].source = p /\ store[i].bucket = store'[k].bucket
        <4>1. Accounts(buckets[store'[k].bucket], free)
          BY <2>9, <3>2
        <4> QED BY <2>8, <3>1, <4>1, AccountsSubset
      <3>3. CASE k # n
        BY <1>2, <2>10, <3>2, <3>3
      <3>4. CASE k = n /\ Stored(s) # {}
        <4>1. PICK i \in 1..Len(store) : store[i].source = s
          BY <3>4 DEF Stored
        <4>2. w = store[i].bucket
          BY <4>1 DEF Lookup
        <4> QED BY <1>1, <2>10, <3>2, <3>4, <4>1, <4>2
      <3>5. CASE k = n /\ Stored(s) = {}
        <4>1. p = s
          BY <1>1, <2>10, <3>5
        <4>2. \A x \in T : Crowd(p, Back(x[1]))
          BY <2>1, <3>5, <4>1 DEF LimiterInv, SpentInv
        <4>3. free2 = {}
          BY <2>5, <2>7, <4>2
        <4> QED BY <4>3, AccountsNothing
      <3> QED BY <3>3, <3>4, <3>5
    <2>11. ASSUME Stored(p)' = {}, NEW x \in T PROVE Crowd(p, Back(x[1]))'
      <3>1. \A k \in 1..n : store'[k].source # p
        BY <2>11 DEF Stored
      <3>2. p # s
        BY <1>1, <1>10, <3>1
      <3>3. CASE Stored(p) = {}
        BY <2>1, <2>5, <3>3 DEF LimiterInv, SpentInv
      <3>4. CASE Stored(p) # {}
        <4>1. PICK i \in 1..Len(store) : store[i].source = p
          BY <3>4 DEF Stored
        <4>2. i = j
          BY <1>3, <3>1, <4>1
        <4>3. j <= Len(store) /\ p = store[j].source
          BY <1>0, <4>1, <4>2
        <4> QED BY <1>8, <2>3, <3>2, <4>3
      <3> QED BY <3>3, <3>4
    <2> QED BY <2>2, <2>4, <2>7, <2>10, <2>11
  <1> QED BY <1>4, <1>5, <1>6, <1>11, <1>12, <1>13 DEF LimiterInv

-----------------------------------------------------------------------------
(* Checks. *)

(* What a request does to the window it holds, X being the tickets it      *)
(* gives out.                                                              *)
LEMMA WindowKeeps ==
    ASSUME LimiterInv, NEW t \in Threads, NEW c \in GateType, c = gate[t], c.pc = "source",
           NEW g \in GateType, gate' = [gate EXCEPT ![t] = g],
           \/ g.pc = "passed"
           \/ g.pc = "retry_after" /\ g.source = c.source,
           NEW nb \in Seq(Ages), Len(nb) <= SourceLimit,
           buckets' = Collect([buckets EXCEPT ![c.bucket] = nb]),
           UNCHANGED <<shared, store, admitted, seen>>,
           perSource' \in [Sources -> [Ages -> Nat]],
           \A q \in Sources : q # c.source => perSource'[q] = perSource[q],
           NEW X, \A y \in X : y[1] = c.read,
           \A y \in Tickets(perSource'[c.source], SourceLimit) : y \in Spent(c.source) \/ y \in X,
           \A U \in SUBSET Numbered : Accounts(buckets[c.bucket], U) => Accounts(nb, U \cup X)
    PROVE  LimiterInv'
  <1> DEFINE p == c.source
  <1>0. /\ MaxDelay \in Nat /\ SourceLimit \in Nat
        /\ c.bucket \in BucketIds
        /\ \A i \in 1..Len(store) : store[i].source \in Sources /\ store[i].bucket \in BucketIds
    BY TypedFacts, LimiterAssumption DEF LimiterInv, GateType
  <1>1. /\ p \in Sources
        /\ \A i \in 1..Len(store) : store[i].bucket = c.bucket => store[i].source = p
        /\ seen[p] <= Since(c)
        /\ \/ \E i \in 1..Len(store) : store[i].source = p /\ store[i].bucket = c.bucket
           \/ Crowd(p, Since(c))
    <2>1. c.pc \in Holding
      BY DEF Holding
    <2> QED BY <2>1 DEF LimiterInv, GateInv
  <1>1a. Since(c) = Back(c.read)
    BY DEF Since
  <1>2. ASSUME NEW v, NEW a PROVE Crowd(v, a)' <=> Crowd(v, a)
    BY DEF Crowd
  <1>3. \A b \in BucketIds :
           /\ b \in InUse(store, gate)' => buckets'[b] = IF b = c.bucket THEN nb ELSE buckets[b]
           /\ b \notin InUse(store, gate)' => buckets'[b] = <<>>
    <2>1. InUse(store, gate)' = InUse(store', gate')
      BY DEF InUse
    <2>2. buckets \in [BucketIds -> Seq(Ages)]
      BY DEF LimiterInv, LimiterTypeOK
    <2>3. \A b \in BucketIds :
             [buckets EXCEPT ![c.bucket] = nb][b] = IF b = c.bucket THEN nb ELSE buckets[b]
      BY <2>2
    <2>4. \A b \in BucketIds : buckets'[b] =
             IF b \in InUse(store', gate') THEN [buckets EXCEPT ![c.bucket] = nb][b] ELSE <<>>
      BY DEF Collect
    <2> QED BY <2>1, <2>3, <2>4
  <1>4. LimiterTypeOK'
    <2>1. /\ <<>> \in Seq(Ages)
          /\ \A b \in BucketIds : buckets[b] \in Seq(Ages)
      BY DEF LimiterInv, LimiterTypeOK
    <2>2. \A b \in BucketIds : buckets'[b] \in Seq(Ages)
      BY <1>3, <2>1
    <2>3. buckets' = [b \in BucketIds |-> buckets'[b]]
      BY DEF Collect
    <2>4. buckets' \in [BucketIds -> Seq(Ages)]
      BY <2>2, <2>3
    <2>5. gate' \in [Threads -> GateType]
      BY DEF LimiterInv, LimiterTypeOK
    <2> QED BY <2>4, <2>5 DEF LimiterInv, LimiterTypeOK
  <1>5. SharedInv' /\ StoreInv'
    BY DEF LimiterInv, SharedInv, StoreInv, StoredOnce
  <1>6. GateInv'
    <2> SUFFICES ASSUME NEW u \in Threads
                 PROVE  (/\ gate[u].pc \in Holding \cup {"retry_after"} => gate[u].source \in Sources
                         /\ gate[u].pc \in Timed => gate[u].read <= MaxDelay
                         /\ gate[u].pc \in Holding =>
                              /\ \A i \in 1..Len(store) :
                                    store[i].bucket = gate[u].bucket => store[i].source = gate[u].source
                              /\ seen[gate[u].source] <= Since(gate[u])
                              /\ \/ \E i \in 1..Len(store) : /\ store[i].source = gate[u].source
                                                             /\ store[i].bucket = gate[u].bucket
                                 \/ Crowd(gate[u].source, Since(gate[u])))'
      BY DEF GateInv
    <2>1. CASE u = t
      <3>1. gate'[u] = g
        BY <2>1 DEF LimiterInv, LimiterTypeOK
      <3> QED BY <1>0, <1>1, <3>1 DEF Holding, Timed
    <2>2. CASE u # t
      <3>1. PICK d : d = gate[u]
        OBVIOUS
      <3>2. gate'[u] = d
        BY <2>2, <3>1 DEF LimiterInv, LimiterTypeOK
      <3>3. /\ d.pc \in Holding \cup {"retry_after"} => d.source \in Sources
            /\ d.pc \in Timed => d.read <= MaxDelay
            /\ d.pc \in Holding =>
                 /\ \A i \in 1..Len(store) : store[i].bucket = d.bucket => store[i].source = d.source
                 /\ seen[d.source] <= Since(d)
                 /\ \/ \E i \in 1..Len(store) : store[i].source = d.source /\ store[i].bucket = d.bucket
                    \/ Crowd(d.source, Since(d))
        BY <3>1 DEF LimiterInv, GateInv
      <3>4. Crowd(d.source, Since(d))' <=> Crowd(d.source, Since(d))
        BY <1>2
      <3>5. Since(gate[u])' = Since(d)
        BY <3>2 DEF Since, Back
      <3> QED BY <3>2, <3>3, <3>4, <3>5
    <2> QED BY <2>1, <2>2
  <1>7. WindowInv'
    <2>1. Len(<<>>) = 0
      OBVIOUS
    <2>2. ASSUME NEW b \in BucketIds PROVE Len(buckets'[b]) <= SourceLimit
      <3>1. Len(buckets[b]) <= SourceLimit
        BY DEF LimiterInv, WindowInv
      <3>2. buckets'[b] = nb \/ buckets'[b] = buckets[b] \/ buckets'[b] = <<>>
        BY <1>3
      <3> QED BY <1>0, <2>1, <3>1, <3>2
    <2>3. \A b \in BucketIds \ InUse(store, gate)' : buckets'[b] = <<>>
      BY <1>3
    <2>4. BucketIds' = BucketIds
      BY DEF BucketIds
    <2> QED BY <2>2, <2>3, <2>4 DEF WindowInv
  <1>8. SpentInv'
    <2> SUFFICES ASSUME NEW q \in Sources
                 PROVE  (/\ \A x \in Spent(q) : seen[q] <= Back(x[1])
                         /\ \A i \in 1..Len(store) : store[i].source = q =>
                               Accounts(buckets[store[i].bucket], {x \in Spent(q) : ~Crowd(q, Back(x[1]))})
                         /\ Stored(q) = {} => \A x \in Spent(q) : Crowd(q, Back(x[1])))'
      BY DEF SpentInv
    <2>1. PICK T : T = Spent(q)
      OBVIOUS
    <2>2. PICK T2 : T2 = Tickets(perSource'[q], SourceLimit)
      OBVIOUS
    <2>3. Spent(q)' = T2
      BY <2>2 DEF Spent
    <2>4. PICK free : free = {x \in T : ~Crowd(q, Back(x[1]))}
      OBVIOUS
    <2>5. PICK free2 : free2 = {x \in T2 : ~Crowd(q, Back(x[1]))'}
      OBVIOUS
    <2>6. /\ \A x \in T : seen[q] <= Back(x[1])
          /\ \A i \in 1..Len(store) : store[i].source = q => Accounts(buckets[store[i].bucket], free)
          /\ Stored(q) = {} => \A x \in T : Crowd(q, Back(x[1]))
      BY <2>1, <2>4 DEF LimiterInv, SpentInv
    <2>7. Stored(q)' = Stored(q)
      BY DEF Stored
    <2>8. \A i \in 1..Len(store) :
             buckets'[store[i].bucket] = IF store[i].bucket = c.bucket THEN nb
                                         ELSE buckets[store[i].bucket]
      <3> SUFFICES ASSUME NEW i \in 1..Len(store)
                   PROVE  buckets'[store[i].bucket] = IF store[i].bucket = c.bucket THEN nb
                                                      ELSE buckets[store[i].bucket]
        OBVIOUS
      <3>1. store[i].bucket \in InUse(store, gate)'
        BY DEF InUse
      <3> QED BY <1>0, <1>3, <3>1
    <2>9. free \in SUBSET Numbered
      <3>1. T \in SUBSET Numbered
        BY <1>0, <2>1, TicketsNumbered DEF Spent
      <3> QED BY <2>4, <3>1
    <2>10. CASE q # p
      <3>1. T2 = T
        BY <2>1, <2>2, <2>10 DEF Spent
      <3>2. free2 = free
        BY <1>2, <2>4, <2>5, <3>1
      <3>3. \A i \in 1..Len(store) : store[i].source = q => store[i].bucket # c.bucket
        BY <1>1, <2>10
      <3>4. \A i \in 1..Len(store) : store[i].source = q => Accounts(buckets'[store[i].bucket], free2)
        BY <2>6, <2>8, <3>2, <3>3
      <3>5. Stored(q)' = {} => \A x \in T2 : Crowd(q, Back(x[1]))'
        BY <1>2, <2>6, <2>7, <3>1
      <3> QED BY <2>3, <2>5, <2>6, <3>1, <3>4, <3>5
    <2>11. CASE q = p
      <3>1. \A x \in T2 : x \in T \/ (x \in X /\ Back(x[1]) = Since(c))
        BY <1>1a, <2>1, <2>2, <2>11
      <3>2. \A x \in T2 : seen[q] <= Back(x[1])
        BY <1>1, <2>6, <2>11, <3>1
      <3>3. free2 \in SUBSET (free \cup X)
        BY <1>2, <2>4, <2>5, <3>1
      <3>4. Crowd(p, Since(c)) => free2 \in SUBSET free
        BY <1>2, <2>4, <2>5, <2>11, <3>1
      <3>5. ASSUME NEW i \in 1..Len(store), store[i].source = q
            PROVE  Accounts(buckets'[store[i].bucket], free2)
        <4>1. Accounts(buckets[store[i].bucket], free)
          BY <2>6, <3>5
        <4>2. CASE store[i].bucket = c.bucket
          <5>1. Accounts(nb, free \cup X)
            BY <2>9, <4>1, <4>2
          <5>2. Accounts(nb, free2)
            BY <3>3, <5>1, AccountsSubset
          <5> QED BY <2>8, <4>2, <5>2
        <4>3. CASE store[i].bucket # c.bucket
          <5>1. \A k \in 1..Len(store) : store[k].source = p => k = i
            BY <2>11, <3>5 DEF LimiterInv, StoreInv, StoredOnce
          <5>2. Crowd(p, Since(c))
            BY <1>1, <4>3, <5>1
          <5>3. Accounts(buckets[store[i].bucket], free2)
            BY <3>4, <4>1, <5>2, AccountsSubset
          <5> QED BY <2>8, <4>3, <5>3
        <4> QED BY <4>2, <4>3
      <3>6. ASSUME Stored(q)' = {}, NEW x \in T2 PROVE Crowd(q, Back(x[1]))'
        <4>1. Stored(q) = {}
          BY <2>7, <3>6
        <4>2. Crowd(p, Since(c))
          BY <1>1, <2>11, <4>1 DEF Stored
        <4> QED BY <1>2, <2>6, <2>11, <3>1, <4>1, <4>2
      <3> QED BY <2>3, <2>5, <3>2, <3>5, <3>6
    <2> QED BY <2>10, <2>11
  <1> QED BY <1>4, <1>5, <1>6, <1>7, <1>8 DEF LimiterInv

LEMMA CheckSourceKeeps ==
    ASSUME LimiterInv, NEW t \in Threads, CheckSource(t)
    PROVE  LimiterInv'
  <1>1. PICK c \in GateType : c = gate[t]
    BY DEF LimiterInv, LimiterTypeOK
  <1>2. /\ c.pc = "source" /\ c.bucket \in BucketIds /\ c.read \in Ages /\ c.read \in Nat
        /\ c.source \in Sources
    BY <1>1, AgeFacts DEF CheckSource, GateType, LimiterInv, GateInv, Holding
  <1>3. SourceLimit \in Nat /\ Cardinality(Threads) \in Nat /\ Capacity \in Nat \ {0}
    BY LimiterAssumption, FS_CardinalityType
  <1>4. PICK old \in Seq(Ages) : old = buckets[c.bucket] /\ Len(old) <= SourceLimit
    BY <1>2 DEF LimiterInv, LimiterTypeOK, WindowInv
  <1>5. PICK ev \in Seq(Ages) : ev = Prune(old, c.read) /\ Len(ev) <= Len(old)
    <2>1. PICK k \in 0..Len(old) :
             /\ Prune(old, c.read) \in Seq(Ages)
             /\ Len(Prune(old, c.read)) = Len(old) - k
      BY <1>2, PruneLemma
    <2>2. Len(Prune(old, c.read)) <= Len(old)
      BY <2>1
    <2> QED BY <2>1, <2>2
  <1>6. \A U \in SUBSET Numbered : Accounts(old, U) => Accounts(ev, U)
    BY <1>2, <1>5, AccountsPrune
  <1>7. 1 \in BucketIds /\ 0 \in Ages
    BY <1>3, AgeFacts DEF BucketIds
  <1>8. perSource \in [Sources -> [Ages -> Nat]]
    BY DEF LimiterInv, LimiterTypeOK
  <1>9. UNCHANGED <<shared, store, admitted, seen>>
    BY DEF CheckSource
  <1>10. CASE HasRoom(old, c.read, SourceLimit)
    <2> DEFINE x == <<c.read, perSource[c.source][c.read] + 1>>
    <2>1. PICK g : g = [IdleGate EXCEPT !.pc = "passed"]
      OBVIOUS
    <2>2. g \in GateType /\ g.pc = "passed"
      BY <1>7, <2>1 DEF IdleGate, GateType
    <2>3. PICK nb : nb = Append(ev, c.read)
      OBVIOUS
    <2>4. nb \in Seq(Ages) /\ Len(nb) <= SourceLimit
      <3>1. Len(ev) < SourceLimit
        BY <1>5, <1>10 DEF HasRoom
      <3> QED BY <1>2, <1>3, <2>3, <3>1
    <2>5. /\ gate' = [gate EXCEPT ![t] = g]
          /\ buckets' = Collect([buckets EXCEPT ![c.bucket] = nb])
          /\ perSource' = [perSource EXCEPT ![c.source] = Log(perSource[c.source], c.read, SourceLimit)]
      BY <1>1, <1>4, <1>5, <1>10, <2>1, <2>3 DEF CheckSource
    <2>6. perSource[c.source] \in [Ages -> Nat]
      BY <1>2, <1>8
    <2>7. /\ Log(perSource[c.source], c.read, SourceLimit) \in [Ages -> Nat]
          /\ \A y \in Tickets(Log(perSource[c.source], c.read, SourceLimit), SourceLimit) :
                y \in Tickets(perSource[c.source], SourceLimit) \/ y = x
      BY <1>2, <1>3, <2>6, LogLemma
    <2>8. /\ perSource' \in [Sources -> [Ages -> Nat]]
          /\ \A q \in Sources : q # c.source => perSource'[q] = perSource[q]
          /\ perSource'[c.source] = Log(perSource[c.source], c.read, SourceLimit)
      BY <1>2, <1>8, <2>5, <2>7
    <2>9. PICK X : X = {x}
      OBVIOUS
    <2>10. \A y \in X : y[1] = c.read
      BY <2>9
    <2>11. \A y \in Tickets(perSource'[c.source], SourceLimit) : y \in Spent(c.source) \/ y \in X
      BY <2>7, <2>8, <2>9 DEF Spent
    <2>12. ASSUME NEW U \in SUBSET Numbered, Accounts(old, U) PROVE Accounts(nb, U \cup X)
      <3>1. Accounts(ev, U)
        BY <1>6, <2>12
      <3>2. x[1] = c.read
        OBVIOUS
      <3> HIDE DEF x
      <3>3. Accounts(Append(ev, x[1]), U \cup {x})
        BY <1>2, <3>1, <3>2, AccountsAppend
      <3> QED BY <2>3, <2>9, <3>2, <3>3
    <2>13. \A U \in SUBSET Numbered : Accounts(buckets[c.bucket], U) => Accounts(nb, U \cup X)
      BY <1>4, <2>12
    <2> HIDE DEF x
    <2>14. gate' = [gate EXCEPT ![t] = g] /\ buckets' = Collect([buckets EXCEPT ![c.bucket] = nb])
      BY <2>5
    <2>15. /\ perSource' \in [Sources -> [Ages -> Nat]]
           /\ \A q \in Sources : q # c.source => perSource'[q] = perSource[q]
      BY <2>8
    <2>16. c.pc = "source"
      BY <1>2
    <2> QED BY <1>1, <1>9, <2>2, <2>4, <2>10, <2>11, <2>13, <2>14, <2>15, <2>16, WindowKeeps
  <1>11. CASE ~HasRoom(old, c.read, SourceLimit)
    <2>1. PICK g : g = [IdleGate EXCEPT !.pc = "retry_after", !.source = c.source]
      OBVIOUS
    <2>2. g \in GateType /\ g.pc = "retry_after" /\ g.source = c.source
      BY <1>2, <1>7, <2>1 DEF IdleGate, GateType
    <2>3. /\ gate' = [gate EXCEPT ![t] = g]
          /\ buckets' = Collect([buckets EXCEPT ![c.bucket] = ev])
          /\ perSource' = perSource
      BY <1>1, <1>4, <1>5, <1>11, <2>1 DEF CheckSource
    <2>4. Len(ev) <= SourceLimit
      BY <1>3, <1>4, <1>5
    <2>5. PICK X : X = {}
      OBVIOUS
    <2>6. /\ \A y \in X : y[1] = c.read
          /\ \A y \in Tickets(perSource'[c.source], SourceLimit) : y \in Spent(c.source) \/ y \in X
          /\ perSource' \in [Sources -> [Ages -> Nat]]
          /\ \A q \in Sources : q # c.source => perSource'[q] = perSource[q]
      BY <1>8, <2>3, <2>5 DEF Spent
    <2>7. \A U : U \cup X = U
      BY <2>5
    <2>8. \A U \in SUBSET Numbered : Accounts(buckets[c.bucket], U) => Accounts(ev, U \cup X)
      BY <1>4, <1>6, <2>7
    <2> QED BY <1>1, <1>2, <1>9, <2>2, <2>3, <2>4, <2>6, <2>8, WindowKeeps
  <1> QED BY <1>10, <1>11

(* A step that moves a request outside the store leaves the rest alone.    *)
LEMMA MoveOutside ==
    ASSUME LimiterInv, NEW t \in Threads, gate[t].pc \notin Holding,
           NEW g \in GateType, gate' = [gate EXCEPT ![t] = g],
           g.pc \in {"idle", "admitted"} \/ (g.pc = "shared" /\ g.read = 0),
           UNCHANGED <<buckets, store, perSource, seen>>
    PROVE  /\ gate' \in [Threads -> GateType]
           /\ StoreInv' /\ GateInv' /\ WindowInv' /\ SpentInv'
  <1>0. gate \in [Threads -> GateType]
    BY DEF LimiterInv, LimiterTypeOK
  <1>1. gate' \in [Threads -> GateType] /\ \A u \in Threads : gate'[u] = IF u = t THEN g ELSE gate[u]
    BY <1>0
  <1>2. ASSUME NEW v, NEW a PROVE Crowd(v, a)' <=> Crowd(v, a)
    BY DEF Crowd
  <1>3. StoreInv'
    BY DEF LimiterInv, StoreInv, StoredOnce
  <1>4. GateInv'
    <2> SUFFICES ASSUME NEW u \in Threads
                 PROVE  (/\ gate[u].pc \in Holding \cup {"retry_after"} => gate[u].source \in Sources
                         /\ gate[u].pc \in Timed => gate[u].read <= MaxDelay
                         /\ gate[u].pc \in Holding =>
                              /\ \A i \in 1..Len(store) :
                                    store[i].bucket = gate[u].bucket => store[i].source = gate[u].source
                              /\ seen[gate[u].source] <= Since(gate[u])
                              /\ \/ \E i \in 1..Len(store) : /\ store[i].source = gate[u].source
                                                             /\ store[i].bucket = gate[u].bucket
                                 \/ Crowd(gate[u].source, Since(gate[u])))'
      BY DEF GateInv
    <2>1. CASE u = t
      BY <1>1, <2>1, AgeFacts DEF Holding, Timed
    <2>2. CASE u # t
      <3>1. PICK d : d = gate[u]
        OBVIOUS
      <3>2. gate'[u] = d
        BY <1>1, <2>2, <3>1
      <3>3. /\ d.pc \in Holding \cup {"retry_after"} => d.source \in Sources
            /\ d.pc \in Timed => d.read <= MaxDelay
            /\ d.pc \in Holding =>
                 /\ \A i \in 1..Len(store) : store[i].bucket = d.bucket => store[i].source = d.source
                 /\ seen[d.source] <= Since(d)
                 /\ \/ \E i \in 1..Len(store) : store[i].source = d.source /\ store[i].bucket = d.bucket
                    \/ Crowd(d.source, Since(d))
        BY <3>1 DEF LimiterInv, GateInv
      <3>4. Crowd(d.source, Since(d))' <=> Crowd(d.source, Since(d))
        BY <1>2
      <3>5. Since(gate[u])' = Since(d)
        BY <3>2 DEF Since, Back
      <3> QED BY <3>2, <3>3, <3>4, <3>5
    <2> QED BY <2>1, <2>2
  <1>5. InUse(store, gate)' = InUse(store, gate)
    <2>1. {u \in Threads : gate'[u].pc \in Holding} = {u \in Threads : gate[u].pc \in Holding}
      BY <1>1 DEF Holding
    <2>2. \A u \in Threads : gate[u].pc \in Holding => gate'[u] = gate[u]
      BY <1>1
    <2>3. {gate'[u].bucket : u \in {v \in Threads : gate'[v].pc \in Holding}}
             = {gate[u].bucket : u \in {v \in Threads : gate[v].pc \in Holding}}
      BY <2>1, <2>2
    <2> QED BY <2>3 DEF InUse
  <1>6. WindowInv'
    BY <1>5 DEF LimiterInv, WindowInv
  <1>7. SpentInv'
    <2> SUFFICES ASSUME NEW q \in Sources
                 PROVE  (/\ \A x \in Spent(q) : seen[q] <= Back(x[1])
                         /\ \A i \in 1..Len(store) : store[i].source = q =>
                               Accounts(buckets[store[i].bucket], {x \in Spent(q) : ~Crowd(q, Back(x[1]))})
                         /\ Stored(q) = {} => \A x \in Spent(q) : Crowd(q, Back(x[1])))'
      BY DEF SpentInv
    <2>1. Spent(q)' = Spent(q) /\ Stored(q)' = Stored(q)
      BY DEF Spent, Stored
    <2>2. PICK free : free = {x \in Spent(q) : ~Crowd(q, Back(x[1]))}
      OBVIOUS
    <2>3. {x \in Spent(q)' : ~Crowd(q, Back(x[1]))'} = free
      BY <1>2, <2>1, <2>2
    <2>4. /\ \A x \in Spent(q) : seen[q] <= Back(x[1])
          /\ \A i \in 1..Len(store) : store[i].source = q => Accounts(buckets[store[i].bucket], free)
          /\ Stored(q) = {} => \A x \in Spent(q) : Crowd(q, Back(x[1]))
      BY <2>2 DEF LimiterInv, SpentInv
    <2>5. Stored(q)' = {} => \A x \in Spent(q)' : Crowd(q, Back(x[1]))'
      BY <1>2, <2>1, <2>4
    <2> QED BY <2>1, <2>3, <2>4, <2>5
  <1> QED BY <1>1, <1>3, <1>4, <1>6, <1>7

LEMMA CheckSharedKeeps ==
    ASSUME LimiterInv, NEW t \in Threads, CheckShared(t)
    PROVE  LimiterInv'
  <1>1. PICK c \in GateType : c = gate[t]
    BY DEF LimiterInv, LimiterTypeOK
  <1>2. c.pc = "shared" /\ c.read \in Ages /\ c.read \in Nat
    BY <1>1, AgeFacts DEF CheckShared, GateType
  <1>3. Limit \in Nat /\ Cardinality(Threads) \in Nat /\ Capacity \in Nat \ {0}
    BY LimiterAssumption, FS_CardinalityType
  <1>4. 1 \in BucketIds /\ 0 \in Ages
    BY <1>3, AgeFacts DEF BucketIds
  <1>5. shared \in Seq(Ages) /\ Len(shared) <= Limit /\ admitted \in [Ages -> Nat]
    BY DEF LimiterInv, LimiterTypeOK, SharedInv
  <1>6. PICK ev \in Seq(Ages) : ev = Prune(shared, c.read) /\ Len(ev) <= Len(shared)
    <2>1. PICK k \in 0..Len(shared) :
             /\ Prune(shared, c.read) \in Seq(Ages)
             /\ Len(Prune(shared, c.read)) = Len(shared) - k
      BY <1>2, <1>5, PruneLemma
    <2>2. Len(Prune(shared, c.read)) <= Len(shared)
      BY <1>5, <2>1
    <2> QED BY <2>1, <2>2
  <1>7. PICK T \in SUBSET Numbered : T = Tickets(admitted, Limit)
    BY <1>3, TicketsNumbered
  <1>8. Accounts(ev, T)
    <2>1. Accounts(shared, T)
      BY <1>7 DEF LimiterInv, SharedInv
    <2> QED BY <1>2, <1>5, <1>6, <2>1, AccountsPrune
  <1>9. UNCHANGED <<buckets, store, perSource, seen>>
    BY DEF CheckShared
  <1>10. \E g \in GateType : g.pc \in {"idle", "admitted"} /\ gate' = [gate EXCEPT ![t] = g]
    <2>1. /\ [IdleGate EXCEPT !.pc = "admitted"] \in GateType
          /\ [IdleGate EXCEPT !.pc = "admitted"].pc = "admitted"
          /\ IdleGate \in GateType /\ IdleGate.pc = "idle"
      BY <1>4 DEF IdleGate, GateType
    <2>2. \/ gate' = [gate EXCEPT ![t] = [IdleGate EXCEPT !.pc = "admitted"]]
          \/ gate' = [gate EXCEPT ![t] = IdleGate]
      BY DEF CheckShared
    <2> QED BY <2>1, <2>2
  <1>11. gate' \in [Threads -> GateType] /\ StoreInv' /\ GateInv' /\ WindowInv' /\ SpentInv'
    <2>1. gate[t].pc \notin Holding
      BY <1>1, <1>2 DEF Holding
    <2> QED BY <1>9, <1>10, <2>1, MoveOutside
  <1>12. /\ shared' \in Seq(Ages) /\ Len(shared') <= Limit /\ admitted' \in [Ages -> Nat]
         /\ Accounts(shared', Tickets(admitted', Limit))
    <2>1. CASE SharedRoom(c.read)
      <3> DEFINE x == <<c.read, admitted[c.read] + 1>>
      <3>1. shared' = Append(ev, c.read) /\ admitted' = Log(admitted, c.read, Limit)
        BY <1>1, <1>6, <2>1 DEF CheckShared
      <3>2. Len(ev) < Limit
        BY <1>6, <2>1 DEF SharedRoom, HasRoom
      <3>3. shared' \in Seq(Ages) /\ Len(shared') <= Limit
        BY <1>2, <1>3, <3>1, <3>2
      <3>4. /\ admitted' \in [Ages -> Nat]
            /\ \A y \in Tickets(admitted', Limit) : y \in T \/ y = x
        BY <1>2, <1>3, <1>5, <1>7, <3>1, LogLemma
      <3>5. x[1] = c.read
        OBVIOUS
      <3> HIDE DEF x
      <3>6. Accounts(Append(ev, x[1]), T \cup {x})
        BY <1>2, <1>8, <3>5, AccountsAppend
      <3>7. Accounts(shared', T \cup {x})
        BY <3>1, <3>5, <3>6
      <3>8. Tickets(admitted', Limit) \in SUBSET (T \cup {x})
        BY <3>4
      <3>9. Accounts(shared', Tickets(admitted', Limit))
        BY <3>7, <3>8, AccountsSubset
      <3> QED BY <3>3, <3>4, <3>9
    <2>2. CASE ~SharedRoom(c.read)
      <3>1. shared' = ev /\ admitted' = admitted
        BY <1>1, <1>6, <2>2 DEF CheckShared
      <3>2. Len(ev) <= Limit
        BY <1>3, <1>5, <1>6
      <3> QED BY <1>5, <1>7, <1>8, <3>1, <3>2
    <2> QED BY <2>1, <2>2
  <1>13. SharedInv'
    BY <1>12 DEF SharedInv, Tickets
  <1>14. LimiterTypeOK'
    BY <1>9, <1>11, <1>12 DEF LimiterInv, LimiterTypeOK
  <1> QED BY <1>11, <1>13, <1>14 DEF LimiterInv

-----------------------------------------------------------------------------
(* Time. *)

LEMMA TickKeeps == ASSUME LimiterInv, Tick PROVE LimiterInv'
  <1>0. /\ Window \in Nat /\ MaxDelay \in Nat /\ SourceLimit \in Nat /\ Limit \in Nat
        /\ \A i \in 1..Len(store) : store[i].source \in Sources /\ store[i].bucket \in BucketIds
        /\ \A q \in Sources : seen[q] \in Nat
    BY TypedFacts, LimiterAssumption DEF LimiterInv
  <1>1. ASSUME NEW q \in Sources
        PROVE  seen'[q] = IF seen[q] < Oldest THEN seen[q] + 1 ELSE Oldest
    <2>1. seen'[q] = Older(seen[q]) /\ seen[q] \in Ages
      BY DEF Tick, LimiterInv, LimiterTypeOK
    <2> QED BY <2>1, AgeFacts DEF Older
  <1>2. ASSUME NEW v, NEW a \in Nat, Crowd(v, a) PROVE Crowd(v, a + 1)'
    <2>1. \A q \in Sources : seen[q] <= a => seen'[q] <= a + 1
      BY <1>0, <1>1, AgeFacts
    <2> QED BY <1>2, <2>1, CrowdStays
  <1>3. ASSUME NEW t \in Threads
        PROVE  /\ gate'[t] \in GateType
               /\ gate'[t].pc = gate[t].pc
               /\ gate'[t].source = gate[t].source
               /\ gate'[t].bucket = gate[t].bucket
               /\ gate[t].pc \in Timed =>
                    /\ gate[t].read \in Nat
                    /\ gate'[t].read = gate[t].read + 1
                    /\ gate'[t].read <= MaxDelay
    <2>1. gate[t] \in GateType /\ gate[t].read \in Ages
      BY DEF LimiterInv, LimiterTypeOK, GateType
    <2>2. gate'[t] = IF gate[t].pc \in Timed
                     THEN [gate[t] EXCEPT !.read = Older(@)] ELSE gate[t]
      BY DEF Tick
    <2>3. CASE gate[t].pc \in Timed
      <3>1. gate[t].read < MaxDelay /\ gate[t].read \in Nat
        BY <2>1, <2>3, AgeFacts DEF Tick
      <3>2. Older(gate[t].read) \in Ages /\ Older(gate[t].read) = gate[t].read + 1
        BY <1>0, <2>1, <3>1, OlderLemma
      <3>3. gate'[t] = [gate[t] EXCEPT !.read = Older(gate[t].read)]
        BY <2>2, <2>3
      <3>4. gate[t].read + 1 <= MaxDelay
        BY <1>0, <3>1
      <3> QED BY <2>1, <2>3, <3>1, <3>2, <3>3, <3>4 DEF GateType
    <2>4. CASE gate[t].pc \notin Timed
      BY <2>1, <2>2, <2>4
    <2> QED BY <2>3, <2>4
  <1>4. ASSUME NEW events \in Seq(Ages)
        PROVE  /\ OlderSeq(events) \in Seq(Ages)
               /\ Len(OlderSeq(events)) <= Len(events)
               /\ events = <<>> => OlderSeq(events) = <<>>
    <2>1. PICK k \in 0..Len(events) : /\ OlderSeq(events) \in Seq(Ages)
                                      /\ Len(OlderSeq(events)) = Len(events) - k
      BY OlderSeqLemma
    <2>2. Len(OlderSeq(events)) <= Len(events)
      BY <2>1
    <2>3. events = <<>> => Len(OlderSeq(events)) = 0
      BY <2>1
    <2> QED BY <2>1, <2>2, <2>3, EmptySeq
  <1>5. LimiterTypeOK'
    <2>1. shared' \in Seq(Ages)
      BY <1>4 DEF Tick, LimiterInv, LimiterTypeOK
    <2>2. buckets' \in [BucketIds -> Seq(Ages)]
      BY <1>4 DEF Tick, LimiterInv, LimiterTypeOK
    <2>3. gate' \in [Threads -> GateType]
      <3>1. gate' = [t \in Threads |-> gate'[t]]
        BY DEF Tick
      <3> QED BY <1>3, <3>1
    <2>4. admitted' \in [Ages -> Nat]
      BY <1>0, OlderLogLemma DEF Tick, LimiterInv, LimiterTypeOK
    <2>5. perSource' \in [Sources -> [Ages -> Nat]]
      <3>1. \A q \in Sources : OlderLog(perSource[q]) \in [Ages -> Nat]
        BY <1>0, OlderLogLemma DEF LimiterInv, LimiterTypeOK
      <3> QED BY <3>1 DEF Tick
    <2>6. seen' \in [Sources -> Ages]
      <3>1. \A q \in Sources : seen'[q] \in Ages
        BY <1>0, <1>1, AgeFacts
      <3>2. seen' = [q \in Sources |-> seen'[q]]
        BY DEF Tick
      <3> QED BY <3>1, <3>2
    <2> QED BY <2>1, <2>2, <2>3, <2>4, <2>5, <2>6 DEF Tick, LimiterInv, LimiterTypeOK
  <1>6. SharedInv'
    <2>1. shared \in Seq(Ages) /\ Len(shared) <= Limit /\ admitted \in [Ages -> Nat]
      BY DEF LimiterInv, LimiterTypeOK, SharedInv
    <2>2. PICK T \in SUBSET Numbered : T = Tickets(admitted, Limit)
      BY <1>0, TicketsNumbered
    <2>3. PICK T2 \in SUBSET Numbered : T2 = Tickets(OlderLog(admitted), Limit)
      BY <1>0, TicketsNumbered
    <2>4. \A u \in T2 : u[1] # 0 /\ <<u[1] - 1, u[2]>> \in T
      BY <1>0, <2>1, <2>2, <2>3, OlderLogLemma
    <2>5. Accounts(shared, T)
      BY <2>2 DEF LimiterInv, SharedInv
    <2>6. Accounts(OlderSeq(shared), T2)
      BY <2>1, <2>4, <2>5, AccountsOlder
    <2>7. shared' = OlderSeq(shared) /\ Tickets(admitted, Limit)' = T2
      BY <2>3 DEF Tick, Tickets
    <2>8. Len(shared') <= Limit
      <3>1. /\ OlderSeq(shared) \in Seq(Ages)
            /\ Len(OlderSeq(shared)) <= Len(shared)
        BY <1>4, <2>1
      <3> QED BY <1>0, <2>1, <2>7, <3>1
    <2> QED BY <2>6, <2>7, <2>8 DEF SharedInv
  <1>7. store' = store
    BY DEF Tick
  <1>8. StoreInv'
    <2>1. \A p, q \in Sources : seen[p] <= seen[q] => seen'[p] <= seen'[q]
      BY <1>0, <1>1, AgeFacts
    <2>2. StoredOnce'
      BY <1>7 DEF LimiterInv, StoreInv, StoredOnce
    <2>3. \A i, j \in 1..Len(store) : i < j => seen'[store[j].source] <= seen'[store[i].source]
      BY <1>0, <2>1 DEF LimiterInv, StoreInv
    <2> QED BY <1>7, <2>2, <2>3 DEF LimiterInv, StoreInv
  <1>9. GateInv'
    <2> SUFFICES ASSUME NEW u \in Threads
                 PROVE  (/\ gate[u].pc \in Holding \cup {"retry_after"} => gate[u].source \in Sources
                         /\ gate[u].pc \in Timed => gate[u].read <= MaxDelay
                         /\ gate[u].pc \in Holding =>
                              /\ \A i \in 1..Len(store) :
                                    store[i].bucket = gate[u].bucket => store[i].source = gate[u].source
                              /\ seen[gate[u].source] <= Since(gate[u])
                              /\ \/ \E i \in 1..Len(store) : /\ store[i].source = gate[u].source
                                                             /\ store[i].bucket = gate[u].bucket
                                 \/ Crowd(gate[u].source, Since(gate[u])))'
      BY DEF GateInv
    <2>1. PICK d : d = gate[u]
      OBVIOUS
    <2>2. PICK e : e = gate'[u]
      OBVIOUS
    <2>3. /\ d.pc \in Holding \cup {"retry_after"} => d.source \in Sources
          /\ d.pc \in Holding =>
               /\ \A i \in 1..Len(store) : store[i].bucket = d.bucket => store[i].source = d.source
               /\ seen[d.source] <= Since(d)
               /\ \/ \E i \in 1..Len(store) : store[i].source = d.source /\ store[i].bucket = d.bucket
                  \/ Crowd(d.source, Since(d))
      BY <2>1 DEF LimiterInv, GateInv
    <2>4. /\ e.pc = d.pc /\ e.source = d.source /\ e.bucket = d.bucket
          /\ d.pc \in Timed =>
               d.read \in Nat /\ e.read = d.read + 1 /\ e.read <= MaxDelay
      BY <1>3, <2>1, <2>2
    <2>5. ASSUME d.pc \in Holding
          PROVE  /\ seen'[e.source] <= Since(e)
                 /\ Crowd(d.source, Since(d)) => Crowd(e.source, Since(e))'
      <3>1. /\ d.source \in Sources /\ e.pc = d.pc /\ d.read \in Nat /\ e.read = d.read + 1
            /\ e.source = d.source /\ seen[d.source] <= Since(d)
        BY <2>3, <2>4, <2>5 DEF Holding, Timed
      <3>2. Since(d) \in Nat /\ Since(e) = Since(d) + 1
        BY <3>1, SinceFacts DEF Since
      <3>3. seen'[d.source] <= Since(d) + 1
        BY <1>0, <1>1, <3>1, <3>2, AgeFacts
      <3> QED BY <1>2, <3>1, <3>2, <3>3
    <2>6. Since(gate[u])' = Since(e)
      BY <2>2 DEF Since, Back
    <2> QED BY <1>7, <2>2, <2>3, <2>4, <2>5, <2>6
  <1>10. \A b \in BucketIds : buckets'[b] = OlderSeq(buckets[b]) /\ buckets[b] \in Seq(Ages)
    BY DEF Tick, LimiterInv, LimiterTypeOK
  <1>11. WindowInv'
    <2>1. InUse(store, gate)' = InUse(store, gate)
      <3>1. \A u \in Threads : gate'[u].pc = gate[u].pc /\ gate'[u].bucket = gate[u].bucket
        BY <1>3
      <3>2. {u \in Threads : gate'[u].pc \in Holding} = {u \in Threads : gate[u].pc \in Holding}
        BY <3>1
      <3>3. {gate'[u].bucket : u \in {v \in Threads : gate'[v].pc \in Holding}}
               = {gate[u].bucket : u \in {v \in Threads : gate[v].pc \in Holding}}
        BY <3>1, <3>2
      <3> QED BY <1>7, <3>3 DEF InUse
    <2>2. ASSUME NEW b \in BucketIds PROVE Len(buckets'[b]) <= SourceLimit
      <3>1. Len(buckets[b]) <= SourceLimit
        BY DEF LimiterInv, WindowInv
      <3>2. OlderSeq(buckets[b]) \in Seq(Ages) /\ Len(OlderSeq(buckets[b])) <= Len(buckets[b])
        BY <1>4, <1>10
      <3>3. Len(buckets[b]) \in Nat /\ Len(OlderSeq(buckets[b])) \in Nat
        BY <1>10, <3>2
      <3> QED BY <1>0, <1>10, <3>1, <3>2, <3>3
    <2>3. \A b \in BucketIds \ InUse(store, gate) : buckets'[b] = <<>>
      BY <1>4, <1>10 DEF LimiterInv, WindowInv
    <2>4. BucketIds' = BucketIds
      BY DEF BucketIds
    <2> QED BY <2>1, <2>2, <2>3, <2>4 DEF WindowInv
  <1>12. SpentInv'
    <2> SUFFICES ASSUME NEW q \in Sources
                 PROVE  (/\ \A x \in Spent(q) : seen[q] <= Back(x[1])
                         /\ \A i \in 1..Len(store) : store[i].source = q =>
                               Accounts(buckets[store[i].bucket], {x \in Spent(q) : ~Crowd(q, Back(x[1]))})
                         /\ Stored(q) = {} => \A x \in Spent(q) : Crowd(q, Back(x[1])))'
      BY DEF SpentInv
    <2>1. perSource[q] \in [Ages -> Nat] /\ perSource'[q] = OlderLog(perSource[q])
      BY DEF LimiterInv, LimiterTypeOK, Tick
    <2>2. PICK T \in SUBSET Numbered : T = Spent(q)
      BY <1>0, TicketsNumbered DEF Spent
    <2>3. PICK T2 \in SUBSET Numbered : T2 = Tickets(OlderLog(perSource[q]), SourceLimit)
      BY <1>0, TicketsNumbered
    <2>4. \A u \in T2 : u[1] # 0 /\ <<u[1] - 1, u[2]>> \in T
      BY <1>0, <2>1, <2>2, <2>3, OlderLogLemma DEF Spent
    <2>5. Spent(q)' = T2 /\ Stored(q)' = Stored(q)
      BY <1>7, <2>1, <2>3 DEF Spent, Stored
    <2>6. PICK free : free = {x \in T : ~Crowd(q, Back(x[1]))}
      OBVIOUS
    <2>7. PICK free2 : free2 = {x \in T2 : ~Crowd(q, Back(x[1]))'}
      OBVIOUS
    <2>8. /\ \A x \in T : seen[q] <= Back(x[1])
          /\ \A i \in 1..Len(store) : store[i].source = q => Accounts(buckets[store[i].bucket], free)
          /\ Stored(q) = {} => \A x \in T : Crowd(q, Back(x[1]))
      BY <2>2, <2>6 DEF LimiterInv, SpentInv
    <2>9. ASSUME NEW u \in T2
          PROVE  /\ seen'[q] <= Back(u[1])
                 /\ <<u[1] - 1, u[2]>> \in T
                 /\ u[1] # 0
                 /\ Crowd(q, Back(u[1] - 1)) => Crowd(q, Back(u[1]))'
      <3>1. u[1] \in Nat /\ u[1] # 0
        <4>1. u[1] \in Recent
          BY DEF Numbered
        <4>2. u[1] \in Nat
          BY <4>1, AgeFacts
        <4> QED BY <2>4, <4>2
      <3>2. Back(u[1] - 1) \in Nat /\ Back(u[1] - 1) + 1 = Back(u[1])
        <4>1. u[1] - 1 \in Nat /\ (u[1] - 1) + 1 = u[1]
          BY <3>1
        <4> QED BY <4>1, SinceFacts
      <3>3. <<u[1] - 1, u[2]>> \in T
        BY <2>4
      <3>4. seen[q] <= Back(u[1] - 1)
        BY <2>8, <3>3
      <3>5. seen'[q] <= Back(u[1])
        BY <1>0, <1>1, <3>2, <3>4, AgeFacts
      <3>6. Crowd(q, Back(u[1] - 1)) => Crowd(q, Back(u[1] - 1) + 1)'
        BY <1>2, <3>2
      <3> QED BY <3>1, <3>2, <3>3, <3>5, <3>6
    <2>10. \A u \in free2 : u[1] # 0 /\ <<u[1] - 1, u[2]>> \in free
      <3> SUFFICES ASSUME NEW u \in free2 PROVE u[1] # 0 /\ <<u[1] - 1, u[2]>> \in free
        OBVIOUS
      <3>1. u \in T2 /\ ~Crowd(q, Back(u[1]))'
        BY <2>7
      <3>2. u[1] # 0 /\ <<u[1] - 1, u[2]>> \in T /\ ~Crowd(q, Back(u[1] - 1))
        BY <2>9, <3>1
      <3>3. PICK x : x = <<u[1] - 1, u[2]>>
        OBVIOUS
      <3>4. x \in T /\ x[1] = u[1] - 1
        BY <3>2, <3>3
      <3> QED BY <2>6, <3>2, <3>3, <3>4
    <2>11. free \in SUBSET Numbered /\ free2 \in SUBSET Numbered
      BY <2>6, <2>7
    <2>12. ASSUME NEW i \in 1..Len(store), store[i].source = q
           PROVE  Accounts(buckets'[store[i].bucket], free2)
      <3>1. Accounts(buckets[store[i].bucket], free)
        BY <2>8, <2>12
      <3>2. store[i].bucket \in BucketIds
        BY <1>0
      <3>3. buckets[store[i].bucket] \in Seq(Ages)
        BY <1>10, <3>2
      <3>4. Accounts(OlderSeq(buckets[store[i].bucket]), free2)
        BY <2>10, <2>11, <3>1, <3>3, AccountsOlder
      <3> QED BY <1>10, <3>2, <3>4
    <2>13. ASSUME Stored(q) = {}, NEW u \in T2 PROVE Crowd(q, Back(u[1]))'
      <3>1. PICK x : x = <<u[1] - 1, u[2]>>
        OBVIOUS
      <3>2. x \in T /\ x[1] = u[1] - 1
        BY <2>9, <3>1
      <3>3. Crowd(q, Back(u[1] - 1))
        BY <2>8, <2>13, <3>2
      <3> QED BY <2>9, <3>3
    <2>14. \A u \in T2 : seen'[q] <= Back(u[1])
      BY <2>9
    <2> QED BY <1>7, <2>5, <2>7, <2>12, <2>13, <2>14
  <1> QED BY <1>5, <1>6, <1>8, <1>9, <1>11, <1>12 DEF LimiterInv

-----------------------------------------------------------------------------
(* Every step of admission. *)

AdmissionInv == LimiterInv /\ IdentityInv

LEMMA IdleGateType == IdleGate \in GateType /\ IdleGate.pc = "idle"
  <1>1. Capacity \in Nat \ {0} /\ Cardinality(Threads) \in Nat
    BY LimiterAssumption, FS_CardinalityType
  <1>2. 1 \in BucketIds
    BY <1>1 DEF BucketIds
  <1> QED BY <1>2, AgeFacts DEF IdleGate, GateType

LEMMA MoveKeepsLimits ==
    ASSUME LimiterInv, NEW t \in Threads, gate[t].pc \notin Holding,
           NEW g \in GateType, gate' = [gate EXCEPT ![t] = g],
           g.pc \in {"idle", "admitted"} \/ (g.pc = "shared" /\ g.read = 0),
           UNCHANGED <<shared, buckets, store, admitted, perSource, seen>>
    PROVE  LimiterInv'
  <1>1. gate' \in [Threads -> GateType] /\ StoreInv' /\ GateInv' /\ WindowInv' /\ SpentInv'
    BY MoveOutside
  <1>2. SharedInv'
    BY DEF LimiterInv, SharedInv
  <1>3. LimiterTypeOK'
    BY <1>1 DEF LimiterInv, LimiterTypeOK
  <1> QED BY <1>1, <1>2, <1>3 DEF LimiterInv

(* A request that reads the clock for the window in its hands: its lookup  *)
(* was at most MaxDelay ago.                                               *)
LEMMA ReadingKeeps ==
    ASSUME LimiterInv, NEW t \in Threads, gate[t].pc = "fetched",
           gate' = [gate EXCEPT ![t].pc = "source", ![t].read = 0],
           UNCHANGED <<shared, buckets, store, admitted, perSource, seen>>
    PROVE  LimiterInv'
  <1>0. gate \in [Threads -> GateType] /\ MaxDelay \in Nat /\ 0 \in Ages
    BY AgeFacts DEF LimiterInv, LimiterTypeOK
  <1>1. PICK c \in GateType : c = gate[t]
    BY <1>0
  <1>2. PICK g : g = [c EXCEPT !.pc = "source", !.read = 0]
    OBVIOUS
  <1>3. /\ g \in GateType /\ g.pc = "source" /\ g.read = 0
        /\ g.source = c.source /\ g.bucket = c.bucket /\ c.pc = "fetched"
    BY <1>0, <1>1, <1>2 DEF GateType
  <1>4. gate' \in [Threads -> GateType] /\ \A u \in Threads : gate'[u] = IF u = t THEN g ELSE gate[u]
    BY <1>0, <1>1, <1>2, <1>3
  <1>5. ASSUME NEW v, NEW a PROVE Crowd(v, a)' <=> Crowd(v, a)
    BY DEF Crowd
  <1>6. StoreInv' /\ SharedInv' /\ LimiterTypeOK'
    BY <1>4 DEF LimiterInv, StoreInv, StoredOnce, SharedInv, LimiterTypeOK
  <1>7. GateInv'
    <2> SUFFICES ASSUME NEW u \in Threads
                 PROVE  (/\ gate[u].pc \in Holding \cup {"retry_after"} => gate[u].source \in Sources
                         /\ gate[u].pc \in Timed => gate[u].read <= MaxDelay
                         /\ gate[u].pc \in Holding =>
                              /\ \A i \in 1..Len(store) :
                                    store[i].bucket = gate[u].bucket => store[i].source = gate[u].source
                              /\ seen[gate[u].source] <= Since(gate[u])
                              /\ \/ \E i \in 1..Len(store) : /\ store[i].source = gate[u].source
                                                             /\ store[i].bucket = gate[u].bucket
                                 \/ Crowd(gate[u].source, Since(gate[u])))'
      BY DEF GateInv
    <2>1. PICK d : d = gate[u]
      OBVIOUS
    <2>2. PICK e : e = gate'[u]
      OBVIOUS
    <2>3. /\ d.pc \in Holding \cup {"retry_after"} => d.source \in Sources
          /\ d.pc \in Timed => d.read <= MaxDelay
          /\ d.pc \in Holding =>
               /\ \A i \in 1..Len(store) : store[i].bucket = d.bucket => store[i].source = d.source
               /\ seen[d.source] <= Since(d)
               /\ \/ \E i \in 1..Len(store) : store[i].source = d.source /\ store[i].bucket = d.bucket
                  \/ Crowd(d.source, Since(d))
      BY <2>1 DEF LimiterInv, GateInv
    <2>4. Since(gate[u])' = Since(e)
      BY <2>2 DEF Since, Back
    <2>5. CASE u # t
      <3>1. e = d
        BY <1>4, <2>1, <2>2, <2>5
      <3>2. Crowd(d.source, Since(d))' <=> Crowd(d.source, Since(d))
        BY <1>5
      <3> QED BY <2>2, <2>3, <2>4, <3>1, <3>2
    <2>6. CASE u = t
      <3>1. /\ d.pc = "fetched" /\ e.pc = "source" /\ e.read = 0 /\ d.read \in Nat
            /\ e.source = d.source /\ e.bucket = d.bucket
        BY <1>1, <1>3, <1>4, <2>1, <2>2, <2>6, SinceFacts
      <3>2. d.pc \in Holding /\ d.pc \in Timed /\ e.pc \in Holding /\ e.pc \in Timed
        BY <3>1 DEF Holding, Timed
      <3>3. /\ Since(d) \in Nat /\ Since(e) \in Nat /\ Since(d) <= Since(e)
        BY <1>0, <2>3, <3>1, <3>2 DEF Since, Back
      <3>4. d.source \in Sources /\ \A q \in Sources : seen[q] \in Nat
        BY <2>3, <3>2, TypedFacts DEF LimiterInv
      <3>5. \A q \in Sources : seen[q] <= Since(d) => seen'[q] <= Since(e)
        BY <3>3, <3>4
      <3>6. Crowd(d.source, Since(d)) => Crowd(d.source, Since(e))'
        BY <3>5, CrowdStays
      <3> QED BY <1>0, <2>2, <2>3, <2>4, <3>1, <3>2, <3>4, <3>5, <3>6
    <2> QED BY <2>5, <2>6
  <1>8. InUse(store, gate)' = InUse(store, gate)
    <2>1. \A u \in Threads : /\ gate'[u].bucket = gate[u].bucket
                             /\ gate'[u].pc \in Holding <=> gate[u].pc \in Holding
      BY <1>1, <1>3, <1>4 DEF Holding
    <2>2. {u \in Threads : gate'[u].pc \in Holding} = {u \in Threads : gate[u].pc \in Holding}
      BY <2>1
    <2>3. {gate'[u].bucket : u \in {v \in Threads : gate'[v].pc \in Holding}}
             = {gate[u].bucket : u \in {v \in Threads : gate[v].pc \in Holding}}
      BY <2>1, <2>2
    <2> QED BY <2>3 DEF InUse
  <1>9. WindowInv'
    BY <1>8 DEF LimiterInv, WindowInv
  <1>10. SpentInv'
    BY DEF LimiterInv, SpentInv, Spent, Crowd, Stored
  <1> QED BY <1>6, <1>7, <1>9, <1>10 DEF LimiterInv

LEMMA AdmitKeepsLimits ==
    ASSUME LimiterInv, NEW t \in Threads, AdmitStep(t)
    PROVE  LimiterInv'
  <1>0. gate[t] \in GateType
    BY DEF LimiterInv, LimiterTypeOK
  <1>1. ASSUME NEW s \in Sources, Arrive(t, s) PROVE LimiterInv'
    <2>1. /\ gate[t].pc \notin Holding
          /\ GetOrCreate(s)
          /\ UNCHANGED <<shared, admitted, perSource>>
      BY <1>1 DEF Arrive, Holding
    <2>2. PICK w : w = WindowOf(s)
      OBVIOUS
    <2>3. PICK j \in 1..(Len(store) + 1) : Lookup(t, s, w, j)
      BY <2>1, <2>2, LookupFromGet
    <2>4. PICK g : g = [pc |-> "fetched", source |-> s, bucket |-> w, read |-> 0]
      OBVIOUS
    <2>5. g \in GateType /\ g.pc = "fetched" /\ g.source = s /\ g.bucket = w /\ g.read = 0
      <3>1. w \in BucketIds
        BY <2>3 DEF Lookup
      <3> QED BY <2>4, <3>1, AgeFacts DEF GateType
    <2>6. gate' = [gate EXCEPT ![t] = g]
      BY <1>1, <2>2, <2>4 DEF Arrive
    <2> QED BY <2>1, <2>3, <2>5, <2>6, LookupKeeps
  <1>2. CASE ArriveExempt(t)
    <2>1. PICK g : g = [gate[t] EXCEPT !.pc = "admitted"]
      OBVIOUS
    <2>2. g \in GateType /\ g.pc = "admitted"
      BY <1>0, <2>1 DEF GateType
    <2>3. /\ gate[t].pc \notin Holding /\ gate' = [gate EXCEPT ![t] = g]
          /\ UNCHANGED <<shared, buckets, store, admitted, perSource, seen>>
      BY <1>2, <2>1 DEF ArriveExempt, Holding
    <2> QED BY <2>2, <2>3, MoveKeepsLimits
  <1>3. CASE CheckSource(t)
    BY <1>3, CheckSourceKeeps
  <1>4. CASE RetryAfter(t)
    <2>1. PICK s : s = gate[t].source
      OBVIOUS
    <2>2. /\ gate[t].pc \notin Holding /\ s \in Sources
          /\ GetOrCreate(s)
          /\ gate' = [gate EXCEPT ![t] = IdleGate]
          /\ UNCHANGED <<shared, admitted, perSource>>
      BY <1>4, <2>1 DEF RetryAfter, LimiterInv, GateInv, Holding
    <2>3. PICK w : w = WindowOf(s)
      OBVIOUS
    <2>4. PICK j \in 1..(Len(store) + 1) : Lookup(t, s, w, j)
      BY <2>2, <2>3, LookupFromGet
    <2> QED BY <2>2, <2>4, IdleGateType, LookupKeeps
  <1>5. CASE CheckShared(t)
    BY <1>5, CheckSharedKeeps
  <1>6. CASE ReadClock(t)
    <2>1. UNCHANGED <<shared, buckets, store, admitted, perSource, seen>>
      BY <1>6 DEF ReadClock
    <2>2. CASE gate[t].pc = "fetched" /\ gate' = [gate EXCEPT ![t].pc = "source", ![t].read = 0]
      BY <2>1, <2>2, ReadingKeeps
    <2>3. CASE gate[t].pc = "passed" /\ gate' = [gate EXCEPT ![t].pc = "shared", ![t].read = 0]
      <3>1. PICK g : g = [gate[t] EXCEPT !.pc = "shared", !.read = 0]
        OBVIOUS
      <3>2. g \in GateType /\ g.pc = "shared" /\ g.read = 0
        <4>1. 0 \in Ages
          BY AgeFacts
        <4> QED BY <1>0, <3>1, <4>1 DEF GateType
      <3>3. gate[t].pc \notin Holding /\ gate' = [gate EXCEPT ![t] = g]
        BY <2>3, <3>1 DEF Holding, LimiterInv, LimiterTypeOK
      <3> QED BY <2>1, <3>2, <3>3, MoveKeepsLimits
    <2> QED BY <1>6, <2>2, <2>3 DEF ReadClock
  <1> QED BY <1>1, <1>2, <1>3, <1>4, <1>5, <1>6 DEF AdmitStep

LEMMA NextAdmission == AdmissionInv /\ [AdmissionNext]_admissionVars => AdmissionInv'
  <1> SUFFICES ASSUME AdmissionInv, [AdmissionNext]_admissionVars PROVE AdmissionInv'
    OBVIOUS
  <1>0. LimiterInv /\ IdentityInv
    BY DEF AdmissionInv
  <1>1. ASSUME UNCHANGED identityVars PROVE IdentityInv'
    BY <1>0, <1>1, NextIdentity
  <1>2. ASSUME UNCHANGED limiterVars PROVE LimiterInv'
    <2> USE <1>0, <1>2 DEF limiterVars, LimiterInv
    <2>1. LimiterTypeOK' /\ SharedInv' /\ StoreInv'
      BY DEF LimiterTypeOK, SharedInv, StoreInv, StoredOnce
    <2>2. WindowInv'
      BY DEF WindowInv, InUse
    <2>3. GateInv'
      BY DEF GateInv, Crowd, Since, Back, Holding, Timed
    <2>4. SpentInv'
      BY DEF SpentInv, Spent, Crowd, Stored
    <2> QED BY <2>1, <2>2, <2>3, <2>4
  <1>3. ASSUME NEW t \in Threads, Admit(t) PROVE AdmissionInv'
    BY <1>0, <1>1, <1>3, AdmitKeepsLimits DEF Admit, AdmissionInv
  <1>4. ASSUME NEW t \in Threads, gate[t].pc = "admitted",
               gate' = [gate EXCEPT ![t] = IdleGate],
               UNCHANGED <<shared, buckets, store, admitted, perSource, seen>>
        PROVE  LimiterInv'
    BY <1>0, <1>4, IdleGateType, MoveKeepsLimits DEF Holding
  <1>5. ASSUME NEW t \in Threads, RefuseAdmitted(t) PROVE AdmissionInv'
    <2>1. LimiterInv'
      BY <1>4, <1>5 DEF RefuseAdmitted
    <2>2. IdentityInv'
      BY <1>1, <1>5 DEF RefuseAdmitted
    <2> QED BY <2>1, <2>2 DEF AdmissionInv
  <1>6. ASSUME NEW t \in Threads, NEW key \in IdentityKeys, Enter(t, key) PROVE AdmissionInv'
    <2>1. LimiterInv'
      BY <1>4, <1>6 DEF Enter
    <2>2. IdentityNext
      BY <1>6, ThreadsAssumption DEF Enter, IdentityNext
    <2>3. IdentityInv'
      BY <1>0, <2>2, NextIdentity
    <2> QED BY <2>1, <2>3 DEF AdmissionInv
  <1>7. ASSUME NEW t \in Threads, Resolve(t) PROVE AdmissionInv'
    <2>1. LimiterInv'
      BY <1>2, <1>7 DEF Resolve
    <2>2. IdentityNext
      BY <1>7, ThreadsAssumption DEF Resolve, IdentityNext
    <2>3. IdentityInv'
      BY <1>0, <2>2, NextIdentity
    <2> QED BY <2>1, <2>3 DEF AdmissionInv
  <1>8. ASSUME Tick, UNCHANGED identityVars PROVE AdmissionInv'
    BY <1>0, <1>1, <1>8, TickKeeps DEF AdmissionInv
  <1>9. CASE UNCHANGED admissionVars
    BY <1>1, <1>2, <1>9 DEF admissionVars, AdmissionInv
  <1> QED BY <1>3, <1>5, <1>6, <1>7, <1>8, <1>9 DEF AdmissionNext

(* Whatever the requests do and however long they take, the windows, the   *)
(* store of addresses and the identity table keep their invariants: every  *)
(* request let through within a window has an event of its own in the      *)
(* shared window, and one in the stored window of its address unless a     *)
(* crowd of Capacity others was looked up since the request's own lookup,  *)
(* which is at most MaxDelay before its reading of the clock.              *)
THEOREM AdmissionInvariant == AdmissionSpec => []AdmissionInv
  <1>1. AdmissionInit => AdmissionInv
    BY LimiterInitInv, InitIdentity DEF AdmissionInit, AdmissionInv
  <1> QED BY <1>1, NextAdmission, PTL DEF AdmissionSpec

(* Every variable of admission stays in its type: the store never exceeds  *)
(* its capacity, and a lookup always finds a window to hand out.           *)
THEOREM AdmissionTypeCorrect == AdmissionSpec => []AdmissionTypeOK
  <1>1. AdmissionInv => AdmissionTypeOK
    BY DEF AdmissionInv, LimiterInv, IdentityInv, AdmissionTypeOK
  <1> QED BY <1>1, AdmissionInvariant, PTL

(* The shared window lets through at most Limit requests that read the     *)
(* clock within a window, however late they use the reading and however    *)
(* many addresses they come from.                                          *)
THEOREM SharedBudgetHolds == AdmissionSpec => []SharedBudget
  <1>1. AdmissionInv => SharedBudget
    BY BudgetsFromInv DEF AdmissionInv
  <1> QED BY <1>1, AdmissionInvariant, PTL

(* An address exceeds its own limit only when Capacity other addresses     *)
(* were looked up within the window and the delay of a request before its  *)
(* reading, with windows evicted under requests that hold them, also       *)
(* before these read the clock.                                            *)
THEOREM OnlyCrowdsResetBudgets == AdmissionSpec => []BudgetLostToCrowdOnly
  <1>1. AdmissionInv => BudgetLostToCrowdOnly
    BY BudgetsFromInv DEF AdmissionInv
  <1> QED BY <1>1, AdmissionInvariant, PTL

(* Payer identities stay apart behind the limiters: no interleaving of     *)
(* admission and resolve_payer_identity gives two payers one userId.       *)
THEOREM AdmittedPayersIsolated == AdmissionSpec => []PayersIsolated
  <1>1. AdmissionInv => PayersIsolated
    BY StoredIsolated DEF AdmissionInv
  <1> QED BY <1>1, AdmissionInvariant, PTL

=============================================================================
