------------------------------- MODULE Limiter -------------------------------
(***************************************************************************)
(* The create-payment rate limiters of one API process: a sliding window   *)
(* shared by everybody, and one per source address in a store that evicts  *)
(* the least recently used address when it is full.  Requests run in a     *)
(* thread pool: each fetches its window object, reads the clock and takes  *)
(* that object's lock in three steps, and reads the clock again for the    *)
(* shared window.                                                          *)
(*                                                                         *)
(* Instants are ages, in ticks since they happened, so time has no end.    *)
(***************************************************************************)
EXTENDS Naturals, FiniteSets, Sequences, FiniteSetsExt

CONSTANTS
    Threads,    \* concurrent requests
    Sources,    \* client addresses
    Limit,      \* RATE_LIMIT_CREATE_PER_MINUTE
    SourceLimit,\* RATE_LIMIT_CREATE_PER_IP_PER_MINUTE
    Capacity,   \* RATE_LIMIT_IP_BUCKET_CAPACITY
    Window,     \* window_seconds, in ticks
    MaxDelay,   \* bound: ticks a request takes to read the clock for a window it
                \*        has fetched, and again to use the reading
    NoSource    \* a free thread

ASSUME LimiterAssumption ==
    /\ Limit \in Nat \ {0} /\ SourceLimit \in Nat \ {0} /\ Capacity \in Nat \ {0}
    /\ Window \in Nat \ {0} /\ MaxDelay \in Nat
    /\ NoSource \notin Sources
    /\ IsFiniteSet(Threads) /\ IsFiniteSet(Sources)

VARIABLES
    shared,     \* _events of the shared window, oldest append first
    buckets,    \* _events of every per-source window object
    store,      \* the store's addresses and their windows, least recently used first
    gate,       \* each request's progress
    admitted,   \* history: how many requests were let through, by clock reading
    perSource,  \* history: the same for each source and its own check
    seen        \* history: when each address was last looked up in the store

limiterVars == <<shared, buckets, store, gate, admitted, perSource, seen>>

(* Window objects in use at once: those stored and those being used. *)
BucketIds == 1..(Capacity + Cardinality(Threads))

(* The oldest instant a stale reading can still tell from a younger one. *)
Oldest == Window + MaxDelay + 1
Ages == 0..Oldest

Older(age) == IF age < Oldest THEN age + 1 ELSE age

IdleGate == [pc |-> "idle", source |-> NoSource, bucket |-> 1, read |-> 0]

GateType == [pc     : {"idle", "fetched", "source", "passed", "shared",
                       "retry_after", "admitted"},
             source : Sources \cup {NoSource},
             bucket : BucketIds,
             read   : Ages]     \* age of the clock reading; when fetched, of the lookup

(* A request with a window object of its source in hand; one that has      *)
(* fetched something or read the clock, and will use it.                   *)
Holding == {"fetched", "source"}
Timed   == {"fetched", "source", "shared"}

(* Clock readings that a window ending now contains. *)
Recent == 0..Window

(* A count stops once it exceeds the limit. *)
Log(log, read, limit) == [log EXCEPT ![read] = Min({@ + 1, limit + 1})]

LimiterTypeOK ==
    /\ shared \in Seq(Ages)
    /\ buckets \in [BucketIds -> Seq(Ages)]
    /\ store \in Seq([source : Sources, bucket : BucketIds])
    /\ Len(store) <= Capacity
    /\ gate \in [Threads -> GateType]
    /\ admitted \in [Ages -> Nat]
    /\ perSource \in [Sources -> [Ages -> Nat]]
    /\ seen \in [Sources -> Ages]

-----------------------------------------------------------------------------
(* Older than the cutoff of this clock reading. *)
Expired(age, read) == age > Window + read

(* _prune: from the left, up to the first event that has not expired. *)
Prune(events, read) ==
    LET live == {i \in 1..Len(events) : ~Expired(events[i], read)}
    IN  IF live = {} THEN <<>>
        ELSE SubSeq(events, CHOOSE i \in live : \A j \in live : i <= j, Len(events))

HasRoom(events, read, limit) == Len(Prune(events, read)) < limit

(* Mutant: one request too many. *)
SharedRoomOffByOne(read) == HasRoom(shared, read, Limit + 1)

SharedRoom(read) == HasRoom(shared, read, Limit)

(* _get_or_create, under the store's lock. *)
Stored(s) == {i \in 1..Len(store) : store[i].source = s}

(* Mutant: a known address gets a new window as well. *)
ReusableNever(s) == {}

Reusable(s) == {store[i].bucket : i \in Stored(s)}

(* A window neither stored nor in some request's hands is garbage. *)
InUse(st, g) == {st[i].bucket : i \in 1..Len(st)}
                    \cup {g[t].bucket : t \in {u \in Threads : g[u].pc \in Holding}}

Unused == BucketIds \ InUse(store, gate)

Fresh == CHOOSE b \in Unused : \A c \in Unused : b <= c

(* The window of s, moved to the recent end; the rest without it, and      *)
(* without the least recently used one when there is no room.              *)
WindowOf(s) == IF Reusable(s) = {} THEN Fresh ELSE CHOOSE b \in Reusable(s) : TRUE

Others(s) ==
    IF Stored(s) = {} THEN store
    ELSE LET i == CHOOSE i \in Stored(s) : TRUE
         IN  SubSeq(store, 1, i - 1) \o SubSeq(store, i + 1, Len(store))

Crowded(s) == Stored(s) = {} /\ Len(store) >= Capacity

Touched(s) ==
    LET rest == IF Crowded(s) THEN Tail(store) ELSE Others(s)
    IN  Append(rest, [source |-> s, bucket |-> WindowOf(s)])

Collect(bs) == [b \in BucketIds |-> IF b \in InUse(store', gate') THEN bs[b] ELSE <<>>]

GetOrCreate(s) ==
    /\ store' = Touched(s)
    /\ seen' = [seen EXCEPT ![s] = 0]
    /\ buckets' = Collect(buckets)

-----------------------------------------------------------------------------
(* A request that is not a safe replay fetches the window of its source.   *)
(* The store's lock is released before the clock is read.                  *)
Arrive(t, s) ==
    /\ gate[t].pc = "idle"
    /\ gate' = [gate EXCEPT ![t] = [pc |-> "fetched", source |-> s,
                                    bucket |-> WindowOf(s), read |-> 0]]
    /\ GetOrCreate(s)
    /\ UNCHANGED <<shared, admitted, perSource>>

(* allow reads the clock, for the window of the source or for the shared   *)
(* one.                                                                    *)
ReadClock(t) ==
    /\ \/ gate[t].pc = "fetched" /\ gate' = [gate EXCEPT ![t].pc = "source", ![t].read = 0]
       \/ gate[t].pc = "passed" /\ gate' = [gate EXCEPT ![t].pc = "shared", ![t].read = 0]
    /\ UNCHANGED <<shared, buckets, store, admitted, perSource, seen>>

(* Under the window's lock, be it stored or evicted meanwhile. *)
CheckSource(t) ==
    LET g == gate[t]
        events == Prune(buckets[g.bucket], g.read)
    IN  /\ g.pc = "source"
        /\ UNCHANGED <<shared, store, admitted, seen>>
        /\ \/ /\ HasRoom(buckets[g.bucket], g.read, SourceLimit)
              /\ gate' = [gate EXCEPT ![t] = [IdleGate EXCEPT !.pc = "passed"]]
              /\ buckets' = Collect([buckets EXCEPT ![g.bucket] = Append(events, g.read)])
              /\ perSource' = [perSource EXCEPT ![g.source] = Log(@, g.read, SourceLimit)]
           \/ /\ ~HasRoom(buckets[g.bucket], g.read, SourceLimit)
              /\ gate' = [gate EXCEPT ![t] = [IdleGate EXCEPT !.pc = "retry_after",
                                                              !.source = g.source]]
              /\ buckets' = Collect([buckets EXCEPT ![g.bucket] = events])
              /\ UNCHANGED perSource

(* The Retry-After of a refused request looks its window up again.  The    *)
(* pruning it does is the next allow's.                                    *)
RetryAfter(t) ==
    /\ gate[t].pc = "retry_after"
    /\ gate' = [gate EXCEPT ![t] = IdleGate]
    /\ GetOrCreate(gate[t].source)
    /\ UNCHANGED <<shared, admitted, perSource>>

CheckShared(t) ==
    LET g == gate[t]
        events == Prune(shared, g.read)
    IN  /\ g.pc = "shared"
        /\ \/ /\ SharedRoom(g.read)
              /\ shared' = Append(events, g.read)
              /\ admitted' = Log(admitted, g.read, Limit)
              /\ gate' = [gate EXCEPT ![t] = [IdleGate EXCEPT !.pc = "admitted"]]
           \/ /\ ~SharedRoom(g.read)
              /\ shared' = events
              /\ gate' = [gate EXCEPT ![t] = IdleGate]
              /\ UNCHANGED admitted
    /\ UNCHANGED <<buckets, store, perSource, seen>>

(* find_safe_replay_redirect_url found the request exempt. *)
ArriveExempt(t) ==
    /\ gate[t].pc = "idle"
    /\ gate' = [gate EXCEPT ![t].pc = "admitted"]
    /\ UNCHANGED <<shared, buckets, store, admitted, perSource, seen>>

(* One tick later; leading events that every reading would prune leave.    *)
OlderSeq(events) ==
    LET aged == [i \in 1..Len(events) |-> Older(events[i])]
    IN  Prune(aged, MaxDelay)

OlderLog(log) == [a \in Ages |-> IF a = 0 \/ a > Window THEN 0 ELSE log[a - 1]]

Tick ==
    /\ \A t \in Threads : gate[t].pc \in Timed => gate[t].read < MaxDelay
    /\ shared' = OlderSeq(shared)
    /\ buckets' = [b \in BucketIds |-> OlderSeq(buckets[b])]
    /\ gate' = [t \in Threads |->
                  IF gate[t].pc \in Timed
                  THEN [gate[t] EXCEPT !.read = Older(@)] ELSE gate[t]]
    /\ admitted' = OlderLog(admitted)
    /\ perSource' = [s \in Sources |-> OlderLog(perSource[s])]
    /\ seen' = [s \in Sources |-> Older(seen[s])]
    /\ UNCHANGED store

LimiterInit ==
    /\ shared = <<>>
    /\ buckets = [b \in BucketIds |-> <<>>]
    /\ store = <<>>
    /\ gate = [t \in Threads |-> IdleGate]
    /\ admitted = [a \in Ages |-> 0]
    /\ perSource = [s \in Sources |-> [a \in Ages |-> 0]]
    /\ seen = [s \in Sources |-> Oldest]

AdmitStep(t) ==
    \/ \E s \in Sources : Arrive(t, s)
    \/ ArriveExempt(t)
    \/ ReadClock(t)
    \/ CheckSource(t)
    \/ RetryAfter(t)
    \/ CheckShared(t)

-----------------------------------------------------------------------------
(* Properties. *)

(* The n-th request let through on a clock reading, for each of them. *)
Tickets(log, limit) == {t \in Recent \X (1..(limit + 1)) : t[2] <= log[t[1]]}

Within(log, limit) == Cardinality(Tickets(log, limit))

(* No more than Limit requests that read the clock within a window are let *)
(* through in it, from however many addresses, whatever is evicted, and    *)
(* although readings are used late and appended out of order.              *)
SharedBudget == Within(admitted, Limit) <= Limit

(* Eviction resets a source's budget only when a crowd displaces it: when  *)
(* more requests of a source are let through on clock readings of one      *)
(* window than its limit, at least Capacity other addresses were looked up *)
(* since the first of those requests was, that is, within the window and   *)
(* the delay of a request between its lookup and its reading.  A window    *)
(* object that is evicted under a request, even before it reads the clock, *)
(* changes nothing about that.                                             *)
BudgetLostToCrowdOnly ==
    \A s \in Sources :
        Within(perSource[s], SourceLimit) > SourceLimit =>
            Cardinality({q \in Sources \ {s} : seen[q] <= Window + MaxDelay}) >= Capacity

=============================================================================
