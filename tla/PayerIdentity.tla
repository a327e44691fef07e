---------------------------- MODULE PayerIdentity ----------------------------
(***************************************************************************)
(* resolve_payer_identity: which numeric userId the gateway sees for a     *)
(* payer.  A Telegram user's is its own id; an order without a user gets   *)
(* one derived into a reserved range.  Rows of centralpay_payer_identities *)
(* are inserted by concurrent requests under two UNIQUE constraints.       *)
(*                                                                         *)
(* An insert waits for a conflicting uncommitted one, so flush and commit  *)
(* are one step here; a request that dies in between inserted nothing.     *)
(***************************************************************************)
EXTENDS Naturals, FiniteSets

CONSTANTS
    Requests,       \* concurrent create requests
    TelegramUsers,  \* identity keys tg:<id>
    OrderKeys,      \* identity keys order:<bot_order_id>
    TelegramId,     \* the number of each Telegram user
    Derive,         \* derive_order_gateway_user_id of each order key and attempt
    MaxDerivations, \* _MAX_DERIVATION_ATTEMPTS
    Reserved,       \* the legacy shared CENTRALPAY_USER_ID
    Historical,     \* mapping rows of the retired scheme
    NoKey           \* no request in progress

IdentityKeys == TelegramUsers \cup OrderKeys

ASSUME IdentityAssumption ==
    /\ MaxDerivations \in Nat \ {0}
    /\ NoKey \notin IdentityKeys
    /\ TelegramUsers \cap OrderKeys = {}
    /\ TelegramId \in [TelegramUsers -> Nat]
    /\ Derive \in [OrderKeys -> [0..(MaxDerivations - 1) -> Nat]]

(* Distinct users have distinct ids, and the fallback range is above them. *)
ASSUME RangeAssumption ==
    /\ \A u, v \in TelegramUsers : TelegramId[u] = TelegramId[v] => u = v
    /\ \A u \in TelegramUsers, k \in OrderKeys, n \in 0..(MaxDerivations - 1) :
          TelegramId[u] # Derive[k][n]

(* Retired rows have keys nobody asks for, and ids unique among themselves.*)
ASSUME HistoricalAssumption ==
    /\ \A r \in Historical : r.key \notin IdentityKeys /\ r.id \in Nat /\ r.id # Reserved
    /\ \A r, s \in Historical : r.key = s.key \/ r.id = s.id => r = s

VARIABLES
    mapping,   \* rows of centralpay_payer_identities
    request,   \* each request's progress
    resolved   \* history: payer identities handed to callers

identityVars == <<mapping, request, resolved>>

NoRequest == [pc |-> "idle", key |-> NoKey, attempt |-> 0]

RowsOf(key) == {r \in mapping : r.key = key}

(* The number the request would insert at this attempt. *)
Candidate(c) ==
    IF c.key \in TelegramUsers THEN TelegramId[c.key] ELSE Derive[c.key][c.attempt]

Conflicts(c) == {r \in mapping : r.key = c.key \/ r.id = Candidate(c)}

(* Return a stored row to the caller. *)
Return(h, r) ==
    /\ resolved' = resolved \cup {[key |-> request[h].key, id |-> r.id]}
    /\ request' = [request EXCEPT ![h] = NoRequest]

(* PayerIdentityCollisionError or PayerIdentityAllocationError. *)
Fail(h) ==
    /\ request' = [request EXCEPT ![h] = NoRequest]
    /\ UNCHANGED <<mapping, resolved>>

Start(h, key) ==
    /\ request[h].pc = "idle"
    /\ request' = [request EXCEPT ![h] = [pc |-> "lookup", key |-> key, attempt |-> 0]]
    /\ UNCHANGED <<mapping, resolved>>

LookupFinds(h) ==
    /\ request[h].pc = "lookup"
    /\ \E r \in RowsOf(request[h].key) : Return(h, r)
    /\ UNCHANGED mapping

LookupMisses(h) ==
    /\ request[h].pc = "lookup"
    /\ RowsOf(request[h].key) = {}
    /\ request' = [request EXCEPT ![h].pc = "insert"]
    /\ UNCHANGED <<mapping, resolved>>

(* A Telegram id equal to the shared one fails closed; a derived one is    *)
(* skipped.                                                                *)
MeetReserved(h) ==
    LET c == request[h]
    IN  /\ c.pc = "insert"
        /\ c.attempt < MaxDerivations
        /\ Candidate(c) = Reserved
        /\ request' = [request EXCEPT ![h] = IF c.key \in TelegramUsers THEN NoRequest
                                             ELSE [c EXCEPT !.attempt = @ + 1]]
        /\ UNCHANGED <<mapping, resolved>>

Insert(h) ==
    LET c == request[h]
        row == [key |-> c.key, id |-> Candidate(c)]
    IN  /\ c.pc = "insert"
        /\ c.attempt < MaxDerivations
        /\ Candidate(c) # Reserved
        /\ Conflicts(c) = {}
        /\ mapping' = mapping \cup {row}
        /\ Return(h, row)

(* IntegrityError. *)
InsertConflicts(h) ==
    LET c == request[h]
    IN  /\ c.pc = "insert"
        /\ c.attempt < MaxDerivations
        /\ Candidate(c) # Reserved
        /\ Conflicts(c) # {}
        /\ request' = [request EXCEPT ![h].pc = "recheck"]
        /\ UNCHANGED <<mapping, resolved>>

(* Mutant: whichever row is in the way is taken for the concurrent one. *)
ConcurrentAny(c) == Conflicts(c)

(* The row a concurrent request inserted for the same identity. *)
Concurrent(c) == {r \in Conflicts(c) : r.key = c.key}

RecheckFinds(h) ==
    /\ request[h].pc = "recheck"
    /\ \E r \in Concurrent(request[h]) : Return(h, r)
    /\ UNCHANGED mapping

(* Another identity owns the number: a Telegram user is refused, an order  *)
(* derives again.                                                          *)
RecheckMisses(h) ==
    LET c == request[h]
    IN  /\ c.pc = "recheck"
        /\ Concurrent(c) = {}
        /\ \/ c.key \in TelegramUsers /\ Fail(h)
           \/ /\ c.key \in OrderKeys
              /\ request' = [request EXCEPT ![h].pc = "insert", ![h].attempt = @ + 1]
              /\ UNCHANGED <<mapping, resolved>>

(* All candidates tried, or the request dies. *)
GiveUp(h) ==
    /\ request[h].pc # "idle"
    /\ Fail(h)

IdentityInit ==
    /\ mapping = Historical
    /\ request = [h \in Requests |-> NoRequest]
    /\ resolved = {}

ResolveStep(h) ==
    \/ LookupFinds(h)
    \/ LookupMisses(h)
    \/ MeetReserved(h)
    \/ Insert(h)
    \/ InsertConflicts(h)
    \/ RecheckFinds(h)
    \/ RecheckMisses(h)
    \/ GiveUp(h)

IdentityNext ==
    \E h \in Requests : (\E key \in IdentityKeys : Start(h, key)) \/ ResolveStep(h)

IdentitySpec == IdentityInit /\ [][IdentityNext]_identityVars

-----------------------------------------------------------------------------
(* Properties. *)

RequestType == [pc      : {"idle", "lookup", "insert", "recheck"},
                key     : IdentityKeys \cup {NoKey},
                attempt : 0..MaxDerivations]

IdentityTypeOK ==
    /\ \A r \in mapping : r.id \in Nat
    /\ request \in [Requests -> RequestType]
    /\ \A h \in Requests : request[h].pc # "idle" => request[h].key \in IdentityKeys
    /\ resolved \subseteq [key : IdentityKeys, id : Nat]

(* However requests for the same and for different payers race, collide    *)
(* with retired rows or re-derive: no two payers are ever given the same   *)
(* gateway userId and no payer is ever given two, so no one is shown       *)
(* another's cards; the shared legacy id is given to nobody, and a         *)
(* Telegram user is never given a number that is not his own.              *)
PayersIsolated ==
    /\ \A a, b \in resolved : a.key = b.key <=> a.id = b.id
    /\ \A a \in resolved : a.id # Reserved
    /\ \A a \in resolved : a.key \in TelegramUsers => a.id = TelegramId[a.key]

=============================================================================
