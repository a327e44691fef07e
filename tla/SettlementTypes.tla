--------------------------- MODULE SettlementTypes ---------------------------
(***************************************************************************)
(* The money path, for any orders, users, amounts, fee policies, requests, *)
(* reconcilers and limits: what each action does, in the form the proofs   *)
(* of its properties use, and that it keeps the types.                     *)
(***************************************************************************)
EXTENDS Settlement, TLAPS

-----------------------------------------------------------------------------
(* What the building blocks of the actions do. *)

LEMMA FeeLemma ==
    ASSUME NEW amount \in Nat, NEW r \in Rates
    PROVE  Payable(amount, r) \in Nat /\ Payable(amount, r) >= amount
  <1> DEFINE n == amount * r
             f == (n + 5000) \div 10000
  <1>1. r \in Nat
    BY AmountsAssumption
  <1>2. n \in Nat
    BY <1>1
  <1> HIDE DEF n
  <1>3. f \in Nat
    BY <1>2
  <1>4. Payable(amount, r) = amount + f
    BY DEF Payable, FeeAmount, n
  <1> HIDE DEF f
  <1> QED BY <1>3, <1>4

LEMMA BlankTypes ==
    /\ Stranger \in Payers
    /\ BlankLink \in Link
    /\ Idle \in Context
    /\ Unpaid \in Receipt
    /\ NewRecon \in Recon
  <1>1. Stranger \in Payers
    BY DEF Stranger, Payers
  <1>2. BlankLink \in Link
    BY <1>1, BoundsAssumption DEF BlankLink, Link, GatewayIds
  <1>3. Idle \in Context
    BY <1>2 DEF Idle, Context, Keys, Errors
  <1>4. Unpaid \in Receipt
    BY <1>1 DEF Unpaid, Receipt
  <1>5. NewRecon \in Recon
    BY DEF NewRecon, Recon, Errors
  <1> QED BY <1>1, <1>2, <1>3, <1>4, <1>5

LEMMA OfferLemma ==
    ASSUME NEW o \in Orders, NEW l \in Link
    PROVE  /\ LinkOffer(o, l) \in Offer
           /\ LinkOffer(o, l).order = o
           /\ LinkOffer(o, l).gid = l.gid
           /\ LinkOffer(o, l).token = l.token
           /\ LinkOffer(o, l).amount = l.payable
           /\ LinkOffer(o, l).payer = l.payer
  BY DEF LinkOffer, Offer, Link

CtxOK ==
    /\ ctx \in [Procs -> Context]
    /\ \A x \in Procs : ctx[x].pc # "idle" => ctx[x].order \in Orders

LEMMA BecomeLemma ==
    ASSUME CtxOK, NEW x \in Procs, NEW c \in Context,
           c.pc = "idle" \/ c.order \in Orders,
           Become(x, c)
    PROVE  CtxOK' /\ ctx'[x] = c /\ \A y \in Procs \ {x} : ctx'[y] = ctx[y]
  BY DEF CtxOK, Become

LEMMA ReleaseLemma ==
    ASSUME lock \in [Orders -> Procs \cup {NoOne}], NEW x \in Procs, Release(x)
    PROVE  /\ lock' \in [Orders -> Procs \cup {NoOne}]
           /\ \A o \in Orders : lock[o] # x => lock'[o] = lock[o]
  BY DEF Release

LEMMA AcquireLemma ==
    ASSUME lock \in [Orders -> Procs \cup {NoOne}], NEW x \in Procs, NEW o \in Orders,
           Acquire(o, x)
    PROVE  /\ lock' \in [Orders -> Procs \cup {NoOne}]
           /\ lock'[o] = x
           /\ \A q \in Orders \ {o} : lock'[q] = lock[q]
  BY DEF Acquire

LEMMA IdleLemma ==
    ASSUME CtxOK, NEW x \in Procs, Become(x, Idle)
    PROVE  CtxOK' /\ ctx'[x] = Idle /\ \A y \in Procs \ {x} : ctx'[y] = ctx[y]
  BY BecomeLemma, BlankTypes DEF Idle

Claimed(c, n, r) == [c EXCEPT !.attempts = n, !.claimed = r, !.next = "later"]

LEMMA ClaimedLemma ==
    ASSUME NEW c \in Recon, NEW n \in Nat, NEW r \in Reconcilers
    PROVE  Claimed(c, n, r) \in Recon /\ Claimed(c, n, r).attempts = n
  BY DEF Recon, Claimed

LEMMA CommitClaimLemma ==
    ASSUME recon \in [Orders -> Recon], NEW x \in Procs, ctx[x] \in Context,
           ctx[x].order \in Orders, CommitClaim(x)
    PROVE  /\ recon' \in [Orders -> Recon]
           /\ \A q \in Orders : \/ recon'[q].attempts = recon[q].attempts
                                \/ recon'[q].attempts = ctx[x].attempt
  <1>1. CASE x \in Reconcilers
    <2> DEFINE o == ctx[x].order
               d == Claimed(recon[o], ctx[x].attempt, x)
    <2>1. ctx[x].attempt \in Nat /\ recon[o] \in Recon
      BY DEF Context
    <2>2. d \in Recon /\ d.attempts = ctx[x].attempt
      BY <1>1, <2>1, ClaimedLemma
    <2>3. recon' = [recon EXCEPT ![o] = d]
      BY <1>1 DEF CommitClaim, Claimed
    <2> HIDE DEF d
    <2> QED BY <2>2, <2>3
  <1>2. CASE x \notin Reconcilers
    BY <1>2 DEF CommitClaim
  <1> QED BY <1>1, <1>2

Outcomes == {"none", "verified", "under_review", "gateway_not_paid", "transport", "internal"}

LEMMA EndedLemma ==
    ASSUME NEW c \in Context, NEW outcome \in Outcomes
    PROVE  LET d == [c EXCEPT !.pc = "finalize", !.ref = NoRef, !.outcome = outcome]
           IN  /\ d \in Context /\ d.pc = "finalize" /\ d.order = c.order
               /\ d.exempt = c.exempt /\ d.attempt = c.attempt
  BY DEF Context, Outcomes

LEMMA EndAttemptLemma ==
    ASSUME lock \in [Orders -> Procs \cup {NoOne}], CtxOK, NEW x \in Procs,
           ctx[x].order \in Orders, NEW outcome \in Outcomes, EndAttempt(x, outcome)
    PROVE  /\ lock' \in [Orders -> Procs \cup {NoOne}]
           /\ \A o \in Orders : lock[o] # x => lock'[o] = lock[o]
           /\ CtxOK'
           /\ ctx'[x].pc \in {"idle", "finalize"}
           /\ ctx'[x].exempt => ctx[x].exempt
           /\ ctx'[x].attempt \in {0, ctx[x].attempt}
           /\ ctx'[x].pc = "finalize" => x \in Reconcilers
           /\ \A y \in Procs \ {x} : ctx'[y] = ctx[y]
  <1> DEFINE c == [ctx[x] EXCEPT !.pc = "finalize", !.ref = NoRef, !.outcome = outcome]
             d == IF x \in Reconcilers THEN c ELSE Idle
  <1>1. /\ c \in Context /\ c.pc = "finalize" /\ c.order \in Orders
        /\ c.exempt = ctx[x].exempt /\ c.attempt = ctx[x].attempt
    BY EndedLemma DEF CtxOK
  <1>2. Become(x, d) /\ Release(x)
    BY DEF EndAttempt
  <1>3. Idle \in Context /\ Idle.pc = "idle" /\ ~Idle.exempt /\ Idle.attempt = 0
    BY BlankTypes DEF Idle
  <1> HIDE DEF c
  <1>4. /\ d \in Context /\ (d.pc = "idle" \/ d.order \in Orders)
        /\ d.pc \in {"idle", "finalize"} /\ (d.exempt => ctx[x].exempt)
        /\ d.attempt \in {0, ctx[x].attempt}
        /\ d.pc = "finalize" => x \in Reconcilers
    BY <1>1, <1>3
  <1> HIDE DEF d
  <1>5. CtxOK' /\ ctx'[x] = d /\ \A y \in Procs \ {x} : ctx'[y] = ctx[y]
    BY <1>2, <1>4, BecomeLemma
  <1> QED BY <1>2, <1>4, <1>5, ReleaseLemma

(* The contexts the actions build. *)

Replaying(o, key, amount) ==
    [Idle EXCEPT !.pc = "replay", !.order = o, !.key = key, !.amount = amount, !.exempt = TRUE]

LEMMA ReplayingLemma ==
    ASSUME NEW o \in Orders, NEW key \in Keys, NEW amount \in Nat
    PROVE  LET c == Replaying(o, key, amount)
           IN  /\ c \in Context /\ c.pc = "replay" /\ c.order = o /\ c.key = key
               /\ c.amount = amount /\ c.exempt /\ c.attempt = 0
  BY BlankTypes DEF Context, Idle, Replaying

Creating(o, key, amount, exempt, retired) ==
    [Idle EXCEPT !.pc = "create", !.order = o, !.key = key, !.amount = amount,
                 !.exempt = exempt, !.retired = retired]

LEMMA CreatingLemma ==
    ASSUME NEW o \in Orders, NEW key \in Keys,
           NEW amount \in Nat, NEW exempt \in BOOLEAN, NEW retired \in BOOLEAN
    PROVE  LET c == Creating(o, key, amount, exempt, retired)
           IN  /\ c \in Context /\ c.pc = "create" /\ c.order = o /\ c.key = key
               /\ c.amount = amount /\ c.exempt = exempt /\ c.retired = retired
               /\ c.attempt = 0
  BY BlankTypes DEF Context, Idle, Creating

Asking(pc, o) == [Idle EXCEPT !.pc = pc, !.order = o]

LEMMA AskingLemma ==
    ASSUME NEW pc \in {"verify", "inspect"}, NEW o \in Orders
    PROVE  LET c == Asking(pc, o)
           IN  /\ c \in Context /\ c.pc = pc /\ c.order = o
               /\ ~c.exempt /\ c.attempt = 0
  BY BlankTypes DEF Context, Idle, Asking

Polling(o, n, e) == [Idle EXCEPT !.pc = "verify", !.order = o, !.attempt = n, !.error = e]

LEMMA PollingLemma ==
    ASSUME NEW o \in Orders, NEW n \in Nat, NEW e \in Errors
    PROVE  LET c == Polling(o, n, e)
           IN  /\ c \in Context /\ c.pc = "verify" /\ c.order = o
               /\ ~c.exempt /\ c.attempt = n
  BY BlankTypes DEF Context, Idle, Polling

Drafted(c, l) == [c EXCEPT !.pc = "getlink", !.draft = l]

LEMMA DraftedLemma ==
    ASSUME NEW c \in Context, NEW l \in Link
    PROVE  LET d == Drafted(c, l)
           IN  /\ d \in Context /\ d.pc = "getlink" /\ d.order = c.order
               /\ d.key = c.key /\ d.exempt = c.exempt /\ d.attempt = c.attempt
               /\ d.draft = l
  BY DEF Context, Drafted

Confirmed(c, ref) == [c EXCEPT !.pc = "settle", !.ref = ref]

LEMMA ConfirmedLemma ==
    ASSUME NEW c \in Context, NEW ref \in Refs \cup {NoRef}
    PROVE  LET d == Confirmed(c, ref)
           IN  /\ d \in Context /\ d.pc = "settle" /\ d.order = c.order
               /\ d.exempt = c.exempt /\ d.attempt = c.attempt /\ d.ref = ref
  BY DEF Context, Confirmed

(* The links they build. *)

NewLink(amount, payable, key, gid) ==
    [BlankLink EXCEPT !.amount = amount, !.payable = payable,
                      !.payer = CurrentPayer(key), !.gid = gid]

LEMMA CurrentPayerLemma ==
    ASSUME NEW key \in Keys
    PROVE  /\ CurrentPayer(key) \in Payers
           /\ CurrentPayer(key).key = key /\ ~CurrentPayer(key).retired
  BY DEF CurrentPayer, Payers

LEMMA NewLinkLemma ==
    ASSUME NEW amount \in Nat, NEW payable \in Nat, NEW key \in Keys, NEW gid \in GatewayIds
    PROVE  LET l == NewLink(amount, payable, key, gid)
           IN  /\ l \in Link /\ l.amount = amount /\ l.payable = payable
               /\ l.payer = CurrentPayer(key) /\ l.gid = gid /\ l.token = 0 /\ l.url = 0
  BY CurrentPayerLemma, BlankTypes DEF Link, BlankLink, NewLink

Draft(l, p, g, t) == [l EXCEPT !.payer = p, !.gid = g, !.token = t]

LEMMA DraftLemma ==
    ASSUME NEW l \in Link, NEW p \in Payers, NEW g \in GatewayIds, NEW t \in Nat
    PROVE  LET d == Draft(l, p, g, t)
           IN  /\ d \in Link /\ d.amount = l.amount /\ d.payable = l.payable
               /\ d.payer = p /\ d.gid = g /\ d.token = t /\ d.url = l.url
  BY DEF Link, Draft

Live(l) == [l EXCEPT !.url = l.token]

LEMMA LiveLemma ==
    ASSUME NEW l \in Link
    PROVE  /\ Live(l) \in Link /\ Live(l).amount = l.amount /\ Live(l).payable = l.payable
           /\ Live(l).payer = l.payer /\ Live(l).gid = l.gid /\ Live(l).token = l.token
           /\ Live(l).url = l.token
  BY DEF Link, Live

Stored(l) == [l EXCEPT !.token = l.url]

LEMMA StoredLemma ==
    ASSUME NEW l \in Link
    PROVE  /\ Stored(l) \in Link /\ Stored(l).amount = l.amount
           /\ Stored(l).payable = l.payable /\ Stored(l).payer = l.payer
           /\ Stored(l).gid = l.gid /\ Stored(l).token = l.url /\ Stored(l).url = l.url
  BY DEF Link, Stored

-----------------------------------------------------------------------------
(* The effect of each action, and that it keeps the types. *)

Others(x) == \A y \in Procs \ {x} : ctx'[y] = ctx[y]

LEMMA TypeFacts ==
    ASSUME TypeOK
    PROVE  /\ CtxOK
           /\ \A x \in Procs : ctx[x] \in Context
           /\ \A o \in Orders : link[o] \in Link /\ recon[o] \in Recon
  BY DEF TypeOK, CtxOK

LEMMA AdmitReplayEffect ==
    ASSUME TypeOK, NEW h \in Handlers, NEW o \in Orders, NEW key \in Keys,
           NEW amount \in Amounts, AdmitReplay(h, o, key, amount)
    PROVE  /\ TypeOK' /\ Others(h)
           /\ ctx'[h].pc = "replay" /\ ctx'[h].order = o /\ ctx'[h].key = key
           /\ ctx'[h].exempt /\ ctx'[h].attempt = 0
  <1> DEFINE c == Replaying(o, key, amount)
  <1>1. /\ c \in Context /\ c.pc = "replay" /\ c.order = o /\ c.key = key
        /\ c.exempt /\ c.attempt = 0
    BY AmountsAssumption, ReplayingLemma
  <1>b. Become(h, c)
    BY DEF AdmitReplay, Replaying
  <1> HIDE DEF c
  <1>2. CtxOK' /\ ctx'[h] = c /\ Others(h)
    BY <1>1, <1>b, TypeFacts, BecomeLemma DEF Procs, Others
  <1> QED BY <1>1, <1>2 DEF TypeOK, CtxOK, AdmitReplay, rowVars, drawVars, gatewayVars

LEMMA EnsureRowEffect ==
    ASSUME TypeOK, NEW h \in Handlers, NEW o \in Orders, NEW key \in Keys,
           NEW amount \in Nat, NEW exempt \in BOOLEAN, EnsureRow(h, o, key, amount, exempt)
    PROVE  /\ TypeOK' /\ Others(h)
           /\ ctx'[h].pc = "create" /\ ctx'[h].order = o /\ ctx'[h].key = key
           /\ ctx'[h].exempt = exempt /\ ctx'[h].retired = RetiredMatch(o, key)
           /\ ctx'[h].attempt = 0
           /\ known \subseteq known'
           /\ ~RetiredMatch(o, key) => IdentityKey(o, key) \in known'
           /\ \/ /\ status[o] = "absent"
                 /\ status' = [status EXCEPT ![o] = "created"]
                 /\ ids' = ids + 1
                 /\ \E l \in Link : /\ link' = [link EXCEPT ![o] = l]
                                    /\ l.amount = amount /\ l.payable >= amount
                                    /\ l.payer = CurrentPayer(key)
                                    /\ l.gid = ids + 1 /\ l.token = 0 /\ l.url = 0
              \/ status[o] # "absent" /\ UNCHANGED <<status, link, ids>>
           /\ UNCHANGED <<verified, reference, recon, lock, rate, tokens, gatewayVars>>
  <1>1. RetiredMatch(o, key) \in BOOLEAN
    BY TypeFacts DEF RetiredMatch, Link, Payers
  <1> DEFINE c == Creating(o, key, amount, exempt, RetiredMatch(o, key))
  <1>2. /\ c \in Context /\ c.pc = "create" /\ c.order = o /\ c.key = key
        /\ c.exempt = exempt /\ c.retired = RetiredMatch(o, key) /\ c.attempt = 0
    BY <1>1, CreatingLemma
  <1>b. Become(h, c)
    BY DEF EnsureRow, Creating
  <1> HIDE DEF c
  <1>3. CtxOK' /\ ctx'[h] = c /\ Others(h)
    BY <1>2, <1>b, TypeFacts, BecomeLemma DEF Procs, Others
  <1>4. IdentityKey(o, key) \in Users \cup Orders
    BY DEF IdentityKey, Keys
  <1>5. /\ known \subseteq known' /\ known' \subseteq Users \cup Orders
        /\ ~RetiredMatch(o, key) => IdentityKey(o, key) \in known'
    BY <1>4 DEF EnsureRow, TypeOK
  <1>6. CASE status[o] = "absent"
    <2>1. /\ Payable(amount, rate) \in Nat /\ Payable(amount, rate) >= amount
      BY FeeLemma DEF TypeOK
    <2>2. ids < MaxIds /\ ids' = ids + 1 /\ ids' \in GatewayIds
      BY <1>6, BoundsAssumption DEF EnsureRow, TypeOK, GatewayIds
    <2> DEFINE l == NewLink(amount, Payable(amount, rate), key, ids + 1)
    <2>a. link' = [link EXCEPT ![o] = l]
      BY <1>6 DEF EnsureRow, NewLink
    <2>b. /\ l \in Link /\ l.amount = amount /\ l.payable = Payable(amount, rate)
          /\ l.payer = CurrentPayer(key) /\ l.gid = ids + 1 /\ l.token = 0 /\ l.url = 0
      BY <2>1, <2>2, NewLinkLemma
    <2> HIDE DEF l
    <2>3. /\ link' = [link EXCEPT ![o] = l] /\ l \in Link
          /\ l.amount = amount /\ l.payable >= amount
          /\ l.payer = CurrentPayer(key)
          /\ l.gid = ids + 1 /\ l.token = 0 /\ l.url = 0
      BY <2>1, <2>a, <2>b
    <2>4. status' = [status EXCEPT ![o] = "created"]
      BY <1>6 DEF EnsureRow
    <2>5. status' \in [Orders -> PaymentStatus] /\ link' \in [Orders -> Link]
      BY <2>3, <2>4 DEF TypeOK, PaymentStatus
    <2>6. UNCHANGED <<verified, reference, recon, lock, rate, tokens, gatewayVars>>
      BY DEF EnsureRow
    <2>7. TypeOK'
      BY <1>3, <1>5, <2>2, <2>5, <2>6 DEF TypeOK, CtxOK, gatewayVars
    <2> QED BY <1>2, <1>3, <1>5, <1>6, <2>2, <2>3, <2>4, <2>6, <2>7
  <1>7. CASE status[o] # "absent"
    <2>1. UNCHANGED <<status, link, ids, verified, reference, recon, lock, rate, tokens, gatewayVars>>
      BY <1>7 DEF EnsureRow
    <2>2. TypeOK'
      BY <1>3, <1>5, <2>1 DEF TypeOK, CtxOK, gatewayVars
    <2> QED BY <1>2, <1>3, <1>5, <1>7, <2>1, <2>2
  <1> QED BY <1>6, <1>7

LEMMA RefuseCreateEffect ==
    ASSUME TypeOK, NEW h \in Handlers, RefuseCreate(h)
    PROVE  TypeOK' /\ Others(h) /\ ctx'[h] = Idle
  <1>1. CtxOK' /\ ctx'[h] = Idle /\ Others(h)
    BY TypeFacts, IdleLemma DEF Procs, Others, RefuseCreate
  <1> QED BY <1>1 DEF TypeOK, CtxOK, RefuseCreate, rowVars, drawVars, gatewayVars

LEMMA ReturnExistingLinkEffect ==
    ASSUME TypeOK, NEW h \in Handlers, ReturnExistingLink(h)
    PROVE  /\ TypeOK' /\ Others(h) /\ ctx'[h] = Idle
           /\ \E f \in Offer :
                /\ issued' = issued \cup {[offer |-> f, to |-> ctx[h].key]}
                /\ f.order = ctx[h].order
                /\ f.gid = link[ctx[h].order].gid
                /\ f.token = link[ctx[h].order].url
                /\ f.amount = link[ctx[h].order].payable
                /\ f.payer = link[ctx[h].order].payer
  <1>1. CtxOK' /\ ctx'[h] = Idle /\ Others(h)
    BY TypeFacts, IdleLemma DEF Procs, Others, ReturnExistingLink
  <1>2. PICK o \in Orders : o = ctx[h].order
    BY TypeFacts DEF CtxOK, ReturnExistingLink, Procs
  <1>3. ctx[h].key \in Keys
    BY TypeFacts DEF Context, Procs
  <1> DEFINE l == Stored(link[o])
             f == LinkOffer(o, l)
  <1>4. /\ l \in Link /\ l.payable = link[o].payable /\ l.payer = link[o].payer
        /\ l.gid = link[o].gid /\ l.token = link[o].url
    BY TypeFacts, StoredLemma
  <1>a. issued' = issued \cup {[offer |-> f, to |-> ctx[h].key]}
    BY <1>2 DEF ReturnExistingLink, Stored
  <1> HIDE DEF l
  <1>5. /\ f \in Offer /\ f.order = o /\ f.gid = l.gid
        /\ f.token = l.token /\ f.amount = l.payable /\ f.payer = l.payer
    BY <1>4, OfferLemma
  <1> HIDE DEF f
  <1>7. issued' \subseteq [offer : Offer, to : Keys]
    BY <1>3, <1>5, <1>a DEF TypeOK
  <1>8. TypeOK'
    BY <1>1, <1>7 DEF TypeOK, CtxOK, ReturnExistingLink, rowVars, drawVars
  <1> QED BY <1>1, <1>2, <1>4, <1>5, <1>a, <1>8

LEMMA StartGetLinkEffect ==
    ASSUME TypeOK, NEW h \in Handlers, StartGetLink(h), NEW o \in Orders, o = ctx[h].order
    PROVE  /\ TypeOK' /\ Others(h)
           /\ ctx'[h].pc = "getlink" /\ ctx'[h].order = o /\ ctx'[h].key = ctx[h].key
           /\ ctx'[h].exempt = ctx[h].exempt /\ ctx'[h].attempt = ctx[h].attempt
           /\ ctx'[h].draft.amount = link[o].amount
           /\ ctx'[h].draft.payable = link[o].payable
           /\ ctx'[h].draft.url = link[o].url
           /\ ctx'[h].draft.token # 0 /\ ctx'[h].draft.token = tokens + 1 /\ tokens' = tokens + 1
           /\ ctx'[h].draft.payer = IF IdentityDecision(h) = "adopt"
                                    THEN CurrentPayer(ctx[h].key) ELSE link[o].payer
           /\ \/ ctx'[h].draft.gid = link[o].gid /\ ids' = ids
              \/ ctx'[h].draft.gid = ids + 1 /\ ids' = ids + 1
           /\ lock'[o] = h
           /\ \A q \in Orders \ {o} : lock'[q] = lock[q]
  <1> DEFINE p == IF IdentityDecision(h) = "adopt" THEN CurrentPayer(ctx[h].key) ELSE link[o].payer
             g == IF status[o] = "getlink_failed" THEN ids + 1 ELSE link[o].gid
             t == tokens + 1
             d == Draft(link[o], p, g, t)
             c == Drafted(ctx[h], d)
  <1>1. h \in Procs /\ ctx[h] \in Context /\ link[o] \in Link
    BY TypeFacts DEF Procs
  <1>2. p \in Payers
    BY <1>1, CurrentPayerLemma DEF Context, Link
  <1>3. /\ g \in GatewayIds /\ ids' \in GatewayIds
        /\ \/ g = link[o].gid /\ ids' = ids
           \/ g = ids + 1 /\ ids' = ids + 1
    <2>1. ids \in 0..MaxIds /\ link[o].gid \in 0..MaxIds
      BY <1>1 DEF TypeOK, GatewayIds, Link
    <2>2. /\ status[o] = "getlink_failed" => ids < MaxIds
          /\ ids' = IF status[o] = "getlink_failed" THEN ids + 1 ELSE ids
      BY DEF StartGetLink
    <2>3. CASE status[o] = "getlink_failed"
      BY <2>1, <2>2, <2>3, BoundsAssumption DEF GatewayIds
    <2>4. CASE status[o] # "getlink_failed"
      BY <2>1, <2>2, <2>4 DEF GatewayIds
    <2> QED BY <2>3, <2>4
  <1>4. t \in Nat /\ t # 0 /\ t = tokens + 1 /\ tokens' = tokens + 1 /\ tokens' \in Nat
    BY DEF TypeOK, StartGetLink
  <1>5. Become(h, c)
    BY DEF StartGetLink, Draft, Drafted
  <1> HIDE DEF p, g, t
  <1>6. /\ d \in Link /\ d.amount = link[o].amount /\ d.payable = link[o].payable
        /\ d.payer = p /\ d.gid = g /\ d.token = t /\ d.url = link[o].url
    BY <1>1, <1>2, <1>3, <1>4, DraftLemma
  <1> HIDE DEF d
  <1>7. /\ c \in Context /\ c.pc = "getlink" /\ c.order = o /\ c.key = ctx[h].key
        /\ c.exempt = ctx[h].exempt /\ c.attempt = ctx[h].attempt /\ c.draft = d
    BY <1>1, <1>6, DraftedLemma
  <1> HIDE DEF c
  <1>8. CtxOK' /\ ctx'[h] = c /\ Others(h)
    BY <1>1, <1>5, <1>7, TypeFacts, BecomeLemma DEF Others
  <1>9. /\ lock' \in [Orders -> Procs \cup {NoOne}] /\ lock'[o] = h
        /\ \A q \in Orders \ {o} : lock'[q] = lock[q]
    BY <1>1, AcquireLemma DEF StartGetLink, TypeOK
  <1>10. TypeOK'
    BY <1>3, <1>4, <1>8, <1>9 DEF TypeOK, CtxOK, StartGetLink, rowVars, gatewayVars
  <1> QED BY <1>3, <1>4, <1>6, <1>7, <1>8, <1>9, <1>10 DEF p

Aged(c, age) == [c EXCEPT !.age = age]

LEMMA AgedLemma ==
    ASSUME NEW c \in Recon, NEW age \in {"young", "active", "expiring", "aged_out"}
    PROVE  Aged(c, age) \in Recon /\ Aged(c, age).attempts = c.attempts
  BY DEF Recon, Aged

(* The end of a getLink call: the row lock goes, the context too. *)
LEMMA GaveUpLemma ==
    ASSUME TypeOK, NEW x \in Procs, Release(x), Become(x, Idle)
    PROVE  /\ CtxOK' /\ ctx'[x] = Idle /\ Others(x)
           /\ lock' \in [Orders -> Procs \cup {NoOne}]
           /\ \A q \in Orders : lock[q] # x => lock'[q] = lock[q]
  BY TypeFacts, IdleLemma, ReleaseLemma DEF Others, TypeOK

LEMMA GetLinkSucceedsEffect ==
    ASSUME TypeOK, NEW h \in Handlers, GetLinkSucceeds(h), NEW o \in Orders, o = ctx[h].order
    PROVE  /\ TypeOK' /\ Others(h) /\ ctx'[h] = Idle
           /\ \A q \in Orders : lock[q] # h => lock'[q] = lock[q]
           /\ status' = [status EXCEPT ![o] = "link_created"]
           /\ \A q \in Orders \ {o} : link'[q] = link[q]
           /\ link'[o] = Live(ctx[h].draft)
           /\ LinkOffer(o, ctx[h].draft) \in Offer
           /\ offers' = offers \cup {LinkOffer(o, ctx[h].draft)}
           /\ issued' = issued \cup {[offer |-> LinkOffer(o, ctx[h].draft), to |-> ctx[h].key]}
           /\ UNCHANGED <<verified, reference, drawVars, receipt>>
           /\ \A q \in Orders : recon'[q].attempts = recon[q].attempts
  <1> DEFINE l == Live(ctx[h].draft)
             f == LinkOffer(o, ctx[h].draft)
  <1>1. h \in Procs /\ ctx[h].draft \in Link /\ ctx[h].key \in Keys
    BY TypeFacts DEF Procs, Context
  <1>2. link' = [link EXCEPT ![o] = l]
    BY DEF GetLinkSucceeds, Live
  <1>3. l \in Link
    BY <1>1, LiveLemma
  <1>4. f \in Offer
    BY <1>1, OfferLemma
  <1>5. /\ offers' = offers \cup {f}
        /\ issued' = issued \cup {[offer |-> f, to |-> ctx[h].key]}
        /\ status' = [status EXCEPT ![o] = "link_created"]
        /\ UNCHANGED <<verified, reference, drawVars, receipt>>
        /\ Release(h) /\ Become(h, Idle)
    BY DEF GetLinkSucceeds
  <1>6. /\ recon' \in [Orders -> Recon]
        /\ \A q \in Orders : recon'[q].attempts = recon[q].attempts
    <2> DEFINE c == Aged(recon[o], "young")
    <2>1. recon' = [recon EXCEPT ![o] = c]
      BY DEF GetLinkSucceeds, Aged
    <2>2. c \in Recon /\ c.attempts = recon[o].attempts
      BY TypeFacts, AgedLemma
    <2> HIDE DEF c
    <2> QED BY <2>1, <2>2 DEF TypeOK
  <1> HIDE DEF l, f
  <1>7. /\ CtxOK' /\ ctx'[h] = Idle /\ Others(h)
        /\ lock' \in [Orders -> Procs \cup {NoOne}]
        /\ \A q \in Orders : lock[q] # h => lock'[q] = lock[q]
    BY <1>1, <1>5, GaveUpLemma
  <1>8. /\ link' \in [Orders -> Link] /\ status' \in [Orders -> PaymentStatus]
        /\ link'[o] = l /\ \A q \in Orders \ {o} : link'[q] = link[q]
    BY <1>2, <1>3, <1>5 DEF TypeOK, PaymentStatus
  <1>9. /\ offers' \subseteq Offer /\ issued' \subseteq [offer : Offer, to : Keys]
    BY <1>1, <1>4, <1>5 DEF TypeOK
  <1>10. TypeOK'
    BY <1>5, <1>6, <1>7, <1>8, <1>9 DEF TypeOK, CtxOK, drawVars
  <1> QED BY <1>4, <1>5, <1>6, <1>7, <1>8, <1>10 DEF l, f

LEMMA GetLinkFailsEffect ==
    ASSUME TypeOK, NEW h \in Handlers, GetLinkFails(h), NEW o \in Orders, o = ctx[h].order
    PROVE  /\ TypeOK' /\ Others(h) /\ ctx'[h] = Idle
           /\ \A q \in Orders : lock[q] # h => lock'[q] = lock[q]
           /\ status' = [status EXCEPT ![o] = "getlink_failed"]
           /\ \A q \in Orders \ {o} : link'[q] = link[q]
           /\ link'[o] = ctx[h].draft
           /\ LinkOffer(o, ctx[h].draft) \in Offer
           /\ offers' \subseteq offers \cup {LinkOffer(o, ctx[h].draft)}
           /\ UNCHANGED <<verified, reference, recon, drawVars, issued, receipt>>
  <1> DEFINE f == LinkOffer(o, ctx[h].draft)
  <1>1. h \in Procs /\ ctx[h].draft \in Link
    BY TypeFacts DEF Procs, Context
  <1>2. f \in Offer
    BY <1>1, OfferLemma
  <1>3. /\ link' = [link EXCEPT ![o] = ctx[h].draft]
        /\ offers' \in {offers, offers \cup {f}}
        /\ status' = [status EXCEPT ![o] = "getlink_failed"]
        /\ UNCHANGED <<verified, reference, recon, drawVars, issued, receipt>>
        /\ Release(h) /\ Become(h, Idle)
    BY DEF GetLinkFails
  <1> HIDE DEF f
  <1>4. /\ CtxOK' /\ ctx'[h] = Idle /\ Others(h)
        /\ lock' \in [Orders -> Procs \cup {NoOne}]
        /\ \A q \in Orders : lock[q] # h => lock'[q] = lock[q]
    BY <1>1, <1>3, GaveUpLemma
  <1>5. /\ link' \in [Orders -> Link] /\ status' \in [Orders -> PaymentStatus]
        /\ link'[o] = ctx[h].draft /\ \A q \in Orders \ {o} : link'[q] = link[q]
    BY <1>1, <1>3 DEF TypeOK, PaymentStatus
  <1>6. offers' \subseteq offers \cup {f} /\ offers' \subseteq Offer
    BY <1>2, <1>3 DEF TypeOK
  <1>7. TypeOK'
    BY <1>3, <1>4, <1>5, <1>6 DEF TypeOK, CtxOK, drawVars
  <1> QED BY <1>2, <1>3, <1>4, <1>5, <1>6, <1>7 DEF f

LEMMA CrashDuringCreateEffect ==
    ASSUME TypeOK, NEW h \in Handlers, CrashDuringCreate(h), NEW o \in Orders, o = ctx[h].order
    PROVE  /\ TypeOK' /\ Others(h) /\ ctx'[h] = Idle
           /\ \A q \in Orders : lock[q] # h => lock'[q] = lock[q]
           /\ LinkOffer(o, ctx[h].draft) \in Offer
           /\ \/ offers' = offers
              \/ ctx[h].pc = "getlink" /\ offers' = offers \cup {LinkOffer(o, ctx[h].draft)}
           /\ UNCHANGED <<rowVars, drawVars, issued, receipt>>
  <1> DEFINE f == LinkOffer(o, ctx[h].draft)
  <1>1. h \in Procs /\ ctx[h].draft \in Link
    BY TypeFacts DEF Procs, Context
  <1>2. f \in Offer
    BY <1>1, OfferLemma
  <1>3. /\ offers' = offers \/ (ctx[h].pc = "getlink" /\ offers' = offers \cup {f})
        /\ UNCHANGED <<rowVars, drawVars, issued, receipt>>
        /\ Release(h) /\ Become(h, Idle)
    <2>1. offers' = offers \/ (ctx[h].pc = "getlink" /\ offers' = offers \cup {f})
      BY DEF CrashDuringCreate
    <2> QED BY <2>1 DEF CrashDuringCreate
  <1> HIDE DEF f
  <1>4. /\ CtxOK' /\ ctx'[h] = Idle /\ Others(h)
        /\ lock' \in [Orders -> Procs \cup {NoOne}]
        /\ \A q \in Orders : lock[q] # h => lock'[q] = lock[q]
    BY <1>1, <1>3, GaveUpLemma
  <1>5. offers' \subseteq Offer
    BY <1>2, <1>3 DEF TypeOK
  <1>6. TypeOK'
    BY <1>3, <1>4, <1>5 DEF TypeOK, CtxOK, drawVars, rowVars
  <1> QED BY <1>2, <1>3, <1>4, <1>6 DEF f

(* A callback, a recovery and an inspection start alike. *)
LEMMA AskingEffect ==
    ASSUME TypeOK, NEW h \in Handlers, NEW o \in Orders,
           Callback(h, o) \/ RecoverAgedOut(h, o) \/ DiagnosticVerify(h, o)
    PROVE  /\ TypeOK' /\ Others(h)
           /\ ctx'[h].pc \in {"verify", "inspect"} /\ ctx'[h].order = o
           /\ ~ctx'[h].exempt /\ ctx'[h].attempt = 0
           /\ Free(o) /\ ~Settled(o) /\ status[o] # "manual_review"
           /\ lock'[o] = h /\ \A q \in Orders \ {o} : lock'[q] = lock[q]
           /\ UNCHANGED <<rowVars, drawVars, gatewayVars>>
  <1>1. /\ UNCHANGED <<rowVars, drawVars, gatewayVars>>
        /\ Free(o) /\ ~Settled(o) /\ status[o] # "manual_review" /\ Acquire(o, h)
    BY DEF Callback, CallbackAccepted, RecoverAgedOut, DiagnosticVerify, RecoveryRefused,
           VerifyRefused
  <1>2. PICK pc \in {"verify", "inspect"} : Become(h, Asking(pc, o))
    BY DEF Callback, RecoverAgedOut, DiagnosticVerify, Asking
  <1> DEFINE c == Asking(pc, o)
  <1>3. c \in Context /\ c.pc = pc /\ c.order = o /\ ~c.exempt /\ c.attempt = 0
    BY AskingLemma
  <1>4. Become(h, c)
    BY <1>2
  <1> HIDE DEF c
  <1>5. CtxOK' /\ ctx'[h] = c /\ Others(h)
    BY <1>3, <1>4, TypeFacts, BecomeLemma DEF Procs, Others
  <1>6. /\ lock' \in [Orders -> Procs \cup {NoOne}] /\ lock'[o] = h
        /\ \A q \in Orders \ {o} : lock'[q] = lock[q]
    BY <1>1, AcquireLemma DEF TypeOK, Procs
  <1>7. TypeOK'
    BY <1>1, <1>5, <1>6 DEF TypeOK, CtxOK, rowVars, drawVars, gatewayVars
  <1> QED BY <1>1, <1>3, <1>5, <1>6, <1>7

LEMMA ClaimDueEffect ==
    ASSUME TypeOK, NEW r \in Reconcilers, NEW o \in Orders, ClaimDue(r, o)
    PROVE  /\ TypeOK' /\ Others(r)
           /\ ctx'[r].pc = "verify" /\ ctx'[r].order = o
           /\ ~ctx'[r].exempt /\ ctx'[r].attempt = recon[o].attempts + 1
           /\ lock'[o] = r /\ \A q \in Orders \ {o} : lock'[q] = lock[q]
           /\ UNCHANGED <<rowVars, drawVars, gatewayVars>>
  <1> DEFINE n == recon[o].attempts + 1
             c == Polling(o, n, recon[o].error)
  <1>1. n \in Nat /\ recon[o].error \in Errors
    BY TypeFacts DEF Recon
  <1>2. Become(r, c)
    BY DEF ClaimDue, Polling
  <1> HIDE DEF n
  <1>3. c \in Context /\ c.pc = "verify" /\ c.order = o /\ ~c.exempt /\ c.attempt = n
    BY <1>1, PollingLemma
  <1> HIDE DEF c
  <1>4. CtxOK' /\ ctx'[r] = c /\ Others(r)
    BY <1>2, <1>3, TypeFacts, BecomeLemma DEF Procs, Others
  <1>5. UNCHANGED <<rowVars, drawVars, gatewayVars>> /\ Acquire(o, r)
    BY DEF ClaimDue
  <1>6. /\ lock' \in [Orders -> Procs \cup {NoOne}] /\ lock'[o] = r
        /\ \A q \in Orders \ {o} : lock'[q] = lock[q]
    BY <1>5, AcquireLemma DEF TypeOK, Procs
  <1>7. TypeOK'
    BY <1>4, <1>5, <1>6 DEF TypeOK, CtxOK, rowVars, drawVars, gatewayVars
  <1> QED BY <1>3, <1>4, <1>5, <1>6, <1>7 DEF n

(* The steps that leave the rows alone and drop the transaction. *)
LEMMA AbandonEffect ==
    ASSUME TypeOK, NEW x \in Procs, DiagnosticEnds(x) \/ CrashDuringSettlement(x)
    PROVE  /\ TypeOK' /\ Others(x) /\ ctx'[x] = Idle
           /\ \A q \in Orders : lock[q] # x => lock'[q] = lock[q]
           /\ UNCHANGED <<rowVars, drawVars, gatewayVars>>
  <1>1. UNCHANGED <<rowVars, drawVars, gatewayVars>> /\ Release(x) /\ Become(x, Idle)
    BY DEF DiagnosticEnds, CrashDuringSettlement
  <1>2. /\ CtxOK' /\ ctx'[x] = Idle /\ Others(x)
        /\ lock' \in [Orders -> Procs \cup {NoOne}]
        /\ \A q \in Orders : lock[q] # x => lock'[q] = lock[q]
    BY <1>1, GaveUpLemma
  <1>3. TypeOK'
    BY <1>1, <1>2 DEF TypeOK, CtxOK, rowVars, drawVars, gatewayVars
  <1> QED BY <1>1, <1>2, <1>3

VerifyPaidEffectOn(x, o) ==
    /\ Others(x)
    /\ ctx'[x].pc = "settle" /\ ctx'[x].order = o
    /\ ctx'[x].exempt = ctx[x].exempt /\ ctx'[x].attempt = ctx[x].attempt
    /\ ctx'[x].ref = receipt[link[o].gid].ref
    /\ UNCHANGED <<rowVars, lock, drawVars, gatewayVars>>

LEMMA VerifyPaidEffect ==
    ASSUME TypeOK, NEW x \in Procs, VerifyPaid(x), NEW o \in Orders, o = ctx[x].order
    PROVE  TypeOK' /\ VerifyPaidEffectOn(x, o)
  <1> DEFINE ref == receipt[link[o].gid].ref
             c == Confirmed(ctx[x], ref)
  <1>1. ctx[x] \in Context /\ link[o] \in Link
    BY TypeFacts
  <1>2. link[o].gid \in GatewayIds
    BY <1>1 DEF Link
  <1>3. ref \in Refs \cup {NoRef}
    BY <1>2 DEF TypeOK, Receipt
  <1>4. Become(x, c)
    BY DEF VerifyPaid, Confirmed
  <1> HIDE DEF ref
  <1>5. /\ c \in Context /\ c.pc = "settle" /\ c.order = o
        /\ c.exempt = ctx[x].exempt /\ c.attempt = ctx[x].attempt /\ c.ref = ref
    BY <1>1, <1>3, ConfirmedLemma
  <1> HIDE DEF c
  <1>6. CtxOK' /\ ctx'[x] = c /\ Others(x)
    BY <1>4, <1>5, TypeFacts, BecomeLemma DEF Others
  <1>7. UNCHANGED <<rowVars, lock, drawVars, gatewayVars>>
    BY DEF VerifyPaid
  <1>8. TypeOK'
    BY <1>6, <1>7 DEF TypeOK, CtxOK, rowVars, drawVars, gatewayVars
  <1> QED BY <1>5, <1>6, <1>7, <1>8 DEF ref, VerifyPaidEffectOn

(* The end of an attempt, whatever it commits besides its claim. *)
EndsAttempt(x) ==
    /\ Others(x)
    /\ \A q \in Orders : lock[q] # x => lock'[q] = lock[q]
    /\ ctx'[x].pc \in {"idle", "finalize"}
    /\ ctx'[x].exempt => ctx[x].exempt
    /\ ctx'[x].attempt \in {0, ctx[x].attempt}
    /\ \A q \in Orders : \/ recon'[q].attempts = recon[q].attempts
                         \/ recon'[q].attempts = ctx[x].attempt
    /\ UNCHANGED <<link, drawVars, gatewayVars>>

LEMMA VerifyFailsEffect ==
    ASSUME TypeOK, NEW x \in Procs,
           VerifyTransportFails(x) \/ VerifyNotPaid(x) \/ SettlementRaises(x)
    PROVE  TypeOK' /\ EndsAttempt(x) /\ UNCHANGED <<status, verified, reference>>
  <1>1. PICK outcome \in Outcomes : EndAttempt(x, outcome)
    BY DEF VerifyTransportFails, VerifyNotPaid, SettlementRaises, Outcomes
  <1>2. ctx[x] \in Context /\ ctx[x].order \in Orders /\ CtxOK
    BY TypeFacts DEF CtxOK, VerifyTransportFails, VerifyNotPaid, SettlementRaises
  <1>3. /\ lock' \in [Orders -> Procs \cup {NoOne}]
        /\ \A q \in Orders : lock[q] # x => lock'[q] = lock[q]
        /\ CtxOK'
        /\ ctx'[x].pc \in {"idle", "finalize"}
        /\ ctx'[x].exempt => ctx[x].exempt
        /\ ctx'[x].attempt \in {0, ctx[x].attempt}
        /\ Others(x)
    BY <1>1, <1>2, EndAttemptLemma DEF TypeOK, Others
  <1>4. UNCHANGED <<status, verified, link, reference, drawVars, gatewayVars>>
    BY DEF VerifyTransportFails, VerifyNotPaid, SettlementRaises, rowVars
  <1>5. /\ recon' \in [Orders -> Recon]
        /\ \A q \in Orders : \/ recon'[q].attempts = recon[q].attempts
                             \/ recon'[q].attempts = ctx[x].attempt
    <2>1. CommitClaim(x) \/ recon' = recon
      BY DEF VerifyTransportFails, VerifyNotPaid, SettlementRaises, rowVars
    <2>2. CASE CommitClaim(x)
      BY <1>2, <2>2, CommitClaimLemma DEF TypeOK
    <2>3. CASE recon' = recon
      BY <2>3 DEF TypeOK
    <2> QED BY <2>1, <2>2, <2>3
  <1>6. TypeOK'
    BY <1>3, <1>4, <1>5 DEF TypeOK, CtxOK, drawVars, gatewayVars
  <1> QED BY <1>3, <1>4, <1>5, <1>6 DEF EndsAttempt

LEMMA SettlesEffect ==
    ASSUME TypeOK, NEW x \in Procs, VerifyAnomaly(x) \/ CommitSettlement(x),
           NEW o \in Orders, o = ctx[x].order
    PROVE  /\ TypeOK' /\ EndsAttempt(x)
           /\ \/ VerifyAnomaly(x) /\ status' = [status EXCEPT ![o] = "manual_review"]
                                  /\ UNCHANGED <<verified, reference>>
              \/ CommitSettlement(x) /\ status' = [status EXCEPT ![o] = "bot_notify_pending"]
                                     /\ verified' = [verified EXCEPT ![o] = TRUE]
                                     /\ reference' = [reference EXCEPT ![o] = ctx[x].ref]
  <1>1. PICK outcome \in Outcomes : EndAttempt(x, outcome)
    BY DEF VerifyAnomaly, CommitSettlement, Outcomes
  <1>2. ctx[x] \in Context /\ CtxOK
    BY TypeFacts
  <1>3. /\ lock' \in [Orders -> Procs \cup {NoOne}]
        /\ \A q \in Orders : lock[q] # x => lock'[q] = lock[q]
        /\ CtxOK'
        /\ ctx'[x].pc \in {"idle", "finalize"}
        /\ ctx'[x].exempt => ctx[x].exempt
        /\ ctx'[x].attempt \in {0, ctx[x].attempt}
        /\ Others(x)
    BY <1>1, <1>2, EndAttemptLemma DEF TypeOK, Others
  <1>4. CommitClaim(x) /\ UNCHANGED <<link, drawVars, gatewayVars>>
    BY DEF VerifyAnomaly, CommitSettlement
  <1>5. /\ recon' \in [Orders -> Recon]
        /\ \A q \in Orders : \/ recon'[q].attempts = recon[q].attempts
                             \/ recon'[q].attempts = ctx[x].attempt
    BY <1>2, <1>4, CommitClaimLemma DEF TypeOK
  <1>6. \/ VerifyAnomaly(x) /\ status' = [status EXCEPT ![o] = "manual_review"]
                            /\ UNCHANGED <<verified, reference>>
        \/ CommitSettlement(x) /\ status' = [status EXCEPT ![o] = "bot_notify_pending"]
                               /\ verified' = [verified EXCEPT ![o] = TRUE]
                               /\ reference' = [reference EXCEPT ![o] = ctx[x].ref]
    BY DEF VerifyAnomaly, CommitSettlement
  <1>7. ctx[x].ref \in Refs \cup {NoRef}
    BY <1>2 DEF Context
  <1>8. /\ status' \in [Orders -> PaymentStatus] /\ verified' \in [Orders -> BOOLEAN]
        /\ reference' \in [Orders -> Refs \cup {NoRef}]
    <2>1. /\ status \in [Orders -> PaymentStatus] /\ verified \in [Orders -> BOOLEAN]
          /\ reference \in [Orders -> Refs \cup {NoRef}]
          /\ "manual_review" \in PaymentStatus /\ "bot_notify_pending" \in PaymentStatus
      BY DEF TypeOK, PaymentStatus
    <2>2. status' \in [Orders -> PaymentStatus]
      BY <1>6, <2>1
    <2>3. verified' \in [Orders -> BOOLEAN]
      BY <1>6, <2>1
    <2>4. reference' \in [Orders -> Refs \cup {NoRef}]
      BY <1>6, <1>7, <2>1
    <2> QED BY <2>2, <2>3, <2>4
  <1>9. TypeOK'
    BY <1>3, <1>4, <1>5, <1>8 DEF TypeOK, CtxOK, drawVars, gatewayVars
  <1> QED BY <1>3, <1>4, <1>5, <1>6, <1>9 DEF EndsAttempt

LEMMA RepairedLemma ==
    ASSUME TypeOK, NEW r \in Procs, ctx[r].order \in Orders
    PROVE  /\ Repaired(r) \in Recon
           /\ Repaired(r).attempts \in {recon[ctx[r].order].attempts, ctx[r].attempt}
  <1> DEFINE c == recon[ctx[r].order]
             n == IF ctx[r].outcome = "internal" /\ c.attempts < ctx[r].attempt
                  THEN ctx[r].attempt ELSE c.attempts
  <1>1. c \in Recon /\ ctx[r] \in Context
    BY TypeFacts
  <1>2. n \in Nat /\ n \in {c.attempts, ctx[r].attempt}
    BY <1>1 DEF Recon, Context
  <1>3. Repaired(r) = [c EXCEPT !.claimed = NoOne, !.attempts = n]
    BY DEF Repaired
  <1> HIDE DEF n
  <1> QED BY <1>1, <1>2, <1>3 DEF Recon

Rescheduled(c, next) == [c EXCEPT !.next = next]
Recorded(c, next, e) == [c EXCEPT !.next = next, !.error = e]
Explained(c, e, next) == [c EXCEPT !.error = e, !.next = next]

LEMMA RecordedLemma ==
    ASSUME NEW c \in Recon, NEW next \in {"null", "due", "later"}, NEW e \in Errors
    PROVE  /\ Recorded(c, next, e) \in Recon
           /\ Recorded(c, next, e).attempts = c.attempts
  BY DEF Recon, Recorded

LEMMA ExplainedLemma ==
    ASSUME NEW c \in Recon, NEW next \in {"null", "due", "later"}, NEW e \in Errors
    PROVE  /\ Explained(c, e, next) \in Recon
           /\ Explained(c, e, next).attempts = c.attempts
  BY DEF Recon, Explained

LEMMA RescheduledLemma ==
    ASSUME NEW c \in Recon, NEW next \in {"null", "due", "later"}
    PROVE  Rescheduled(c, next) \in Recon /\ Rescheduled(c, next).attempts = c.attempts
  BY DEF Recon, Rescheduled

LEMMA FinalColumnsLemma ==
    ASSUME TypeOK, NEW r \in Procs, ctx[r].order \in Orders
    PROVE  /\ FinalColumns(r) \in Recon
           /\ FinalColumns(r).attempts \in {recon[ctx[r].order].attempts, ctx[r].attempt}
  <1> DEFINE c == Repaired(r)
             n == IF ctx[r].attempt >= MaxReconcile THEN "null" ELSE "later"
  <1>1. c \in Recon /\ c.attempts \in {recon[ctx[r].order].attempts, ctx[r].attempt}
    BY RepairedLemma
  <1>2. \A e \in Errors : ErrorWritten(r, e) \in Errors
    BY TypeFacts DEF ErrorWritten, Recon
  <1>3. n \in {"null", "due", "later"}
    OBVIOUS
  <1>4. CASE ctx[r].outcome = "verified"
    <2> DEFINE e == ErrorWritten(r, "none")
    <2>1. e \in Errors
      BY <1>2 DEF Errors
    <2>2. FinalColumns(r) = Recorded(c, "null", e)
      BY <1>4 DEF FinalColumns, Recorded
    <2> HIDE DEF c, e
    <2> QED BY <1>1, <2>1, <2>2, RecordedLemma
  <1>5. CASE ctx[r].outcome = "under_review"
    <2>1. FinalColumns(r) = Rescheduled(c, "null")
      BY <1>5 DEF FinalColumns, Rescheduled
    <2> HIDE DEF c
    <2> QED BY <1>1, <2>1, RescheduledLemma
  <1>6. CASE ctx[r].outcome \notin {"verified", "under_review"}
    <2>1. ctx[r].outcome \in Errors
      BY <1>6, TypeFacts DEF Context, Errors
    <2> DEFINE e == ErrorWritten(r, ctx[r].outcome)
    <2>2. e \in Errors
      BY <1>2, <2>1
    <2>3. FinalColumns(r) = IF StatusSeen(r) # "link_created" THEN c
                            ELSE Explained(c, e, n)
      BY <1>6 DEF FinalColumns, Explained
    <2> HIDE DEF c, e, n
    <2>4. CASE StatusSeen(r) # "link_created"
      BY <1>1, <2>3, <2>4
    <2>5. CASE StatusSeen(r) = "link_created"
      BY <1>1, <1>3, <2>2, <2>3, <2>5, ExplainedLemma
    <2> QED BY <2>4, <2>5
  <1> QED BY <1>4, <1>5, <1>6

LEMMA FinalizeEffect ==
    ASSUME TypeOK, NEW r \in Reconcilers, Finalize(r)
    PROVE  /\ TypeOK' /\ Others(r) /\ ctx'[r] = Idle
           /\ \A q \in Orders : \/ recon'[q].attempts = recon[q].attempts
                                \/ recon'[q].attempts = ctx[r].attempt
           /\ UNCHANGED <<status, verified, link, reference, lock, drawVars, gatewayVars>>
  <1>1. r \in Procs /\ ctx[r].order \in Orders
    BY TypeFacts DEF CtxOK, Finalize, Procs
  <1>2. CtxOK' /\ ctx'[r] = Idle /\ Others(r)
    BY <1>1, TypeFacts, IdleLemma DEF Others, Finalize
  <1>3. /\ recon' \in [Orders -> Recon]
        /\ \A q \in Orders : \/ recon'[q].attempts = recon[q].attempts
                             \/ recon'[q].attempts = ctx[r].attempt
    BY <1>1, FinalColumnsLemma DEF TypeOK, Finalize
  <1>4. UNCHANGED <<status, verified, link, reference, lock, drawVars, gatewayVars>>
    BY DEF Finalize
  <1>5. TypeOK'
    BY <1>2, <1>3, <1>4 DEF TypeOK, CtxOK, drawVars, gatewayVars
  <1> QED BY <1>2, <1>3, <1>4, <1>5

LEMMA PayEffect ==
    ASSUME TypeOK, NEW l \in offers, Pay(l)
    PROVE  /\ TypeOK'
           /\ receipt[l.gid] = Unpaid
           /\ l \in Offer
           /\ \A g \in GatewayIds \ {l.gid} : receipt'[g] = receipt[g]
           /\ UNCHANGED <<rowVars, lock, ctx, drawVars, offers, issued>>
  <1>1. l \in Offer
    BY DEF TypeOK
  <1>2. l.gid \in GatewayIds /\ l.amount \in Nat /\ l.payer \in Payers
    BY <1>1 DEF Offer
  <1>3. PICK ref \in Refs \cup {NoRef}, amount \in {l.amount, l.amount + 1},
             payer \in {l.payer, Stranger} :
          receipt' = [receipt EXCEPT ![l.gid] = [ref |-> ref, amount |-> amount, payer |-> payer]]
    BY DEF Pay
  <1>4. amount \in Nat /\ payer \in Payers
    BY <1>2, <1>3, BlankTypes
  <1> DEFINE p == [ref |-> ref, amount |-> amount, payer |-> payer]
  <1>5. p \in Receipt
    BY <1>4 DEF Receipt
  <1>6. receipt' = [receipt EXCEPT ![l.gid] = p]
    BY <1>3
  <1> HIDE DEF p
  <1>7. /\ receipt' \in [GatewayIds -> Receipt]
        /\ \A g \in GatewayIds \ {l.gid} : receipt'[g] = receipt[g]
    BY <1>2, <1>5, <1>6 DEF TypeOK
  <1>8. UNCHANGED <<rowVars, lock, ctx, drawVars, offers, issued>>
    BY DEF Pay
  <1>9. TypeOK'
    BY <1>7, <1>8 DEF TypeOK, rowVars, drawVars
  <1>10. receipt[l.gid] = Unpaid
    BY DEF Pay
  <1> QED BY <1>1, <1>7, <1>8, <1>9, <1>10

LEMMA ChangeFeeEffect ==
    ASSUME TypeOK, NEW r \in Rates, ChangeFee(r)
    PROVE  TypeOK' /\ UNCHANGED <<rowVars, lock, ctx, ids, tokens, known, gatewayVars>>
  BY DEF TypeOK, ChangeFee, rowVars, gatewayVars

(* Time passing touches the reconciliation columns only. *)
LEMMA TimeEffect ==
    ASSUME TypeOK, NEW o \in Orders, RetryComesDue(o) \/ AgeLink(o)
    PROVE  /\ TypeOK'
           /\ \A q \in Orders : recon'[q].attempts = recon[q].attempts
           /\ UNCHANGED <<status, verified, link, reference, lock, ctx, drawVars, gatewayVars>>
  <1>1. UNCHANGED <<status, verified, link, reference, lock, ctx, drawVars, gatewayVars>>
    BY DEF RetryComesDue, AgeLink
  <1>2. recon[o] \in Recon
    BY TypeFacts
  <1>3. \E c \in Recon : recon' = [recon EXCEPT ![o] = c] /\ c.attempts = recon[o].attempts
    <2>1. CASE RetryComesDue(o)
      <3> DEFINE c == Rescheduled(recon[o], "due")
      <3>1. recon' = [recon EXCEPT ![o] = c]
        BY <2>1 DEF RetryComesDue, Rescheduled
      <3>2. c \in Recon /\ c.attempts = recon[o].attempts
        BY <1>2, RescheduledLemma
      <3> HIDE DEF c
      <3> QED BY <3>1, <3>2
    <2>2. CASE AgeLink(o)
      <3> DEFINE a == Older[recon[o].age]
                 c == Aged(recon[o], a)
      <3>1. recon' = [recon EXCEPT ![o] = c]
        BY <2>2 DEF AgeLink, Aged
      <3>2. a \in {"young", "active", "expiring", "aged_out"}
        BY <2>2 DEF AgeLink, Older
      <3> HIDE DEF a
      <3>3. c \in Recon /\ c.attempts = recon[o].attempts
        BY <1>2, <3>2, AgedLemma
      <3> HIDE DEF c
      <3> QED BY <3>1, <3>3
    <2> QED BY <2>1, <2>2
  <1>4. /\ recon' \in [Orders -> Recon]
        /\ \A q \in Orders : recon'[q].attempts = recon[q].attempts
    BY <1>3 DEF TypeOK
  <1>5. TypeOK'
    BY <1>1, <1>4 DEF TypeOK, drawVars, gatewayVars
  <1> QED BY <1>1, <1>4, <1>5

-----------------------------------------------------------------------------
(* Types. *)

LEMMA OldPayersLemma ==
    ASSUME NEW p \in OldPayers
    PROVE  p \in Payers /\ ~(p.key \in Keys /\ ~p.retired)
  <1>1. CASE p = [key |-> "shared", retired |-> FALSE]
    BY <1>1, NamesAssumption DEF Payers, Keys
  <1>2. CASE p \in [key : Keys, retired : {TRUE}]
    BY <1>2 DEF Payers
  <1> QED BY <1>1, <1>2, OldPayersAssumption

OldLink(st, payer, amount) ==
    [amount |-> amount, payable |-> amount, payer |-> payer, gid |-> 1,
     token |-> IF st = "created" THEN 0 ELSE 1,
     url |-> IF st = "link_created" THEN 1 ELSE 0]

LEMMA OldLinkLemma ==
    ASSUME NEW st \in {"created", "getlink_failed", "link_created"},
           NEW payer \in Payers, NEW amount \in Nat
    PROVE  LET l == OldLink(st, payer, amount)
           IN  /\ l \in Link /\ l.amount = amount /\ l.payable = amount /\ l.payer = payer
               /\ l.gid = 1 /\ l.token <= 1
               /\ st = "link_created" => l.url = 1 /\ l.token = 1
               /\ st # "link_created" => l.url = 0
  BY BoundsAssumption DEF OldLink, Link, GatewayIds

LEMMA InitType == Init => TypeOK
  <1> SUFFICES ASSUME Init PROVE TypeOK
    OBVIOUS
  <1>1. /\ rate \in Rates /\ known = {}
        /\ verified \in [Orders -> BOOLEAN]
        /\ reference \in [Orders -> Refs \cup {NoRef}]
        /\ lock \in [Orders -> Procs \cup {NoOne}]
    BY DEF Init
  <1>2. recon \in [Orders -> Recon] /\ receipt \in [GatewayIds -> Receipt]
    BY BlankTypes DEF Init
  <1>3. CtxOK
    BY BlankTypes DEF Init, CtxOK, Idle
  <1> DEFINE Typed == /\ status \in [Orders -> PaymentStatus] /\ link \in [Orders -> Link]
                      /\ ids \in GatewayIds /\ tokens \in Nat
                      /\ offers \subseteq Offer
                      /\ issued \subseteq [offer : Offer, to : Keys]
  <1>4. Typed
    <2>1. CASE EmptyTable
      BY <2>1, BlankTypes, BoundsAssumption DEF EmptyTable, PaymentStatus, GatewayIds
    <2>2. ASSUME NEW o \in Orders, NEW st \in {"created", "getlink_failed", "link_created"},
                 NEW payer \in OldPayers, NEW amount \in Amounts, OldRow(o, st, payer, amount)
          PROVE  Typed
      <3> DEFINE l == OldLink(st, payer, amount)
                 f == LinkOffer(o, l)
                 to == IF payer.key \in Users THEN payer.key ELSE "order"
      <3>1. l \in Link
        BY OldLinkLemma, OldPayersLemma, AmountsAssumption
      <3>2. /\ status = [q \in Orders |-> IF q = o THEN st ELSE "absent"]
            /\ link = [q \in Orders |-> IF q = o THEN l ELSE BlankLink]
            /\ offers = IF st = "created" THEN {} ELSE {f}
            /\ issued = IF st = "link_created" THEN {[offer |-> f, to |-> to]} ELSE {}
            /\ ids = 1 /\ tokens = 1
        BY <2>2 DEF OldRow, OldLink
      <3> HIDE DEF l
      <3>3. f \in Offer
        BY <3>1, OfferLemma
      <3>4. to \in Keys
        BY DEF Keys
      <3> HIDE DEF f, to
      <3>5. status \in [Orders -> PaymentStatus] /\ link \in [Orders -> Link]
        BY <3>1, <3>2, BlankTypes DEF PaymentStatus
      <3>6. ids \in GatewayIds /\ tokens \in Nat
        BY <3>2, BoundsAssumption DEF GatewayIds
      <3>7. offers \subseteq Offer /\ issued \subseteq [offer : Offer, to : Keys]
        BY <3>2, <3>3, <3>4
      <3> QED BY <3>5, <3>6, <3>7
    <2> HIDE DEF Typed
    <2> QED BY <2>1, <2>2 DEF Init
  <1> QED BY <1>1, <1>2, <1>3, <1>4 DEF TypeOK, CtxOK

-----------------------------------------------------------------------------
(* What a step of the system may be: most leave the rows and the gateway   *)
(* alone and at most end somebody's transaction.                           *)

Drops(x) ==
    /\ Others(x)
    /\ ctx'[x].pc \in {"idle", "finalize"}
    /\ ctx'[x].exempt => ctx[x].exempt /\ ctx[x].pc \in {"verify", "settle"}
    /\ \A q \in Orders : lock[q] # x => lock'[q] = lock[q]

Quiet ==
    /\ UNCHANGED <<status, verified, link, reference, ids, tokens, known,
                   offers, issued, receipt>>
    /\ UNCHANGED <<ctx, lock>> \/ \E x \in Procs : Drops(x)

(* The attempts a step writes are ones that were counted before, or the    *)
(* next one of an order that is due.                                       *)
AttemptStep ==
    /\ \A q \in Orders : \/ recon'[q].attempts = recon[q].attempts
                         \/ \E x \in Procs : recon'[q].attempts = ctx[x].attempt
    /\ \A y \in Procs : \/ ctx'[y].attempt = 0
                        \/ ctx'[y].attempt = ctx[y].attempt
                        \/ \E o \in Orders : Due(o) /\ ctx'[y].attempt = recon[o].attempts + 1

GetLinkEnds(h) == GetLinkSucceeds(h) \/ GetLinkFails(h) \/ CrashDuringCreate(h)
Asks(h, o)     == Callback(h, o) \/ RecoverAgedOut(h, o) \/ DiagnosticVerify(h, o)
Settles(x)     == VerifyAnomaly(x) \/ CommitSettlement(x)

Kinds ==
    \/ Quiet
    \/ \E h \in Handlers, o \in Orders, key \in Keys, amount \in Amounts :
          AdmitReplay(h, o, key, amount)
    \/ \E h \in Handlers, o \in Orders, key \in Keys, amount \in Amounts :
          BeginCreate(h, o, key, amount)
    \/ \E h \in Handlers : BeginReplay(h)
    \/ \E h \in Handlers : ReturnExistingLink(h)
    \/ \E h \in Handlers : StartGetLink(h)
    \/ \E h \in Handlers : GetLinkEnds(h)
    \/ \E h \in Handlers, o \in Orders : Asks(h, o)
    \/ \E r \in Reconcilers, o \in Orders : ClaimDue(r, o)
    \/ \E x \in Procs : VerifyPaid(x)
    \/ \E x \in Procs : Settles(x)
    \/ \E l \in offers : Pay(l)

LEMMA BeginReplayIsEnsureRow ==
    ASSUME TypeOK, NEW h \in Handlers, BeginReplay(h)
    PROVE  /\ ctx[h].order \in Orders /\ ctx[h].key \in Keys /\ ctx[h].amount \in Nat
           /\ EnsureRow(h, ctx[h].order, ctx[h].key, ctx[h].amount, TRUE)
  <1>1. h \in Procs /\ ctx[h] \in Context /\ ctx[h].pc # "idle"
    BY TypeFacts DEF BeginReplay, Procs
  <1> QED BY <1>1 DEF BeginReplay, Context, TypeOK

LEMMA BeginCreateIsEnsureRow ==
    ASSUME NEW h \in Handlers, NEW o \in Orders, NEW key \in Keys, NEW amount \in Amounts,
           BeginCreate(h, o, key, amount)
    PROVE  amount \in Nat /\ amount # 0 /\ EnsureRow(h, o, key, amount, FALSE)
  <1>1. amount \in Nat /\ amount # 0
    BY AmountsAssumption
  <1> QED BY <1>1 DEF BeginCreate

(* The order of a transaction in progress. *)
LEMMA BusyOrder ==
    ASSUME TypeOK, NEW x \in Procs, ctx[x].pc # "idle"
    PROVE  ctx[x].order \in Orders
  BY DEF TypeOK

LEMMA IdleFields == Idle.pc = "idle" /\ ~Idle.exempt /\ Idle.attempt = 0
  BY DEF Idle

LEMMA HandlersAreProcs == Handlers \subseteq Procs /\ Reconcilers \subseteq Procs
  BY DEF Procs

LEMMA CreateKinds ==
    ASSUME TypeOK, NEW h \in Handlers, CreateStep(h)
    PROVE  TypeOK' /\ AttemptStep /\ Kinds /\ Others(h)
  <1> USE HandlersAreProcs
  <1>1. ASSUME NEW o \in Orders, NEW key \in Keys, NEW amount \in Amounts,
               AdmitReplay(h, o, key, amount)
        PROVE  TypeOK' /\ AttemptStep /\ Kinds /\ Others(h)
    <2>1. TypeOK' /\ Others(h) /\ ctx'[h].attempt = 0
      BY <1>1, AdmitReplayEffect
    <2>2. recon' = recon
      BY <1>1 DEF AdmitReplay, rowVars
    <2> QED BY <1>1, <2>1, <2>2 DEF AttemptStep, Others, Kinds
  <1>2. ASSUME NEW o \in Orders, NEW key \in Keys, NEW amount \in Amounts,
               BeginCreate(h, o, key, amount)
        PROVE  TypeOK' /\ AttemptStep /\ Kinds /\ Others(h)
    <2>1. TypeOK' /\ Others(h) /\ ctx'[h].attempt = 0 /\ recon' = recon
      BY <1>2, BeginCreateIsEnsureRow, EnsureRowEffect
    <2> QED BY <1>2, <2>1 DEF AttemptStep, Others, Kinds
  <1>3. CASE BeginReplay(h)
    <2>1. TypeOK' /\ Others(h) /\ ctx'[h].attempt = 0 /\ recon' = recon
      BY <1>3, BeginReplayIsEnsureRow, EnsureRowEffect
    <2> QED BY <1>3, <2>1 DEF AttemptStep, Others, Kinds
  <1>4. CASE RefuseCreate(h)
    <2>1. TypeOK' /\ Others(h) /\ ctx'[h] = Idle
      BY <1>4, RefuseCreateEffect
    <2>2. /\ recon' = recon /\ lock' = lock
          /\ UNCHANGED <<status, verified, link, reference, ids, tokens, known,
                         offers, issued, receipt>>
      BY <1>4 DEF RefuseCreate, rowVars, drawVars, gatewayVars
    <2>3. Quiet
      BY <2>1, <2>2, IdleFields DEF Quiet, Drops
    <2> QED BY <2>1, <2>2, <2>3, IdleFields DEF AttemptStep, Others, Kinds
  <1>5. CASE ReturnExistingLink(h)
    <2>1. TypeOK' /\ Others(h) /\ ctx'[h] = Idle
      BY <1>5, ReturnExistingLinkEffect
    <2>2. recon' = recon
      BY <1>5 DEF ReturnExistingLink, rowVars
    <2> QED BY <1>5, <2>1, <2>2, IdleFields DEF AttemptStep, Others, Kinds
  <1>6. CASE StartGetLink(h)
    <2>1. ctx[h].order \in Orders
      BY <1>6, BusyOrder DEF StartGetLink
    <2>2. TypeOK' /\ Others(h) /\ ctx'[h].attempt = ctx[h].attempt
      BY <1>6, <2>1, StartGetLinkEffect
    <2>3. recon' = recon
      BY <1>6 DEF StartGetLink, rowVars
    <2> QED BY <1>6, <2>2, <2>3 DEF AttemptStep, Others, Kinds
  <1>7. CASE GetLinkSucceeds(h)
    <2>1. ctx[h].order \in Orders
      BY <1>7, BusyOrder DEF GetLinkSucceeds
    <2>2. /\ TypeOK' /\ Others(h) /\ ctx'[h] = Idle
          /\ \A q \in Orders : recon'[q].attempts = recon[q].attempts
      BY <1>7, <2>1, GetLinkSucceedsEffect
    <2> QED BY <1>7, <2>2, IdleFields DEF AttemptStep, Others, Kinds, GetLinkEnds
  <1>8. CASE GetLinkFails(h)
    <2>1. ctx[h].order \in Orders
      BY <1>8, BusyOrder DEF GetLinkFails
    <2>2. TypeOK' /\ Others(h) /\ ctx'[h] = Idle /\ recon' = recon
      BY <1>8, <2>1, GetLinkFailsEffect
    <2> QED BY <1>8, <2>2, IdleFields DEF AttemptStep, Others, Kinds, GetLinkEnds
  <1>9. CASE CrashDuringCreate(h)
    <2>1. ctx[h].order \in Orders
      BY <1>9, BusyOrder DEF CrashDuringCreate
    <2>2. TypeOK' /\ Others(h) /\ ctx'[h] = Idle /\ recon' = recon
      BY <1>9, <2>1, CrashDuringCreateEffect DEF rowVars
    <2> QED BY <1>9, <2>2, IdleFields DEF AttemptStep, Others, Kinds, GetLinkEnds
  <1> QED BY <1>1, <1>2, <1>3, <1>4, <1>5, <1>6, <1>7, <1>8, <1>9 DEF CreateStep

LEMMA SettleKinds ==
    ASSUME TypeOK, NEW x \in Procs, SettleStep(x)
    PROVE  TypeOK' /\ AttemptStep /\ Kinds /\ Others(x)
  <1>1. CASE VerifyTransportFails(x) \/ VerifyNotPaid(x) \/ SettlementRaises(x)
    <2>1. TypeOK' /\ EndsAttempt(x) /\ UNCHANGED <<status, verified, reference>>
      BY <1>1, VerifyFailsEffect
    <2>2. ctx[x].pc \in {"verify", "settle"}
      BY <1>1 DEF VerifyTransportFails, VerifyNotPaid, SettlementRaises
    <2>3. Quiet
      BY <2>1, <2>2 DEF EndsAttempt, Quiet, Drops, drawVars, gatewayVars
    <2> QED BY <2>1, <2>3 DEF AttemptStep, EndsAttempt, Others, Kinds
  <1>2. CASE VerifyAnomaly(x) \/ CommitSettlement(x)
    <2>1. ctx[x].order \in Orders
      BY <1>2, BusyOrder DEF VerifyAnomaly, CommitSettlement
    <2>2. TypeOK' /\ EndsAttempt(x)
      BY <1>2, <2>1, SettlesEffect
    <2> QED BY <1>2, <2>2 DEF AttemptStep, EndsAttempt, Others, Kinds, Settles
  <1>3. CASE VerifyPaid(x)
    <2>1. ctx[x].order \in Orders
      BY <1>3, BusyOrder DEF VerifyPaid
    <2>2. TypeOK' /\ Others(x) /\ ctx'[x].attempt = ctx[x].attempt /\ recon' = recon
      BY <1>3, <2>1, VerifyPaidEffect DEF VerifyPaidEffectOn, rowVars
    <2> QED BY <1>3, <2>2 DEF AttemptStep, Others, Kinds
  <1>4. CASE CrashDuringSettlement(x)
    <2>1. /\ TypeOK' /\ Others(x) /\ ctx'[x] = Idle
          /\ \A q \in Orders : lock[q] # x => lock'[q] = lock[q]
          /\ UNCHANGED <<rowVars, drawVars, gatewayVars>>
      BY <1>4, AbandonEffect
    <2>2. Quiet
      BY <2>1, IdleFields DEF Quiet, Drops, rowVars, drawVars, gatewayVars
    <2> QED BY <2>1, <2>2, IdleFields DEF AttemptStep, Others, Kinds, rowVars
  <1> QED BY <1>1, <1>2, <1>3, <1>4 DEF SettleStep, VerifyAnswer

LEMMA StepKinds ==
    ASSUME TypeOK, [Next]_ledgerVars
    PROVE  TypeOK' /\ AttemptStep /\ Kinds
  <1> USE HandlersAreProcs
  <1>1. CASE UNCHANGED ledgerVars
    BY <1>1 DEF ledgerVars, TypeOK, AttemptStep, Kinds, Quiet
  <1>2. ASSUME NEW h \in Handlers, HandlerStep(h)
        PROVE  TypeOK' /\ AttemptStep /\ Kinds
    <2>1. ASSUME NEW o \in Orders, Asks(h, o)
          PROVE  TypeOK' /\ AttemptStep /\ Kinds
      <3>1. TypeOK' /\ Others(h) /\ ctx'[h].attempt = 0 /\ recon' = recon
        BY <2>1, AskingEffect DEF rowVars, Asks
      <3> QED BY <2>1, <3>1 DEF AttemptStep, Others, Kinds
    <2>2. CASE DiagnosticEnds(h)
      <3>1. /\ TypeOK' /\ Others(h) /\ ctx'[h] = Idle
            /\ \A q \in Orders : lock[q] # h => lock'[q] = lock[q]
            /\ UNCHANGED <<rowVars, drawVars, gatewayVars>>
        BY <2>2, AbandonEffect
      <3>2. Quiet
        BY <3>1, IdleFields DEF Quiet, Drops, rowVars, drawVars, gatewayVars
      <3> QED BY <3>1, <3>2, IdleFields DEF AttemptStep, Others, Kinds, rowVars
    <2> QED BY <1>2, <2>1, <2>2, CreateKinds, SettleKinds DEF HandlerStep, Asks
  <1>3. ASSUME NEW r \in Reconcilers, ReconcilerStep(r)
        PROVE  TypeOK' /\ AttemptStep /\ Kinds
    <2>1. ASSUME NEW o \in Orders, ClaimDue(r, o)
          PROVE  TypeOK' /\ AttemptStep /\ Kinds
      <3>1. /\ TypeOK' /\ Others(r) /\ ctx'[r].attempt = recon[o].attempts + 1
            /\ recon' = recon
        BY <2>1, ClaimDueEffect DEF rowVars
      <3>2. Due(o)
        BY <2>1 DEF ClaimDue
      <3> QED BY <2>1, <3>1, <3>2 DEF AttemptStep, Others, Kinds
    <2>2. CASE Finalize(r)
      <3>1. /\ TypeOK' /\ Others(r) /\ ctx'[r] = Idle
            /\ \A q \in Orders : \/ recon'[q].attempts = recon[q].attempts
                                 \/ recon'[q].attempts = ctx[r].attempt
            /\ UNCHANGED <<status, verified, link, reference, lock, drawVars, gatewayVars>>
        BY <2>2, FinalizeEffect
      <3>2. Quiet
        BY <3>1, IdleFields DEF Quiet, Drops, drawVars, gatewayVars
      <3> QED BY <3>1, <3>2, IdleFields DEF AttemptStep, Others, Kinds
    <2> QED BY <1>3, <2>1, <2>2, SettleKinds DEF ReconcilerStep
  <1>4. ASSUME NEW l \in offers, Pay(l)
        PROVE  TypeOK' /\ AttemptStep /\ Kinds
    <2>1. TypeOK' /\ UNCHANGED <<rowVars, lock, ctx, drawVars, offers, issued>>
      BY <1>4, PayEffect
    <2> QED BY <1>4, <2>1 DEF AttemptStep, Kinds, rowVars
  <1>5. ASSUME NEW r \in Rates, ChangeFee(r)
        PROVE  TypeOK' /\ AttemptStep /\ Kinds
    <2>1. TypeOK' /\ UNCHANGED <<rowVars, lock, ctx, ids, tokens, known, gatewayVars>>
      BY <1>5, ChangeFeeEffect
    <2> QED BY <2>1 DEF AttemptStep, Kinds, Quiet, rowVars, gatewayVars
  <1>6. ASSUME NEW o \in Orders, RetryComesDue(o) \/ AgeLink(o)
        PROVE  TypeOK' /\ AttemptStep /\ Kinds
    <2>1. /\ TypeOK'
          /\ \A q \in Orders : recon'[q].attempts = recon[q].attempts
          /\ UNCHANGED <<status, verified, link, reference, lock, ctx, drawVars, gatewayVars>>
      BY <1>6, TimeEffect
    <2> QED BY <2>1 DEF AttemptStep, Kinds, Quiet, drawVars, gatewayVars
  <1> QED BY <1>1, <1>2, <1>3, <1>4, <1>5, <1>6 DEF Next, Environment

(* The columns, locks, transactions and gateway facts of the money path    *)
(* keep their types for any number of orders, users, amounts and fees.     *)
THEOREM SettlementTypeCorrect == Spec => []TypeOK
  <1>1. Init => TypeOK
    BY InitType
  <1>2. TypeOK /\ [Next]_ledgerVars => TypeOK'
    BY StepKinds
  <1> QED BY <1>1, <1>2, PTL DEF Spec

=============================================================================
