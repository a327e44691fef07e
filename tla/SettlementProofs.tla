-------------------------- MODULE SettlementProofs --------------------------
(***************************************************************************)
(* The safety of the money path, for any orders, users, amounts, fee       *)
(* policies, requests, reconcilers and limits.                             *)
(***************************************************************************)
EXTENDS SettlementTypes

-----------------------------------------------------------------------------
(* The inductive invariant. *)

(* What the columns of one row say about each other. *)
RowInv ==
    \A o \in Orders :
        /\ status[o] = "absent" => link[o] = BlankLink
        /\ status[o] # "absent" =>
             /\ link[o].gid # 0 /\ link[o].gid <= ids
             /\ link[o].amount # 0 /\ link[o].payable >= link[o].amount
        /\ status[o] \in {"created", "getlink_failed"} => link[o].url = 0
        /\ status[o] = "link_created" => link[o].url # 0 /\ link[o].url = link[o].token
        /\ verified[o] => status[o] \in VERIFIED_STATUSES \cup {"manual_review"}

(* A current-scheme payer has its mapping row. *)
Mapped(o, payer) == payer.key \in Keys /\ ~payer.retired => IdentityKey(o, payer.key) \in known

MappedInv ==
    \A o \in Orders : status[o] # "absent" => Mapped(o, link[o].payer)

(* Two Telegram users are never one. *)
SameUser(key, payer) == key \in Users /\ payer.key \in Users => payer.key = key

(* What a request past the unlocked reads may rely on. *)
CreateInv ==
    \A x \in Procs : ctx[x].pc = "create" =>
        /\ status[ctx[x].order] # "absent"
        /\ ctx[x].retired /\ ctx[x].key \in Users =>
             link[ctx[x].order].payer.key = ctx[x].key
        /\ ~ctx[x].retired => IdentityKey(ctx[x].order, ctx[x].key) \in known

(* A draft differs from its row in what the retry may replace. *)
DraftInv ==
    \A x \in Procs : ctx[x].pc = "getlink" =>
        LET o == ctx[x].order
            draft == ctx[x].draft
        IN  /\ status[o] \in {"created", "getlink_failed"}
            /\ draft.url = 0
            /\ draft.token # 0
            /\ draft.amount = link[o].amount
            /\ draft.payable = link[o].payable
            /\ draft.gid # 0 /\ draft.gid <= ids
            /\ link[o].payer.key \in Users => draft.payer = link[o].payer
            /\ SameUser(ctx[x].key, draft.payer)
            /\ Mapped(o, draft.payer)

(* An exempt request is for a link nobody will replace. *)
ExemptInv ==
    \A x \in Procs :
        /\ ctx[x].pc = "replay" => ctx[x].exempt
        /\ ctx[x].exempt =>
             /\ ctx[x].pc \in {"replay", "create"}
             /\ status[ctx[x].order] \in LINKED_STATUSES
             /\ link[ctx[x].order].url # 0
             /\ link[ctx[x].order].payer.key = ctx[x].key

(* Between the checks and the commit, the receipt is still the right one. *)
SettleInv ==
    \A x \in Procs :
        /\ ctx[x].pc \in {"verify", "settle", "inspect"} => status[ctx[x].order] # "absent"
        /\ ctx[x].pc = "settle" =>
             /\ ctx[x].ref # NoRef
             /\ receipt[link[ctx[x].order].gid] =
                  [ref |-> ctx[x].ref, amount |-> link[ctx[x].order].payable,
                   payer |-> link[ctx[x].order].payer]

AttemptInv == ReconciliationBounded /\ \A x \in Procs : ctx[x].attempt <= MaxReconcile

(* No gateway order id serves two orders, drafts included. *)
GidInv ==
    /\ \A o, q \in Orders :
          o # q /\ status[o] # "absent" /\ status[q] # "absent" => link[o].gid # link[q].gid
    /\ \A x \in Procs, q \in Orders :
          ctx[x].pc = "getlink" /\ q # ctx[x].order /\ status[q] # "absent"
             => ctx[x].draft.gid # link[q].gid
    /\ \A x, y \in Procs :
          x # y /\ ctx[x].pc = "getlink" /\ ctx[y].pc = "getlink"
             => ctx[x].draft.gid # ctx[y].draft.gid

UniqueRefs ==
    \A o, q \in Orders : o # q /\ reference[o] # NoRef => reference[o] # reference[q]

OfferInv ==
    \A l \in offers :
        /\ l.gid # 0
        /\ status[l.order] # "absent"
        /\ l.amount = link[l.order].payable

IssuedInv ==
    \A i \in issued :
        /\ status[i.offer.order] \in LINKED_STATUSES
        /\ link[i.offer.order].url # 0

(* Money arrives only on links the gateway registered. *)
ReceiptInv ==
    \A g \in GatewayIds : receipt[g] # Unpaid => \E l \in offers : l.gid = g

(* Every attempt has a token of its own, so that a registered link is the  *)
(* row's own or carries a token the row no longer has; and a retry asks    *)
(* under the row's id or under one that nothing was registered with.       *)
TokenInv ==
    /\ \A o \in Orders : link[o].token <= tokens
    /\ \A l \in offers :
          /\ l.gid <= ids /\ l.token <= tokens
          /\ l.token = link[l.order].token => l = LinkOffer(l.order, link[l.order])
    /\ \A x \in Procs : ctx[x].pc = "getlink" =>
          /\ ctx[x].draft.token <= tokens
          /\ ctx[x].draft.token # link[ctx[x].order].token
          /\ \A l \in offers : l.token # ctx[x].draft.token
          /\ \/ ctx[x].draft.gid = link[ctx[x].order].gid
             \/ \A l \in offers : l.gid # ctx[x].draft.gid
    /\ \A x, y \in Procs :
          x # y /\ ctx[x].pc = "getlink" /\ ctx[y].pc = "getlink"
             => ctx[x].draft.token # ctx[y].draft.token

MoneyInv ==
    /\ TypeOK /\ ExclusiveSettlement
    /\ RowInv /\ MappedInv /\ CreateInv /\ DraftInv /\ ExemptInv /\ SettleInv
    /\ VerifiedIsPaid /\ UniqueRefs /\ GidInv
    /\ OfferInv /\ IssuedInv /\ OneLiveLink /\ NoCrossUserLink /\ ReceiptInv /\ TokenInv

-----------------------------------------------------------------------------
(* Who moved, and what happens to a locked row. *)

LEMMA Movers ==
    ASSUME TypeOK, Kinds, NEW y \in Procs
    PROVE  \/ ctx'[y] = ctx[y]
           \/ /\ ctx'[y].pc \in {"idle", "finalize"}
              /\ ctx'[y].exempt => ctx[y].exempt /\ ctx[y].pc \in {"verify", "settle"}
           \/ /\ y \in Handlers
              /\ \/ \E o \in Orders, key \in Keys, amount \in Amounts :
                       AdmitReplay(y, o, key, amount) \/ BeginCreate(y, o, key, amount)
                 \/ BeginReplay(y)
                 \/ StartGetLink(y)
                 \/ \E o \in Orders : Asks(y, o)
           \/ y \in Reconcilers /\ \E o \in Orders : ClaimDue(y, o)
           \/ VerifyPaid(y)
  <1> USE HandlersAreProcs
  <1> DEFINE Goal == \/ ctx'[y] = ctx[y]
                     \/ /\ ctx'[y].pc \in {"idle", "finalize"}
                        /\ ctx'[y].exempt => ctx[y].exempt /\ ctx[y].pc \in {"verify", "settle"}
                     \/ /\ y \in Handlers
                        /\ \/ \E o \in Orders, key \in Keys, amount \in Amounts :
                                 AdmitReplay(y, o, key, amount) \/ BeginCreate(y, o, key, amount)
                           \/ BeginReplay(y)
                           \/ StartGetLink(y)
                           \/ \E o \in Orders : Asks(y, o)
                     \/ y \in Reconcilers /\ \E o \in Orders : ClaimDue(y, o)
                     \/ VerifyPaid(y)
  <1>1. ASSUME Quiet PROVE Goal
    BY <1>1 DEF Quiet, Drops, Others
  <1>2. ASSUME NEW h \in Handlers, NEW o \in Orders, NEW key \in Keys, NEW amount \in Amounts,
               AdmitReplay(h, o, key, amount)
        PROVE  Goal
    <2>1. Others(h)
      BY <1>2, AdmitReplayEffect
    <2> QED BY <1>2, <2>1 DEF Others
  <1>2b. ASSUME NEW h \in Handlers, NEW o \in Orders, NEW key \in Keys, NEW amount \in Amounts,
                BeginCreate(h, o, key, amount)
         PROVE  Goal
    <2>1. Others(h)
      BY <1>2b, BeginCreateIsEnsureRow, EnsureRowEffect
    <2> QED BY <1>2b, <2>1 DEF Others
  <1>3. ASSUME NEW h \in Handlers, BeginReplay(h)
        PROVE  Goal
    <2>1. Others(h)
      BY <1>3, BeginReplayIsEnsureRow, EnsureRowEffect
    <2> QED BY <1>3, <2>1 DEF Others
  <1>4. ASSUME NEW h \in Handlers, ReturnExistingLink(h)
        PROVE  Goal
    <2>1. Others(h) /\ ctx'[h] = Idle
      BY <1>4, ReturnExistingLinkEffect
    <2> QED BY <2>1, IdleFields DEF Others
  <1>5. ASSUME NEW h \in Handlers, StartGetLink(h)
        PROVE  Goal
    <2>1. ctx[h].order \in Orders
      BY <1>5, BusyOrder DEF StartGetLink
    <2>2. Others(h)
      BY <1>5, <2>1, StartGetLinkEffect
    <2> QED BY <1>5, <2>2 DEF Others
  <1>6. ASSUME NEW h \in Handlers, GetLinkEnds(h)
        PROVE  Goal
    <2>1. ctx[h].order \in Orders
      BY <1>6, BusyOrder DEF GetLinkEnds, GetLinkSucceeds, GetLinkFails, CrashDuringCreate
    <2>2. Others(h) /\ ctx'[h] = Idle
      BY <1>6, <2>1, GetLinkSucceedsEffect, GetLinkFailsEffect,
         CrashDuringCreateEffect DEF GetLinkEnds
    <2> QED BY <2>2, IdleFields DEF Others
  <1>7. ASSUME NEW h \in Handlers, NEW o \in Orders, Asks(h, o)
        PROVE  Goal
    <2>1. Others(h)
      BY <1>7, AskingEffect DEF Asks
    <2> QED BY <1>7, <2>1 DEF Others
  <1>8. ASSUME NEW r \in Reconcilers, NEW o \in Orders, ClaimDue(r, o)
        PROVE  Goal
    <2>1. Others(r)
      BY <1>8, ClaimDueEffect
    <2> QED BY <1>8, <2>1 DEF Others
  <1>9. ASSUME NEW x \in Procs, VerifyPaid(x)
        PROVE  Goal
    <2>1. ctx[x].order \in Orders
      BY <1>9, BusyOrder DEF VerifyPaid
    <2>2. Others(x)
      BY <1>9, <2>1, VerifyPaidEffect DEF VerifyPaidEffectOn
    <2> QED BY <1>9, <2>2 DEF Others
  <1>10. ASSUME NEW x \in Procs, Settles(x)
         PROVE  Goal
    <2>1. ctx[x].order \in Orders /\ ctx[x].pc \in {"verify", "settle"}
      BY <1>10, BusyOrder DEF Settles, VerifyAnomaly, CommitSettlement
    <2>2. EndsAttempt(x)
      BY <1>10, <2>1, SettlesEffect DEF Settles
    <2> QED BY <2>1, <2>2 DEF Others, EndsAttempt
  <1>11. ASSUME NEW l \in offers, Pay(l)
         PROVE  Goal
    BY <1>11, PayEffect
  <1> HIDE DEF Goal
  <1>12. Goal
    BY <1>1, <1>2, <1>2b, <1>3, <1>4, <1>5, <1>6, <1>7, <1>8, <1>9, <1>10, <1>11 DEF Kinds
  <1> QED BY <1>12 DEF Goal

(* Who is in one of these states holds the row lock. *)
Locking == {"getlink", "verify", "settle", "inspect"}

Exclusive(y, o) == lock[o] = y /\ ~Settled(o) /\ status[o] # "manual_review"

(* The row of an order whose lock y keeps is left alone by everyone else. *)
LEMMA HolderSafe ==
    ASSUME TypeOK, ExclusiveSettlement, Kinds,
           NEW y \in Procs, ctx[y].pc \in Locking, ctx'[y] = ctx[y],
           NEW o \in Orders, o = ctx[y].order
    PROVE  /\ lock'[o] = y /\ verified'[o] = verified[o] /\ reference'[o] = reference[o]
           /\ \/ status'[o] = status[o] /\ link'[o] = link[o]
              \/ status[o] = "absent" /\ status'[o] = "created"
  <1> USE HandlersAreProcs
  <1> DEFINE Goal == /\ lock'[o] = y /\ verified'[o] = verified[o]
                     /\ reference'[o] = reference[o]
                     /\ \/ status'[o] = status[o] /\ link'[o] = link[o]
                        \/ status[o] = "absent" /\ status'[o] = "created"
  <1>0. /\ lock[o] = y /\ y # NoOne
        /\ \A x \in Procs : x # y /\ ctx[x].pc \in Locking => ctx[x].order # o
    BY NamesAssumption DEF ExclusiveSettlement, Locking
  <1>1. ASSUME Quiet PROVE Goal
    BY <1>0, <1>1 DEF Quiet, Drops, Locking
  <1>2. ASSUME NEW h \in Handlers, NEW q \in Orders, NEW key \in Keys, NEW amount \in Nat,
               NEW e \in BOOLEAN, EnsureRow(h, q, key, amount, e)
        PROVE  Goal
    <2>1. /\ UNCHANGED <<verified, reference, lock>>
          /\ \/ status[q] = "absent" /\ status' = [status EXCEPT ![q] = "created"]
                /\ \E l \in Link : link' = [link EXCEPT ![q] = l]
             \/ UNCHANGED <<status, link>>
      BY <1>2, EnsureRowEffect
    <2> QED BY <1>0, <2>1 DEF TypeOK
  <1>3. ASSUME NEW h \in Handlers, NEW q \in Orders, NEW key \in Keys, NEW amount \in Amounts,
               AdmitReplay(h, q, key, amount)
        PROVE  Goal
    BY <1>0, <1>3 DEF AdmitReplay, rowVars
  <1>4. ASSUME NEW h \in Handlers, ReturnExistingLink(h)
        PROVE  Goal
    BY <1>0, <1>4 DEF ReturnExistingLink, rowVars
  <1>5. ASSUME NEW h \in Handlers, StartGetLink(h)
        PROVE  Goal
    <2>1. PICK q \in Orders : q = ctx[h].order
      BY <1>5, BusyOrder DEF StartGetLink
    <2>2. \A p \in Orders \ {q} : lock'[p] = lock[p]
      BY <1>5, <2>1, StartGetLinkEffect
    <2>3. lock[q] = NoOne /\ UNCHANGED <<status, verified, link, reference>>
      BY <1>5, <2>1 DEF StartGetLink, Free, rowVars
    <2> QED BY <1>0, <2>2, <2>3
  <1>6. ASSUME NEW h \in Handlers, GetLinkEnds(h)
        PROVE  Goal
    <2>1. PICK q \in Orders : q = ctx[h].order
      BY <1>6, BusyOrder DEF GetLinkEnds, GetLinkSucceeds, GetLinkFails, CrashDuringCreate
    <2>2. ctx'[h] = Idle
      BY <1>6, <2>1, GetLinkSucceedsEffect, GetLinkFailsEffect,
         CrashDuringCreateEffect DEF GetLinkEnds
    <2>3. h # y
      BY <2>2, IdleFields DEF Locking
    <2>4. \A p \in Orders : lock[p] # h => lock'[p] = lock[p]
      BY <1>6, <2>1, GetLinkSucceedsEffect, GetLinkFailsEffect,
         CrashDuringCreateEffect DEF GetLinkEnds
    <2>5. CASE CrashDuringCreate(h)
      BY <1>0, <2>3, <2>4, <2>5 DEF CrashDuringCreate, rowVars
    <2>6. CASE GetLinkSucceeds(h) \/ GetLinkFails(h)
      <3>1. q # o
        BY <1>0, <2>1, <2>3, <2>6 DEF GetLinkSucceeds, GetLinkFails, Locking
      <3>2. /\ UNCHANGED <<verified, reference>>
            /\ \E st \in PaymentStatus : status' = [status EXCEPT ![q] = st]
            /\ \A p \in Orders \ {q} : link'[p] = link[p]
        BY <2>1, <2>6, GetLinkSucceedsEffect, GetLinkFailsEffect DEF PaymentStatus
      <3> QED BY <1>0, <2>3, <2>4, <3>1, <3>2 DEF TypeOK
    <2> QED BY <1>6, <2>5, <2>6 DEF GetLinkEnds
  <1>7. ASSUME NEW h \in Handlers, NEW q \in Orders, Asks(h, q)
        PROVE  Goal
    <2>1. /\ Free(q) /\ \A p \in Orders \ {q} : lock'[p] = lock[p]
          /\ UNCHANGED <<rowVars, drawVars, gatewayVars>>
      BY <1>7, AskingEffect DEF Asks
    <2> QED BY <1>0, <2>1 DEF Free, rowVars
  <1>8. ASSUME NEW r \in Reconcilers, NEW q \in Orders, ClaimDue(r, q)
        PROVE  Goal
    <2>1. /\ \A p \in Orders \ {q} : lock'[p] = lock[p]
          /\ UNCHANGED <<rowVars, drawVars, gatewayVars>>
      BY <1>8, ClaimDueEffect
    <2>2. Free(q)
      BY <1>8 DEF ClaimDue
    <2> QED BY <1>0, <2>1, <2>2 DEF Free, rowVars
  <1>9. ASSUME NEW x \in Procs, VerifyPaid(x)
        PROVE  Goal
    BY <1>0, <1>9 DEF VerifyPaid, rowVars
  <1>10. ASSUME NEW x \in Procs, Settles(x)
         PROVE  Goal
    <2>1. PICK q \in Orders : q = ctx[x].order
      BY <1>10, BusyOrder DEF Settles, VerifyAnomaly, CommitSettlement
    <2>2. /\ EndsAttempt(x)
          /\ \/ /\ status' = [status EXCEPT ![q] = "manual_review"]
                /\ UNCHANGED <<verified, reference>>
             \/ /\ status' = [status EXCEPT ![q] = "bot_notify_pending"]
                /\ verified' = [verified EXCEPT ![q] = TRUE]
                /\ reference' = [reference EXCEPT ![q] = ctx[x].ref]
      BY <1>10, <2>1, SettlesEffect DEF Settles
    <2>3. x # y
      BY <2>2 DEF EndsAttempt, Locking
    <2>4. q # o
      BY <1>0, <1>10, <2>1, <2>3 DEF Settles, VerifyAnomaly, CommitSettlement, Locking
    <2> QED BY <1>0, <2>2, <2>3, <2>4 DEF EndsAttempt, TypeOK
  <1>11. ASSUME NEW l \in offers, Pay(l)
         PROVE  Goal
    BY <1>0, <1>11, PayEffect DEF rowVars
  <1>12. ASSUME NEW h \in Handlers, BeginReplay(h)
         PROVE  Goal
    BY <1>2, <1>12, BeginReplayIsEnsureRow
  <1>13. ASSUME NEW h \in Handlers, NEW q \in Orders, NEW key \in Keys, NEW amount \in Amounts,
                BeginCreate(h, q, key, amount)
         PROVE  Goal
    BY <1>2, <1>13, BeginCreateIsEnsureRow
  <1> HIDE DEF Goal
  <1>14. Goal
    BY <1>1, <1>3, <1>4, <1>5, <1>6, <1>7, <1>8, <1>9, <1>10, <1>11, <1>12, <1>13
       DEF Kinds
  <1> QED BY <1>14 DEF Goal

-----------------------------------------------------------------------------
(* Locks and attempts. *)

LEMMA InitFacts ==
    ASSUME Init
    PROVE  /\ \A o \in Orders : /\ ~verified[o] /\ reference[o] = NoRef /\ lock[o] = NoOne
                                /\ recon[o].attempts = 0
                                /\ status[o] \in {"absent", "created", "getlink_failed", "link_created"}
           /\ \A x \in Procs : ctx[x] = Idle
           /\ \A g \in GatewayIds : receipt[g] = Unpaid
           /\ known = {}
  <1>1. /\ \A o \in Orders : /\ ~verified[o] /\ reference[o] = NoRef /\ lock[o] = NoOne
                             /\ recon[o].attempts = 0
        /\ \A x \in Procs : ctx[x] = Idle
        /\ \A g \in GatewayIds : receipt[g] = Unpaid
        /\ known = {}
    BY DEF Init, NewRecon
  <1>2. \A o \in Orders : status[o] \in {"absent", "created", "getlink_failed", "link_created"}
    <2>1. CASE EmptyTable
      BY <2>1 DEF EmptyTable
    <2>2. CASE ~EmptyTable
      <3>1. PICK q \in Orders, st \in {"created", "getlink_failed", "link_created"},
                 payer \in OldPayers, amount \in Amounts : OldRow(q, st, payer, amount)
        BY <2>2 DEF Init
      <3>2. status = [o \in Orders |-> IF o = q THEN st ELSE "absent"]
        BY <3>1 DEF OldRow
      <3> QED BY <3>2
    <2> QED BY <2>1, <2>2
  <1> QED BY <1>1, <1>2

LEMMA ExclusiveInit == Init => ExclusiveSettlement
  BY InitFacts, IdleFields DEF ExclusiveSettlement

LEMMA ExclusiveStep ==
    ASSUME TypeOK, ExclusiveSettlement, Kinds, TypeOK'
    PROVE  ExclusiveSettlement'
  <1> USE HandlersAreProcs
  <1> SUFFICES ASSUME NEW y \in Procs, ctx'[y].pc \in Locking
               PROVE  /\ lock'[ctx'[y].order] = y
                      /\ ~(verified'[ctx'[y].order] \/ status'[ctx'[y].order] \in VERIFIED_STATUSES)
                      /\ status'[ctx'[y].order] # "manual_review"
    BY DEF ExclusiveSettlement, Settled, Locking
  <1>0. PICK o \in Orders : o = ctx'[y].order
    BY DEF TypeOK, Locking
  <1> DEFINE Goal == /\ lock'[o] = y /\ ~verified'[o] /\ status'[o] \notin VERIFIED_STATUSES
                     /\ status'[o] # "manual_review"
  <1>1. ASSUME ctx'[y] = ctx[y]
        PROVE  Goal
    <2>1. /\ lock'[o] = y /\ verified'[o] = verified[o]
          /\ status'[o] = status[o] \/ status'[o] = "created"
      BY <1>0, <1>1, HolderSafe
    <2>2. ~Settled(o) /\ status[o] # "manual_review"
      BY <1>0, <1>1 DEF ExclusiveSettlement, Locking
    <2> QED BY <2>1, <2>2 DEF Settled, VERIFIED_STATUSES
  <1>2. ASSUME ctx'[y].pc \in {"idle", "finalize"}
        PROVE  Goal
    BY <1>2 DEF Locking
  <1>3. ASSUME y \in Handlers, NEW q \in Orders, NEW key \in Keys, NEW amount \in Amounts,
               AdmitReplay(y, q, key, amount) \/ BeginCreate(y, q, key, amount)
        PROVE  Goal
    <2>1. ctx'[y].pc \in {"replay", "create"}
      BY <1>3, AdmitReplayEffect, BeginCreateIsEnsureRow, EnsureRowEffect
    <2> QED BY <2>1 DEF Locking
  <1>4. ASSUME y \in Handlers, BeginReplay(y)
        PROVE  Goal
    <2>1. ctx'[y].pc = "create"
      BY <1>4, BeginReplayIsEnsureRow, EnsureRowEffect
    <2> QED BY <2>1 DEF Locking
  <1>5. ASSUME y \in Handlers, StartGetLink(y)
        PROVE  Goal
    <2>1. PICK q \in Orders : q = ctx[y].order
      BY <1>5, BusyOrder DEF StartGetLink
    <2>2. lock'[q] = y /\ ctx'[y].order = q
      BY <1>5, <2>1, StartGetLinkEffect
    <2>3. ~Settled(q) /\ status[q] # "manual_review" /\ UNCHANGED <<status, verified>>
      BY <1>5, <2>1 DEF StartGetLink, Refused, rowVars
    <2> QED BY <1>0, <2>2, <2>3 DEF Settled
  <1>6. ASSUME y \in Handlers, NEW q \in Orders, Asks(y, q)
        PROVE  Goal
    <2>1. /\ ctx'[y].order = q /\ lock'[q] = y
          /\ ~Settled(q) /\ status[q] # "manual_review" /\ UNCHANGED <<status, verified>>
      BY <1>6, AskingEffect DEF Asks, rowVars
    <2> QED BY <1>0, <2>1 DEF Settled
  <1>7. ASSUME y \in Reconcilers, NEW q \in Orders, ClaimDue(y, q)
        PROVE  Goal
    <2>1. /\ ctx'[y].order = q /\ lock'[q] = y /\ UNCHANGED <<status, verified>>
      BY <1>7, ClaimDueEffect DEF rowVars
    <2>2. status[q] = "link_created" /\ ~verified[q]
      BY <1>7 DEF ClaimDue, Due
    <2> QED BY <1>0, <2>1, <2>2 DEF VERIFIED_STATUSES
  <1>8. ASSUME VerifyPaid(y)
        PROVE  Goal
    <2>1. PICK q \in Orders : q = ctx[y].order
      BY <1>8, BusyOrder DEF VerifyPaid
    <2>2. ctx'[y].order = q /\ UNCHANGED <<status, verified, lock>>
      BY <1>8, <2>1, VerifyPaidEffect DEF VerifyPaidEffectOn, rowVars
    <2>3. lock[q] = y /\ ~Settled(q) /\ status[q] # "manual_review"
      BY <1>8, <2>1 DEF ExclusiveSettlement, VerifyPaid
    <2> QED BY <1>0, <2>2, <2>3 DEF Settled
  <1> HIDE DEF Goal
  <1>9. Goal
    BY Movers, <1>1, <1>2, <1>3, <1>4, <1>5, <1>6, <1>7, <1>8
  <1> QED BY <1>0, <1>9 DEF Goal

(* Whatever callbacks, reconcilers, recoveries, inspections and requests   *)
(* race each other, who talks to the gateway about an order holds its row  *)
(* lock, and the order is neither settled nor under review meanwhile.      *)
THEOREM SettlementIsExclusive == Spec => []ExclusiveSettlement
  <1>1. Init => ExclusiveSettlement
    BY ExclusiveInit
  <1>2. TypeOK /\ ExclusiveSettlement /\ [Next]_ledgerVars => ExclusiveSettlement'
    BY StepKinds, ExclusiveStep
  <1> QED BY <1>1, <1>2, SettlementTypeCorrect, PTL DEF Spec

LEMMA AttemptInitial == Init => AttemptInv
  BY InitFacts, IdleFields, BoundsAssumption DEF AttemptInv, ReconciliationBounded

LEMMA AttemptInvStep ==
    ASSUME TypeOK, AttemptInv, AttemptStep
    PROVE  AttemptInv'
  <1>1. ASSUME NEW q \in Orders
        PROVE  recon'[q].attempts <= MaxReconcile
    BY DEF AttemptInv, ReconciliationBounded, AttemptStep
  <1>2. ASSUME NEW y \in Procs
        PROVE  ctx'[y].attempt <= MaxReconcile
    <2>1. CASE ctx'[y].attempt = 0
      BY <2>1, BoundsAssumption
    <2>2. CASE ctx'[y].attempt = ctx[y].attempt
      BY <2>2 DEF AttemptInv
    <2>3. ASSUME NEW o \in Orders, Due(o), ctx'[y].attempt = recon[o].attempts + 1
          PROVE  ctx'[y].attempt <= MaxReconcile
      <3>1. recon[o].attempts \in Nat
        BY TypeFacts DEF Recon
      <3>2. recon[o].attempts < MaxReconcile
        BY <2>3 DEF Due
      <3> QED BY <2>3, <3>1, <3>2, BoundsAssumption
    <2> QED BY <2>1, <2>2, <2>3 DEF AttemptStep
  <1> QED BY <1>1, <1>2 DEF AttemptInv, ReconciliationBounded

(* No order's attempt count passes the limit, although claims are counted  *)
(* in the transaction, committed with the verify result, rolled back by a  *)
(* crash and repaired afterwards.                                          *)
THEOREM ReconciliationIsBounded == Spec => []ReconciliationBounded
  <1>1. Init => AttemptInv
    BY AttemptInitial
  <1>2. TypeOK /\ AttemptInv /\ [Next]_ledgerVars => AttemptInv'
    BY StepKinds, AttemptInvStep
  <1>3. AttemptInv => ReconciliationBounded
    BY DEF AttemptInv
  <1> QED BY <1>1, <1>2, <1>3, SettlementTypeCorrect, PTL DEF Spec

-----------------------------------------------------------------------------
(* What a step may do to a row. *)

RowStays(o) ==
    /\ status'[o] = status[o] /\ verified'[o] = verified[o]
    /\ link'[o] = link[o] /\ reference'[o] = reference[o]

RowInserted(o) ==
    /\ status[o] = "absent" /\ status'[o] = "created"
    /\ verified'[o] = verified[o] /\ reference'[o] = reference[o]
    /\ link'[o].amount # 0 /\ link'[o].payable >= link'[o].amount
    /\ link'[o].gid = ids + 1 /\ ids' = ids + 1 /\ link'[o].token = 0 /\ link'[o].url = 0
    /\ link'[o].payer.key \in Keys
    /\ IdentityKey(o, link'[o].payer.key) \in known'

RowLinked(o, h) ==
    /\ ctx[h].pc = "getlink" /\ ctx[h].order = o
    /\ verified'[o] = verified[o] /\ reference'[o] = reference[o]
    /\ \/ status'[o] = "link_created" /\ link'[o] = Live(ctx[h].draft)
       \/ status'[o] = "getlink_failed" /\ link'[o] = ctx[h].draft

RowReferred(o, x) ==
    /\ ctx[x].order = o /\ VerifyAnomaly(x) /\ status'[o] = "manual_review"
    /\ verified'[o] = verified[o] /\ link'[o] = link[o] /\ reference'[o] = reference[o]

RowSettled(o, x) ==
    /\ ctx[x].order = o /\ CommitSettlement(x) /\ status'[o] = "bot_notify_pending"
    /\ verified'[o] /\ link'[o] = link[o] /\ reference'[o] = ctx[x].ref
    /\ \A q \in Orders \ {o} : reference'[q] = reference[q]

RowStep(o) ==
    \/ RowStays(o)
    \/ RowInserted(o)
    \/ \E h \in Handlers : RowLinked(o, h)
    \/ \E x \in Procs : RowReferred(o, x)
    \/ \E x \in Procs : RowSettled(o, x)

(* Every row takes a legal step, and one row at a time. *)
RowsStep ==
    /\ \A o \in Orders : RowStep(o)
    /\ \A o, q \in Orders : o # q => RowStays(o) \/ RowStays(q)

LEMMA RowsStay ==
    ASSUME UNCHANGED <<status, verified, link, reference>>
    PROVE  RowsStep
  BY DEF RowsStep, RowStep, RowStays

LEMMA OneRowSteps ==
    ASSUME NEW q \in Orders, RowStep(q), \A o \in Orders \ {q} : RowStays(o)
    PROVE  RowsStep
  BY DEF RowsStep, RowStep

LEMMA InsertSteps ==
    ASSUME TypeOK, TypeOK', NEW h \in Handlers, NEW q \in Orders, NEW key \in Keys, NEW amount \in Nat,
           NEW e \in BOOLEAN, EnsureRow(h, q, key, amount, e),
           status[q] # "absent" \/ amount # 0
    PROVE  RowsStep /\ known \subseteq known' /\ ids <= ids'
  <1>1. /\ known \subseteq known' /\ UNCHANGED <<verified, reference>>
        /\ ~RetiredMatch(q, key) => IdentityKey(q, key) \in known'
    BY EnsureRowEffect
  <1>2. CASE status[q] = "absent"
    <2>1. /\ status' = [status EXCEPT ![q] = "created"] /\ ids' = ids + 1
          /\ \E l \in Link : /\ link' = [link EXCEPT ![q] = l]
                             /\ l.amount = amount /\ l.payable >= amount
                             /\ l.payer = CurrentPayer(key)
                             /\ l.gid = ids + 1 /\ l.token = 0 /\ l.url = 0
      BY <1>2, EnsureRowEffect
    <2>2. CurrentPayer(key).key = key
      BY CurrentPayerLemma
    <2>3. IdentityKey(q, key) \in known'
      BY <1>1, <1>2 DEF RetiredMatch
    <2>4. RowInserted(q)
      BY <1>1, <1>2, <2>1, <2>2, <2>3 DEF RowInserted, TypeOK
    <2>5. \A o \in Orders \ {q} : RowStays(o)
      BY <1>1, <2>1 DEF RowStays, TypeOK
    <2>6. ids <= ids'
      BY <2>1 DEF TypeOK, GatewayIds
    <2>7. RowsStep
      BY <2>4, <2>5, OneRowSteps DEF RowStep
    <2> QED BY <1>1, <2>6, <2>7
  <1>3. CASE status[q] # "absent"
    <2>1. UNCHANGED <<status, link, ids>>
      BY <1>3 DEF EnsureRow
    <2> QED BY <1>1, <2>1, RowsStay DEF TypeOK, GatewayIds
  <1> QED BY <1>2, <1>3

LEMMA RowSteps ==
    ASSUME TypeOK, TypeOK', ExemptInv, Kinds
    PROVE  RowsStep /\ known \subseteq known' /\ ids <= ids'
  <1> USE HandlersAreProcs
  <1> DEFINE Goal == RowsStep /\ known \subseteq known' /\ ids <= ids'
  <1>0. ASSUME UNCHANGED <<status, verified, link, reference>>, known' = known, ids' = ids
        PROVE  Goal
    <2>1. ids <= ids'
      BY <1>0 DEF TypeOK, GatewayIds
    <2> QED BY <1>0, <2>1, RowsStay
  <1>1. ASSUME Quiet PROVE Goal
    BY <1>0, <1>1 DEF Quiet
  <1>2. ASSUME NEW h \in Handlers, NEW o \in Orders, NEW key \in Keys, NEW amount \in Amounts,
               AdmitReplay(h, o, key, amount)
        PROVE  Goal
    BY <1>0, <1>2 DEF AdmitReplay, rowVars, drawVars
  <1>3. ASSUME NEW h \in Handlers, NEW o \in Orders, NEW key \in Keys, NEW amount \in Amounts,
               BeginCreate(h, o, key, amount)
        PROVE  Goal
    BY <1>3, BeginCreateIsEnsureRow, InsertSteps
  <1>4. ASSUME NEW h \in Handlers, BeginReplay(h)
        PROVE  Goal
    <2>1. /\ ctx[h].order \in Orders /\ ctx[h].key \in Keys /\ ctx[h].amount \in Nat
          /\ EnsureRow(h, ctx[h].order, ctx[h].key, ctx[h].amount, TRUE)
      BY <1>4, BeginReplayIsEnsureRow
    <2>2. status[ctx[h].order] # "absent"
      BY <1>4 DEF BeginReplay, ExemptInv, LINKED_STATUSES
    <2> QED BY <2>1, <2>2, InsertSteps
  <1>5. ASSUME NEW h \in Handlers, ReturnExistingLink(h)
        PROVE  Goal
    BY <1>0, <1>5 DEF ReturnExistingLink, rowVars, drawVars
  <1>6. ASSUME NEW h \in Handlers, StartGetLink(h)
        PROVE  Goal
    <2>1. ctx[h].order \in Orders
      BY <1>6, BusyOrder DEF StartGetLink
    <2>2. ids' = ids \/ ids' = ids + 1
      BY <1>6, <2>1, StartGetLinkEffect
    <2>3. UNCHANGED <<status, verified, link, reference, known>>
      BY <1>6 DEF StartGetLink, rowVars
    <2> QED BY <2>2, <2>3, RowsStay DEF TypeOK, GatewayIds
  <1>7. ASSUME NEW h \in Handlers, GetLinkEnds(h)
        PROVE  Goal
    <2>1. PICK q \in Orders : q = ctx[h].order
      BY <1>7, BusyOrder DEF GetLinkEnds, GetLinkSucceeds, GetLinkFails, CrashDuringCreate
    <2>2. CASE CrashDuringCreate(h)
      BY <1>0, <2>2 DEF CrashDuringCreate, rowVars, drawVars
    <2>3. CASE GetLinkSucceeds(h) \/ GetLinkFails(h)
      <3>1. /\ UNCHANGED <<verified, reference, drawVars>>
            /\ \A o \in Orders \ {q} : link'[o] = link[o]
            /\ \/ /\ status' = [status EXCEPT ![q] = "link_created"]
                  /\ link'[q] = Live(ctx[h].draft)
               \/ /\ status' = [status EXCEPT ![q] = "getlink_failed"]
                  /\ link'[q] = ctx[h].draft
        BY <2>1, <2>3, GetLinkSucceedsEffect, GetLinkFailsEffect
      <3>2. ctx[h].pc = "getlink"
        BY <2>3 DEF GetLinkSucceeds, GetLinkFails
      <3>3. RowLinked(q, h)
        BY <2>1, <3>1, <3>2 DEF RowLinked, TypeOK
      <3>4. \A o \in Orders \ {q} : RowStays(o)
        BY <3>1 DEF RowStays, TypeOK
      <3>5. known' = known /\ ids <= ids'
        BY <3>1 DEF drawVars, TypeOK, GatewayIds
      <3>6. RowsStep
        BY <3>3, <3>4, OneRowSteps DEF RowStep
      <3> QED BY <3>5, <3>6
    <2> QED BY <1>7, <2>2, <2>3 DEF GetLinkEnds
  <1>8. ASSUME NEW h \in Handlers, NEW o \in Orders, Asks(h, o)
        PROVE  Goal
    BY <1>0, <1>8, AskingEffect DEF Asks, rowVars, drawVars
  <1>9. ASSUME NEW r \in Reconcilers, NEW o \in Orders, ClaimDue(r, o)
        PROVE  Goal
    BY <1>0, <1>9 DEF ClaimDue, rowVars, drawVars
  <1>10. ASSUME NEW x \in Procs, VerifyPaid(x)
         PROVE  Goal
    BY <1>0, <1>10 DEF VerifyPaid, rowVars, drawVars
  <1>11. ASSUME NEW x \in Procs, Settles(x)
         PROVE  Goal
    <2>1. PICK q \in Orders : q = ctx[x].order
      BY <1>11, BusyOrder DEF Settles, VerifyAnomaly, CommitSettlement
    <2>2. /\ EndsAttempt(x)
          /\ \/ VerifyAnomaly(x) /\ status' = [status EXCEPT ![q] = "manual_review"]
                                 /\ UNCHANGED <<verified, reference>>
             \/ CommitSettlement(x) /\ status' = [status EXCEPT ![q] = "bot_notify_pending"]
                                    /\ verified' = [verified EXCEPT ![q] = TRUE]
                                    /\ reference' = [reference EXCEPT ![q] = ctx[x].ref]
      BY <1>11, <2>1, SettlesEffect DEF Settles
    <2>3. link' = link /\ known' = known /\ ids' = ids
      BY <2>2 DEF EndsAttempt, drawVars
    <2>4. RowReferred(q, x) \/ RowSettled(q, x)
      BY <2>1, <2>2, <2>3 DEF RowReferred, RowSettled, TypeOK
    <2>5. \A o \in Orders \ {q} : RowStays(o)
      BY <2>2, <2>3 DEF RowStays, TypeOK
    <2>6. RowsStep
      BY <2>4, <2>5, OneRowSteps DEF RowStep
    <2> QED BY <2>3, <2>6 DEF TypeOK, GatewayIds
  <1>12. ASSUME NEW l \in offers, Pay(l)
         PROVE  Goal
    BY <1>0, <1>12, PayEffect DEF rowVars, drawVars
  <1> HIDE DEF Goal
  <1>13. Goal
    BY <1>1, <1>2, <1>3, <1>4, <1>5, <1>6, <1>7, <1>8, <1>9, <1>10, <1>11, <1>12 DEF Kinds
  <1> QED BY <1>13 DEF Goal

-----------------------------------------------------------------------------
(* The rows. *)

LEMMA DraftFacts ==
    ASSUME TypeOK, ExclusiveSettlement, DraftInv, RowInv,
           NEW h \in Procs, ctx[h].pc = "getlink", NEW o \in Orders, o = ctx[h].order
    PROVE  /\ ctx[h].draft \in Link
           /\ status[o] \in {"created", "getlink_failed"} /\ ~verified[o]
           /\ link[o].url = 0
           /\ ctx[h].draft.url = 0 /\ ctx[h].draft.token # 0
           /\ ctx[h].draft.amount = link[o].amount
           /\ ctx[h].draft.payable = link[o].payable
           /\ ctx[h].draft.gid # 0 /\ ctx[h].draft.gid <= ids
           /\ link[o].payer.key \in Users => ctx[h].draft.payer = link[o].payer
           /\ SameUser(ctx[h].key, ctx[h].draft.payer)
           /\ Mapped(o, ctx[h].draft.payer)
  <1>1. ctx[h].draft \in Link
    BY TypeFacts DEF Context
  <1>2. ~verified[o]
    BY DEF ExclusiveSettlement, Settled
  <1> QED BY <1>1, <1>2 DEF DraftInv, RowInv

LEMMA SettlingFacts ==
    ASSUME TypeOK, ExclusiveSettlement, SettleInv, NEW x \in Procs,
           ctx[x].pc \in {"verify", "settle"}, NEW o \in Orders, o = ctx[x].order
    PROVE  /\ status[o] # "absent" /\ ~verified[o] /\ ~Settled(o)
           /\ status[o] # "manual_review"
  BY DEF ExclusiveSettlement, SettleInv, Settled

LEMMA RowInvStep ==
    ASSUME TypeOK, TypeOK', ExclusiveSettlement, RowInv, DraftInv, SettleInv,
           \A o \in Orders : RowStep(o), ids <= ids'
    PROVE  RowInv'
  <1> USE HandlersAreProcs
  <1> DEFINE P(o) == /\ status'[o] = "absent" => link'[o] = BlankLink
                     /\ status'[o] # "absent" =>
                          /\ link'[o].gid # 0 /\ link'[o].gid <= ids'
                          /\ link'[o].amount # 0 /\ link'[o].payable >= link'[o].amount
                     /\ status'[o] \in {"created", "getlink_failed"} => link'[o].url = 0
                     /\ status'[o] = "link_created" =>
                          link'[o].url # 0 /\ link'[o].url = link'[o].token
                     /\ verified'[o] => status'[o] \in VERIFIED_STATUSES \cup {"manual_review"}
  <1> SUFFICES ASSUME NEW o \in Orders
               PROVE  P(o)
    BY DEF RowInv
  <1>0. /\ ids \in Nat /\ ids' \in Nat /\ link[o] \in Link /\ link[o].gid \in Nat
        /\ link[o].gid <= ids => link[o].gid <= ids'
    BY BoundsAssumption, TypeFacts DEF TypeOK, GatewayIds, Link
  <1>1. ASSUME RowStays(o) PROVE P(o)
    BY <1>0, <1>1 DEF RowStays, RowInv
  <1>2. ASSUME RowInserted(o) PROVE P(o)
    <2>1. ~verified[o]
      BY <1>2 DEF RowInserted, RowInv, VERIFIED_STATUSES
    <2> QED BY <1>0, <1>2, <2>1 DEF RowInserted
  <1>3. ASSUME NEW h \in Handlers, RowLinked(o, h)
        PROVE  P(o)
    <2>1. /\ ctx[h].pc = "getlink" /\ ctx[h].order = o /\ ~verified[o]
          /\ status[o] # "absent"
      BY <1>3, DraftFacts DEF RowLinked
    <2>2. /\ ctx[h].draft \in Link /\ ctx[h].draft.url = 0 /\ ctx[h].draft.token # 0
          /\ ctx[h].draft.amount = link[o].amount
          /\ ctx[h].draft.payable = link[o].payable
          /\ ctx[h].draft.gid # 0 /\ ctx[h].draft.gid <= ids
      BY <2>1, DraftFacts
    <2>3. ctx[h].draft.gid <= ids'
      BY <1>0, <2>2 DEF Link, GatewayIds
    <2>4. link[o].amount # 0 /\ link[o].payable >= link[o].amount
      BY <2>1 DEF RowInv
    <2>5. CASE status'[o] = "link_created" /\ link'[o] = Live(ctx[h].draft)
      BY <1>3, <2>1, <2>2, <2>3, <2>4, <2>5, LiveLemma DEF RowLinked
    <2>6. CASE status'[o] = "getlink_failed" /\ link'[o] = ctx[h].draft
      BY <1>3, <2>1, <2>2, <2>3, <2>4, <2>6 DEF RowLinked
    <2> QED BY <1>3, <2>5, <2>6 DEF RowLinked
  <1>4. ASSUME NEW x \in Procs, RowReferred(o, x)
        PROVE  P(o)
    <2>1. status[o] # "absent"
      BY <1>4, SettlingFacts DEF RowReferred, VerifyAnomaly
    <2> QED BY <1>0, <1>4, <2>1 DEF RowReferred, RowInv
  <1>5. ASSUME NEW x \in Procs, RowSettled(o, x)
        PROVE  P(o)
    <2>1. status[o] # "absent"
      BY <1>5, SettlingFacts DEF RowSettled, CommitSettlement
    <2> QED BY <1>0, <1>5, <2>1 DEF RowSettled, RowInv, VERIFIED_STATUSES
  <1> HIDE DEF P
  <1> QED BY <1>1, <1>2, <1>3, <1>4, <1>5 DEF RowStep

LEMMA MappedInvStep ==
    ASSUME TypeOK, TypeOK', ExclusiveSettlement, RowInv, MappedInv, DraftInv, SettleInv,
           \A o \in Orders : RowStep(o), known \subseteq known'
    PROVE  MappedInv'
  <1> USE HandlersAreProcs
  <1> DEFINE P(o) == status'[o] # "absent" =>
                       (link'[o].payer.key \in Keys /\ ~link'[o].payer.retired
                          => IdentityKey(o, link'[o].payer.key) \in known')
  <1> SUFFICES ASSUME NEW o \in Orders
               PROVE  P(o)
    BY DEF MappedInv, Mapped
  <1>1. ASSUME RowStays(o) PROVE P(o)
    BY <1>1 DEF RowStays, MappedInv, Mapped
  <1>2. ASSUME RowInserted(o) PROVE P(o)
    BY <1>2 DEF RowInserted
  <1>3. ASSUME NEW h \in Handlers, RowLinked(o, h)
        PROVE  P(o)
    <2>1. ctx[h].draft \in Link /\ Mapped(o, ctx[h].draft.payer)
      BY <1>3, DraftFacts DEF RowLinked
    <2>2. link'[o].payer = ctx[h].draft.payer
      BY <1>3, <2>1, LiveLemma DEF RowLinked
    <2> QED BY <2>1, <2>2 DEF Mapped
  <1>4. ASSUME NEW x \in Procs, RowReferred(o, x) \/ RowSettled(o, x)
        PROVE  P(o)
    <2>1. status[o] # "absent" /\ link'[o] = link[o]
      BY <1>4, SettlingFacts DEF RowReferred, VerifyAnomaly, RowSettled, CommitSettlement
    <2> QED BY <2>1 DEF MappedInv, Mapped
  <1> HIDE DEF P
  <1> QED BY <1>1, <1>2, <1>3, <1>4 DEF RowStep

(* What survives every step once the row exists. *)
RowKept(o) ==
    /\ status'[o] # "absent"
    /\ link'[o].amount = link[o].amount /\ link'[o].payable = link[o].payable
    /\ link[o].payer.key \in Users => link'[o].payer = link[o].payer
    /\ status[o] \in LINKED_STATUSES => status'[o] \in LINKED_STATUSES /\ link'[o] = link[o]

LEMMA RowsKept ==
    ASSUME TypeOK, ExclusiveSettlement, RowInv, DraftInv, SettleInv,
           NEW o \in Orders, RowStep(o), status[o] # "absent"
    PROVE  RowKept(o)
  <1> USE HandlersAreProcs
  <1>1. CASE RowStays(o)
    BY <1>1 DEF RowStays, RowKept
  <1>2. CASE RowInserted(o)
    BY <1>2 DEF RowInserted
  <1>3. ASSUME NEW h \in Handlers, RowLinked(o, h)
        PROVE  RowKept(o)
    <2>1. /\ ctx[h].draft \in Link /\ status[o] \in {"created", "getlink_failed"}
          /\ ctx[h].draft.amount = link[o].amount
          /\ ctx[h].draft.payable = link[o].payable
          /\ link[o].payer.key \in Users => ctx[h].draft.payer = link[o].payer
      BY <1>3, DraftFacts DEF RowLinked
    <2>2. /\ link'[o].amount = ctx[h].draft.amount /\ link'[o].payable = ctx[h].draft.payable
          /\ link'[o].payer = ctx[h].draft.payer
      BY <1>3, <2>1, LiveLemma DEF RowLinked
    <2> QED BY <1>3, <2>1, <2>2 DEF RowLinked, RowKept, LINKED_STATUSES
  <1>4. ASSUME NEW x \in Procs, RowReferred(o, x) \/ RowSettled(o, x)
        PROVE  RowKept(o)
    BY <1>4 DEF RowReferred, RowSettled, RowKept, LINKED_STATUSES
  <1> QED BY <1>1, <1>2, <1>3, <1>4 DEF RowStep

-----------------------------------------------------------------------------
(* Requests and their drafts. *)

LEMMA CreateInvStep ==
    ASSUME TypeOK, TypeOK', ExclusiveSettlement, RowInv, CreateInv, DraftInv, SettleInv, Kinds,
           \A o \in Orders : RowStep(o), known \subseteq known'
    PROVE  CreateInv'
  <1> USE HandlersAreProcs
  <1> SUFFICES ASSUME NEW y \in Procs, ctx'[y].pc = "create"
               PROVE  /\ status'[ctx'[y].order] # "absent"
                      /\ ctx'[y].retired /\ ctx'[y].key \in Users =>
                           link'[ctx'[y].order].payer.key = ctx'[y].key
                      /\ ~ctx'[y].retired => IdentityKey(ctx'[y].order, ctx'[y].key) \in known'
    BY DEF CreateInv
  <1>0. PICK o \in Orders : o = ctx'[y].order
    BY DEF TypeOK
  <1> DEFINE Goal == /\ status'[o] # "absent"
                     /\ ctx'[y].retired /\ ctx'[y].key \in Users =>
                          link'[o].payer.key = ctx'[y].key
                     /\ ~ctx'[y].retired => IdentityKey(o, ctx'[y].key) \in known'
  <1>1. ASSUME ctx'[y] = ctx[y]
        PROVE  Goal
    <2>1. /\ status[o] # "absent"
          /\ ctx[y].retired /\ ctx[y].key \in Users => link[o].payer.key = ctx[y].key
          /\ ~ctx[y].retired => IdentityKey(o, ctx[y].key) \in known
      BY <1>0, <1>1 DEF CreateInv
    <2>2. RowKept(o)
      BY <2>1, RowsKept
    <2> QED BY <1>1, <2>1, <2>2 DEF RowKept
  <1>2. ASSUME y \in Handlers, NEW q \in Orders, NEW key \in Keys, NEW amount \in Nat,
               NEW e \in BOOLEAN, EnsureRow(y, q, key, amount, e)
        PROVE  Goal
    <2>1. /\ ctx'[y].order = q /\ ctx'[y].key = key /\ ctx'[y].retired = RetiredMatch(q, key)
          /\ ~RetiredMatch(q, key) => IdentityKey(q, key) \in known'
      BY ONLY TypeOK, <1>2, EnsureRowEffect
    <2>2. CASE status[q] = "absent"
      <3>1. status' = [status EXCEPT ![q] = "created"]
        BY <1>2, <2>2, EnsureRowEffect
      <3>2. ~RetiredMatch(q, key)
        BY <2>2 DEF RetiredMatch
      <3> QED BY <1>0, <2>1, <3>1, <3>2 DEF TypeOK
    <2>3. CASE status[q] # "absent"
      <3>1. UNCHANGED <<status, link>>
        BY <1>2, <2>3 DEF EnsureRow
      <3> QED BY <1>0, <2>1, <2>3, <3>1 DEF RetiredMatch
    <2> QED BY <2>2, <2>3
  <1>3. ASSUME y \in Handlers, NEW q \in Orders, NEW key \in Keys, NEW amount \in Amounts,
               AdmitReplay(y, q, key, amount)
        PROVE  Goal
    BY <1>3, AdmitReplayEffect
  <1>4. ASSUME y \in Handlers, NEW q \in Orders, NEW key \in Keys, NEW amount \in Amounts,
               BeginCreate(y, q, key, amount)
        PROVE  Goal
    BY <1>2, <1>4, BeginCreateIsEnsureRow
  <1>5. ASSUME y \in Handlers, BeginReplay(y)
        PROVE  Goal
    BY <1>2, <1>5, BeginReplayIsEnsureRow
  <1>6. ASSUME y \in Handlers, StartGetLink(y)
        PROVE  Goal
    <2>1. ctx[y].order \in Orders
      BY <1>6, BusyOrder DEF StartGetLink
    <2> QED BY <1>6, <2>1, StartGetLinkEffect
  <1>7. ASSUME y \in Handlers, NEW q \in Orders, Asks(y, q)
        PROVE  Goal
    BY <1>7, AskingEffect DEF Asks
  <1>8. ASSUME y \in Reconcilers, NEW q \in Orders, ClaimDue(y, q)
        PROVE  Goal
    BY <1>8, ClaimDueEffect
  <1>9. ASSUME VerifyPaid(y)
        PROVE  Goal
    <2>1. ctx[y].order \in Orders
      BY <1>9, BusyOrder DEF VerifyPaid
    <2> QED BY <1>9, <2>1, VerifyPaidEffect DEF VerifyPaidEffectOn
  <1> HIDE DEF Goal
  <1>10. Goal
    BY Movers, <1>1, <1>3, <1>4, <1>5, <1>6, <1>7, <1>8, <1>9
  <1> QED BY <1>0, <1>10 DEF Goal

(* What _reconcile_identity decides never crosses two users. *)
LEMMA DecisionLemma ==
    ASSUME TypeOK, NEW h \in Handlers, NEW o \in Orders, o = ctx[h].order,
           CreateInv, ctx[h].pc = "create", IdentityDecision(h) # "reject"
    PROVE  /\ IdentityDecision(h) = "adopt" =>
                ~ctx[h].retired /\ link[o].payer.key \notin Users
           /\ IdentityDecision(h) # "adopt" => SameUser(ctx[h].key, link[o].payer)
  <1> DEFINE key == ctx[h].key
             stored == link[o].payer
             unlessLive == IF LiveLink(o) THEN "reuse" ELSE "adopt"
  <1>0. /\ key \in Keys /\ stored \in Payers /\ h \in Procs
        /\ "order" \notin Users /\ "shared" \notin Users
    BY TypeFacts, HandlersAreProcs, NamesAssumption DEF Context, Link
  <1>1. CASE ctx[h].retired
    <2>1. IdentityDecision(h) = "reuse"
      BY <1>1 DEF IdentityDecision
    <2>2. key \in Users => stored.key = key
      BY <1>0, <1>1 DEF CreateInv
    <2> QED BY <2>1, <2>2 DEF SameUser
  <1>2. CASE ~ctx[h].retired /\ stored.key = "shared"
    BY <1>0, <1>2 DEF SameUser
  <1>3. CASE ~ctx[h].retired /\ stored.key # "shared"
    <2>1. IdentityDecision(h) =
            CASE stored = CurrentPayer(key) -> "reuse"
              [] stored.key \in Users /\ key = "order" -> "reuse"
              [] stored.key = "order" /\ key \in Users -> unlessLive
              [] OTHER -> "reject"
      BY <1>3 DEF IdentityDecision
    <2>2. CurrentPayer(key).key = key
      BY <1>0, CurrentPayerLemma
    <2>3. CASE stored = CurrentPayer(key)
      BY <1>0, <2>1, <2>2, <2>3 DEF SameUser
    <2>4. CASE stored # CurrentPayer(key) /\ stored.key \in Users /\ key = "order"
      BY <1>0, <2>1, <2>4 DEF SameUser
    <2>5. CASE stored # CurrentPayer(key) /\ stored.key = "order" /\ key \in Users
      BY <1>0, <1>3, <2>1, <2>5 DEF SameUser
    <2>6. CASE /\ stored # CurrentPayer(key) /\ ~(stored.key \in Users /\ key = "order")
               /\ ~(stored.key = "order" /\ key \in Users)
      BY <2>1, <2>6
    <2> QED BY <2>3, <2>4, <2>5, <2>6
  <1> QED BY <1>1, <1>2, <1>3

(* What the draft of a new attempt is made of. *)
LEMMA DraftStart ==
    ASSUME TypeOK, TypeOK', RowInv, MappedInv, CreateInv, NEW h \in Handlers, StartGetLink(h),
           NEW o \in Orders, o = ctx[h].order
    PROVE  /\ ctx'[h].order = o /\ UNCHANGED <<status, link, known>>
           /\ status[o] \in {"created", "getlink_failed"}
           /\ ctx'[h].draft.url = 0
           /\ ctx'[h].draft.token # 0
           /\ ctx'[h].draft.amount = link[o].amount
           /\ ctx'[h].draft.payable = link[o].payable
           /\ ctx'[h].draft.gid # 0 /\ ctx'[h].draft.gid <= ids'
           /\ link[o].payer.key \in Users => ctx'[h].draft.payer = link[o].payer
           /\ SameUser(ctx'[h].key, ctx'[h].draft.payer)
           /\ Mapped(o, ctx'[h].draft.payer)
  <1> DEFINE key == ctx[h].key
             p == ctx'[h].draft.payer
  <1>1. /\ ctx'[h].order = o /\ ctx'[h].key = key
        /\ ctx'[h].draft.amount = link[o].amount
        /\ ctx'[h].draft.payable = link[o].payable
        /\ ctx'[h].draft.url = link[o].url
        /\ ctx'[h].draft.token # 0
        /\ p = IF IdentityDecision(h) = "adopt" THEN CurrentPayer(key) ELSE link[o].payer
        /\ \/ ctx'[h].draft.gid = link[o].gid /\ ids' = ids
           \/ ctx'[h].draft.gid = ids + 1 /\ ids' = ids + 1
    BY StartGetLinkEffect
  <1>2. /\ UNCHANGED <<status, link, known>> /\ ctx[h].pc = "create"
        /\ ~Settled(o) /\ status[o] # "manual_review" /\ ~HasLink(o)
        /\ IdentityDecision(h) # "reject"
    BY DEF StartGetLink, Refused, rowVars
  <1>3. h \in Procs /\ key \in Keys /\ ids \in Nat /\ link[o].gid \in Nat
    <2>1. h \in Procs /\ key \in Keys /\ link[o].gid \in GatewayIds
      BY TypeFacts, HandlersAreProcs DEF Context, Link
    <2> QED BY <2>1, BoundsAssumption DEF TypeOK, GatewayIds
  <1>4. /\ status[o] # "absent"
        /\ ~ctx[h].retired => IdentityKey(o, key) \in known
    BY <1>2, <1>3 DEF CreateInv
  <1>5. status[o] \in {"created", "getlink_failed"}
    BY <1>2, <1>4 DEF RowInv, HasLink, Settled, TypeOK, PaymentStatus, VERIFIED_STATUSES
  <1>6. ctx'[h].draft.url = 0 /\ link[o].gid # 0 /\ link[o].gid <= ids
    BY <1>1, <1>5 DEF RowInv
  <1>7. ctx'[h].draft.gid # 0 /\ ctx'[h].draft.gid <= ids'
    BY <1>1, <1>3, <1>6
  <1>8. /\ IdentityDecision(h) = "adopt" => ~ctx[h].retired /\ link[o].payer.key \notin Users
        /\ IdentityDecision(h) # "adopt" => SameUser(key, link[o].payer)
    BY <1>2, DecisionLemma
  <1>9. CASE IdentityDecision(h) = "adopt"
    <2>1. p = CurrentPayer(key) /\ p.key = key
      BY <1>1, <1>3, <1>9, CurrentPayerLemma
    <2>2. SameUser(key, p) /\ Mapped(o, p)
      BY <1>4, <1>8, <1>9, <2>1 DEF SameUser, Mapped
    <2> QED BY <1>1, <1>2, <1>5, <1>6, <1>7, <1>8, <1>9, <2>2
  <1>10. CASE IdentityDecision(h) # "adopt"
    <2>1. p = link[o].payer
      BY <1>1, <1>10
    <2>2. SameUser(key, p) /\ Mapped(o, p)
      BY <1>4, <1>8, <1>10, <2>1 DEF MappedInv
    <2> QED BY <1>1, <1>2, <1>5, <1>6, <1>7, <2>1, <2>2
  <1> QED BY <1>9, <1>10

(* Nobody else's draft moves. *)
LEMMA DraftMovers ==
    ASSUME TypeOK, Kinds, NEW y \in Procs, ctx'[y].pc = "getlink"
    PROVE  \/ ctx'[y] = ctx[y]
           \/ y \in Handlers /\ StartGetLink(y)
  <1> USE HandlersAreProcs
  <1>1. ASSUME y \in Handlers, NEW q \in Orders, NEW key \in Keys, NEW amount \in Amounts,
               AdmitReplay(y, q, key, amount) \/ BeginCreate(y, q, key, amount)
        PROVE  FALSE
    BY <1>1, AdmitReplayEffect, BeginCreateIsEnsureRow, EnsureRowEffect
  <1>2. ASSUME y \in Handlers, BeginReplay(y)
        PROVE  FALSE
    BY <1>2, BeginReplayIsEnsureRow, EnsureRowEffect
  <1>3. ASSUME y \in Handlers, NEW q \in Orders, Asks(y, q)
        PROVE  FALSE
    BY <1>3, AskingEffect DEF Asks
  <1>4. ASSUME y \in Reconcilers, NEW q \in Orders, ClaimDue(y, q)
        PROVE  FALSE
    BY <1>4, ClaimDueEffect
  <1>5. ASSUME VerifyPaid(y)
        PROVE  FALSE
    <2>1. ctx[y].order \in Orders
      BY <1>5, BusyOrder DEF VerifyPaid
    <2> QED BY <1>5, <2>1, VerifyPaidEffect DEF VerifyPaidEffectOn
  <1> QED BY Movers, <1>1, <1>2, <1>3, <1>4, <1>5

LEMMA DraftInvStep ==
    ASSUME TypeOK, TypeOK', ExclusiveSettlement, RowInv, MappedInv, CreateInv, DraftInv, Kinds,
           known \subseteq known', ids <= ids'
    PROVE  DraftInv'
  <1> USE HandlersAreProcs
  <1> DEFINE P(y, o) ==
         /\ status'[o] \in {"created", "getlink_failed"}
         /\ ctx'[y].draft.url = 0
         /\ ctx'[y].draft.token # 0
         /\ ctx'[y].draft.amount = link'[o].amount
         /\ ctx'[y].draft.payable = link'[o].payable
         /\ ctx'[y].draft.gid # 0 /\ ctx'[y].draft.gid <= ids'
         /\ link'[o].payer.key \in Users => ctx'[y].draft.payer = link'[o].payer
         /\ SameUser(ctx'[y].key, ctx'[y].draft.payer)
         /\ (ctx'[y].draft.payer.key \in Keys /\ ~ctx'[y].draft.payer.retired
              => IdentityKey(o, ctx'[y].draft.payer.key) \in known')
  <1> SUFFICES ASSUME NEW y \in Procs, ctx'[y].pc = "getlink"
               PROVE  P(y, ctx'[y].order)
    BY DEF DraftInv, Mapped, SameUser
  <1>0. PICK o \in Orders : o = ctx'[y].order
    BY DEF TypeOK
  <1>1. ASSUME ctx'[y] = ctx[y]
        PROVE  P(y, o)
    <2>1. /\ ctx[y].draft \in Link /\ status[o] \in {"created", "getlink_failed"}
          /\ ctx[y].draft.url = 0 /\ ctx[y].draft.token # 0
          /\ ctx[y].draft.amount = link[o].amount
          /\ ctx[y].draft.payable = link[o].payable
          /\ ctx[y].draft.gid # 0 /\ ctx[y].draft.gid <= ids
          /\ link[o].payer.key \in Users => ctx[y].draft.payer = link[o].payer
          /\ SameUser(ctx[y].key, ctx[y].draft.payer)
          /\ Mapped(o, ctx[y].draft.payer)
      BY <1>0, <1>1, DraftFacts
    <2>2. status'[o] = status[o] /\ link'[o] = link[o]
      BY <1>0, <1>1, <2>1, HolderSafe DEF Locking
    <2>3. ctx[y].draft.gid <= ids'
      BY <2>1, BoundsAssumption DEF TypeOK, Link, GatewayIds
    <2> QED BY <1>1, <2>1, <2>2, <2>3 DEF Mapped
  <1>2. ASSUME y \in Handlers, StartGetLink(y)
        PROVE  P(y, o)
    <2>1. PICK q \in Orders : q = ctx[y].order
      BY <1>2, BusyOrder DEF StartGetLink
    <2>2. q = o
      BY <1>0, <1>2, <2>1, DraftStart
    <2>3. /\ UNCHANGED <<status, link, known>>
          /\ status[o] \in {"created", "getlink_failed"}
          /\ ctx'[y].draft.url = 0
          /\ ctx'[y].draft.token # 0
          /\ ctx'[y].draft.amount = link[o].amount
          /\ ctx'[y].draft.payable = link[o].payable
          /\ ctx'[y].draft.gid # 0 /\ ctx'[y].draft.gid <= ids'
          /\ link[o].payer.key \in Users => ctx'[y].draft.payer = link[o].payer
          /\ SameUser(ctx'[y].key, ctx'[y].draft.payer)
          /\ Mapped(o, ctx'[y].draft.payer)
      BY <1>2, <2>1, <2>2, DraftStart
    <2> QED BY <2>3 DEF Mapped
  <1> HIDE DEF P
  <1>3. P(y, o)
    BY DraftMovers, <1>1, <1>2
  <1> QED BY <1>0, <1>3

LEMMA ExemptInvStep ==
    ASSUME TypeOK, TypeOK', ExclusiveSettlement, RowInv, DraftInv, SettleInv, ExemptInv, Kinds,
           \A o \in Orders : RowStep(o)
    PROVE  ExemptInv'
  <1> USE HandlersAreProcs
  <1> DEFINE P(y) ==
         /\ ctx'[y].pc = "replay" => ctx'[y].exempt
         /\ ctx'[y].exempt =>
              /\ ctx'[y].pc \in {"replay", "create"}
              /\ status'[ctx'[y].order] \in LINKED_STATUSES
              /\ link'[ctx'[y].order].url # 0
              /\ link'[ctx'[y].order].payer.key = ctx'[y].key
  <1> SUFFICES ASSUME NEW y \in Procs PROVE P(y)
    BY DEF ExemptInv
  <1>0. ASSUME NEW o \in Orders, status[o] \in LINKED_STATUSES
        PROVE  status'[o] \in LINKED_STATUSES /\ link'[o] = link[o]
    BY <1>0, RowsKept DEF RowKept, LINKED_STATUSES
  <1>1. ASSUME ctx'[y] = ctx[y]
        PROVE  P(y)
    <2>1. CASE ctx[y].exempt
      <3>1. PICK o \in Orders : o = ctx[y].order
        BY <2>1 DEF ExemptInv, TypeOK
      <3>2. /\ ctx[y].pc \in {"replay", "create"}
            /\ status[o] \in LINKED_STATUSES
            /\ link[o].url # 0
            /\ link[o].payer.key = ctx[y].key
        BY <2>1, <3>1 DEF ExemptInv
      <3>3. status'[o] \in LINKED_STATUSES /\ link'[o] = link[o]
        BY <1>0, <3>2
      <3> QED BY <1>1, <2>1, <3>1, <3>2, <3>3
    <2>2. CASE ~ctx[y].exempt
      BY <1>1, <2>2 DEF ExemptInv
    <2> QED BY <2>1, <2>2
  <1>2. ASSUME /\ ctx'[y].pc \in {"idle", "finalize"}
               /\ ctx'[y].exempt => ctx[y].exempt /\ ctx[y].pc \in {"verify", "settle"}
        PROVE  P(y)
    BY <1>2 DEF ExemptInv
  <1>3. ASSUME y \in Handlers, NEW q \in Orders, NEW key \in Keys, NEW amount \in Amounts,
               AdmitReplay(y, q, key, amount)
        PROVE  P(y)
    <2>1. ctx'[y].pc = "replay" /\ ctx'[y].order = q /\ ctx'[y].key = key /\ ctx'[y].exempt
      BY <1>3, AdmitReplayEffect
    <2>2. /\ status[q] = "link_created" /\ link[q].url # 0 /\ link[q].payer.key = key
          /\ UNCHANGED <<status, link>>
      BY <1>3 DEF AdmitReplay, SafeReplay, rowVars
    <2> QED BY <2>1, <2>2 DEF LINKED_STATUSES
  <1>4. ASSUME y \in Handlers, NEW q \in Orders, NEW key \in Keys, NEW amount \in Amounts,
               BeginCreate(y, q, key, amount)
        PROVE  P(y)
    <2>1. amount \in Nat /\ EnsureRow(y, q, key, amount, FALSE)
      BY <1>4, BeginCreateIsEnsureRow
    <2>2. ctx'[y].pc = "create" /\ ctx'[y].exempt = FALSE
      BY <1>4, <2>1, EnsureRowEffect
    <2> QED BY <2>2
  <1>5. ASSUME y \in Handlers, BeginReplay(y)
        PROVE  P(y)
    <2>1. /\ ctx[y].order \in Orders /\ ctx[y].key \in Keys /\ ctx[y].amount \in Nat
          /\ EnsureRow(y, ctx[y].order, ctx[y].key, ctx[y].amount, TRUE)
      BY <1>5, BeginReplayIsEnsureRow
    <2>2. ctx'[y].pc = "create" /\ ctx'[y].order = ctx[y].order /\ ctx'[y].key = ctx[y].key
      BY <1>5, <2>1, EnsureRowEffect
    <2>3. /\ status[ctx[y].order] \in LINKED_STATUSES
          /\ link[ctx[y].order].url # 0
          /\ link[ctx[y].order].payer.key = ctx[y].key
      BY <1>5 DEF BeginReplay, ExemptInv
    <2> QED BY <1>0, <2>1, <2>2, <2>3
  <1>6. ASSUME y \in Handlers, StartGetLink(y)
        PROVE  P(y)
    <2>1. PICK q \in Orders : q = ctx[y].order
      BY <1>6, BusyOrder DEF StartGetLink
    <2>2. ctx'[y].pc = "getlink" /\ ctx'[y].exempt = ctx[y].exempt
      BY <1>6, <2>1, StartGetLinkEffect
    <2>3. ~Settled(q) /\ status[q] # "manual_review" /\ ~HasLink(q)
      BY <1>6, <2>1 DEF StartGetLink, Refused
    <2>4. ~ctx[y].exempt
      BY <2>1, <2>3 DEF ExemptInv, HasLink, Settled, LINKED_STATUSES, VERIFIED_STATUSES
    <2> QED BY <2>2, <2>4
  <1>7. ASSUME y \in Handlers, NEW q \in Orders, Asks(y, q)
        PROVE  P(y)
    BY <1>7, AskingEffect DEF Asks
  <1>8. ASSUME y \in Reconcilers, NEW q \in Orders, ClaimDue(y, q)
        PROVE  P(y)
    BY <1>8, ClaimDueEffect
  <1>9. ASSUME VerifyPaid(y)
        PROVE  P(y)
    <2>1. ctx[y].order \in Orders
      BY <1>9, BusyOrder DEF VerifyPaid
    <2>2. ctx'[y].pc = "settle" /\ ctx'[y].exempt = ctx[y].exempt /\ ctx[y].pc = "verify"
      BY <1>9, <2>1, VerifyPaidEffect DEF VerifyPaidEffectOn, VerifyPaid
    <2> QED BY <2>2 DEF ExemptInv
  <1> HIDE DEF P
  <1> QED BY Movers, <1>1, <1>2, <1>3, <1>4, <1>5, <1>6, <1>7, <1>8, <1>9

-----------------------------------------------------------------------------
(* The gateway's side. *)

(* A receipt is written once, for a link the gateway registered. *)
ReceiptStays(g) ==
    receipt'[g] = receipt[g] \/ (receipt[g] = Unpaid /\ \E l \in offers : l.gid = g)

(* What getLink may register. *)
OfferMade(f) ==
    \E h \in Handlers, o \in Orders :
        /\ ctx[h].pc = "getlink" /\ ctx[h].order = o /\ ctx'[h].pc = "idle"
        /\ f = LinkOffer(o, ctx[h].draft)

(* What the bot may be given: the stored link, or the one just made. *)
LinkReturned(i) ==
    \E h \in Handlers, o \in Orders :
        /\ ReturnExistingLink(h) /\ ctx[h].order = o /\ i.to = ctx[h].key
        /\ i.offer \in Offer
        /\ i.offer.order = o /\ i.offer.gid = link[o].gid /\ i.offer.token = link[o].url
        /\ i.offer.amount = link[o].payable /\ i.offer.payer = link[o].payer

LinkMade(i) ==
    \E h \in Handlers, o \in Orders :
        /\ ctx[h].pc = "getlink" /\ ctx[h].order = o /\ i.to = ctx[h].key
        /\ i.offer = LinkOffer(o, ctx[h].draft)
        /\ status'[o] = "link_created" /\ link'[o] = Live(ctx[h].draft)

GatewayStep ==
    /\ \A g \in GatewayIds : ReceiptStays(g)
    /\ offers \subseteq offers'
    /\ \A f \in offers' : f \in offers \/ OfferMade(f)
    /\ issued \subseteq issued'
    /\ \A i \in issued' : i \in issued \/ LinkReturned(i) \/ LinkMade(i)

LEMMA GatewaySteps ==
    ASSUME TypeOK, TypeOK', Kinds
    PROVE  GatewayStep
  <1> USE HandlersAreProcs
  <1>0. ASSUME UNCHANGED <<offers, issued, receipt>>
        PROVE  GatewayStep
    BY <1>0 DEF GatewayStep, ReceiptStays
  <1>1. ASSUME Quiet PROVE GatewayStep
    BY <1>0, <1>1 DEF Quiet
  <1>2. ASSUME NEW h \in Handlers, NEW o \in Orders, NEW key \in Keys, NEW amount \in Amounts,
               AdmitReplay(h, o, key, amount) \/ BeginCreate(h, o, key, amount)
        PROVE  GatewayStep
    BY <1>0, <1>2 DEF AdmitReplay, BeginCreate, EnsureRow, gatewayVars
  <1>3. ASSUME NEW h \in Handlers, BeginReplay(h) \/ StartGetLink(h)
        PROVE  GatewayStep
    BY <1>0, <1>3 DEF BeginReplay, EnsureRow, StartGetLink, gatewayVars
  <1>4. ASSUME NEW h \in Handlers, ReturnExistingLink(h)
        PROVE  GatewayStep
    <2>1. PICK o \in Orders : o = ctx[h].order
      BY <1>4, BusyOrder DEF ReturnExistingLink
    <2>2. PICK f \in Offer : /\ issued' = issued \cup {[offer |-> f, to |-> ctx[h].key]}
                             /\ f.order = o
                             /\ f.gid = link[o].gid
                             /\ f.token = link[o].url
                             /\ f.amount = link[o].payable
                             /\ f.payer = link[o].payer
      BY <1>4, <2>1, ReturnExistingLinkEffect
    <2> DEFINE i == [offer |-> f, to |-> ctx[h].key]
    <2>3. i.offer = f /\ i.to = ctx[h].key /\ issued' = issued \cup {i}
      BY <2>2
    <2> HIDE DEF i
    <2>4. LinkReturned(i)
      BY <1>4, <2>1, <2>2, <2>3 DEF LinkReturned
    <2>5. UNCHANGED <<offers, receipt>>
      BY <1>4 DEF ReturnExistingLink
    <2> QED BY <2>3, <2>4, <2>5 DEF GatewayStep, ReceiptStays
  <1>5. ASSUME NEW h \in Handlers, GetLinkEnds(h)
        PROVE  GatewayStep
    <2>1. PICK o \in Orders : o = ctx[h].order
      BY <1>5, BusyOrder DEF GetLinkEnds, GetLinkSucceeds, GetLinkFails, CrashDuringCreate
    <2> DEFINE f == LinkOffer(o, ctx[h].draft)
               i == [offer |-> f, to |-> ctx[h].key]
    <2>2. ASSUME ctx[h].pc = "getlink"
          PROVE  OfferMade(f)
      <3>1. ctx'[h] = Idle
        BY <1>5, <2>1, GetLinkSucceedsEffect, GetLinkFailsEffect,
           CrashDuringCreateEffect DEF GetLinkEnds
      <3> QED BY <2>1, <2>2, <3>1, IdleFields DEF OfferMade
    <2>3. CASE GetLinkSucceeds(h)
      <3>1. /\ offers' = offers \cup {f} /\ issued' = issued \cup {i}
            /\ status' = [status EXCEPT ![o] = "link_created"]
            /\ link'[o] = Live(ctx[h].draft) /\ receipt' = receipt
        BY <2>1, <2>3, GetLinkSucceedsEffect
      <3>2. ctx[h].pc = "getlink"
        BY <2>3 DEF GetLinkSucceeds
      <3>3. i.offer = f /\ i.to = ctx[h].key
        OBVIOUS
      <3>4. OfferMade(f)
        BY <2>2, <3>2
      <3>5. status'[o] = "link_created"
        BY <3>1 DEF TypeOK
      <3> HIDE DEF i
      <3>6. LinkMade(i)
        BY <2>1, <3>1, <3>2, <3>3, <3>5 DEF LinkMade
      <3> HIDE DEF f
      <3> QED BY <3>1, <3>4, <3>6 DEF GatewayStep, ReceiptStays
    <2>4. CASE GetLinkFails(h) \/ CrashDuringCreate(h)
      <3>1. /\ offers' = offers \/ (ctx[h].pc = "getlink" /\ offers' = offers \cup {f})
            /\ UNCHANGED <<issued, receipt>>
        BY <2>1, <2>4 DEF GetLinkFails, CrashDuringCreate
      <3> HIDE DEF f
      <3> QED BY <2>2, <3>1 DEF GatewayStep, ReceiptStays
    <2> QED BY <1>5, <2>3, <2>4 DEF GetLinkEnds
  <1>6. ASSUME NEW h \in Handlers, NEW o \in Orders, Asks(h, o)
        PROVE  GatewayStep
    BY <1>0, <1>6, AskingEffect DEF Asks, gatewayVars
  <1>7. ASSUME NEW r \in Reconcilers, NEW o \in Orders, ClaimDue(r, o)
        PROVE  GatewayStep
    BY <1>0, <1>7 DEF ClaimDue, gatewayVars
  <1>8. ASSUME NEW x \in Procs, VerifyPaid(x) \/ Settles(x)
        PROVE  GatewayStep
    BY <1>0, <1>8 DEF VerifyPaid, Settles, VerifyAnomaly, CommitSettlement, gatewayVars
  <1>9. ASSUME NEW l \in offers, Pay(l)
        PROVE  GatewayStep
    <2>1. /\ receipt[l.gid] = Unpaid
          /\ \A g \in GatewayIds \ {l.gid} : receipt'[g] = receipt[g]
          /\ UNCHANGED <<offers, issued>>
      BY <1>9, PayEffect
    <2> QED BY <2>1 DEF GatewayStep, ReceiptStays
  <1> QED BY <1>1, <1>2, <1>3, <1>4, <1>5, <1>6, <1>7, <1>8, <1>9 DEF Kinds

LEMMA ReceiptInvStep ==
    ASSUME ReceiptInv, GatewayStep
    PROVE  ReceiptInv'
  BY DEF ReceiptInv, GatewayStep, ReceiptStays

LEMMA OfferInvStep ==
    ASSUME TypeOK, TypeOK', ExclusiveSettlement, RowInv, DraftInv, SettleInv, OfferInv,
           RowsStep, GatewayStep
    PROVE  OfferInv'
  <1> USE HandlersAreProcs
  <1> SUFFICES ASSUME NEW f \in offers'
               PROVE  /\ f.gid # 0 /\ status'[f.order] # "absent"
                      /\ f.amount = link'[f.order].payable
    BY DEF OfferInv
  <1>1. f \in Offer /\ f.order \in Orders
    BY DEF TypeOK, Offer
  <1>2. CASE f \in offers
    <2>1. f.gid # 0 /\ status[f.order] # "absent" /\ f.amount = link[f.order].payable
      BY <1>2 DEF OfferInv
    <2>2. RowKept(f.order)
      BY <1>1, <2>1, RowsKept DEF RowsStep
    <2> QED BY <2>1, <2>2 DEF RowKept
  <1>3. ASSUME NEW h \in Handlers, NEW o \in Orders,
               ctx[h].pc = "getlink", ctx[h].order = o, f = LinkOffer(o, ctx[h].draft)
        PROVE  /\ f.gid # 0 /\ status'[f.order] # "absent"
               /\ f.amount = link'[f.order].payable
    <2>1. /\ ctx[h].draft \in Link /\ status[o] # "absent"
          /\ ctx[h].draft.payable = link[o].payable /\ ctx[h].draft.gid # 0
      BY <1>3, DraftFacts
    <2>2. RowKept(o)
      BY <2>1, RowsKept DEF RowsStep
    <2>3. f.order = o /\ f.gid = ctx[h].draft.gid /\ f.amount = ctx[h].draft.payable
      BY <1>3, <2>1, OfferLemma
    <2> QED BY <2>1, <2>2, <2>3 DEF RowKept
  <1> QED BY <1>2, <1>3 DEF GatewayStep, OfferMade

(* Offers are what their fields say. *)
LEMMA SameOffer ==
    ASSUME NEW f \in Offer, NEW o \in Orders, NEW l \in Link,
           f.order = o, f.gid = l.gid, f.token = l.token, f.amount = l.payable, f.payer = l.payer
    PROVE  f = LinkOffer(o, l)
  BY DEF Offer, LinkOffer

(* A link in the bot's hands is the row's link. *)
InHand(i) ==
    LET o == i.offer.order
    IN  /\ status'[o] \in LINKED_STATUSES
        /\ link'[o].url # 0
        /\ i.offer = LinkOffer(o, link'[o])
        /\ link'[o].url = link'[o].token
        /\ SameUser(i.to, i.offer.payer)

LEMMA IssuedSteps ==
    ASSUME TypeOK, TypeOK', ExclusiveSettlement, RowInv, DraftInv, CreateInv, SettleInv,
           IssuedInv, OneLiveLink, NoCrossUserLink, RowsStep, GatewayStep
    PROVE  \A i \in issued' : InHand(i)
  <1> USE HandlersAreProcs
  <1> SUFFICES ASSUME NEW i \in issued'
               PROVE  InHand(i)
    OBVIOUS
  <1>1. i.offer.order \in Orders
    BY DEF TypeOK, Offer
  <1>2. CASE i \in issued
    <2> DEFINE o == i.offer.order
    <2>1. /\ status[o] \in LINKED_STATUSES /\ link[o].url # 0
          /\ i.offer = LinkOffer(o, link[o]) /\ link[o].url = link[o].token
          /\ SameUser(i.to, i.offer.payer)
      BY <1>2 DEF IssuedInv, OneLiveLink, NoCrossUserLink, SameUser
    <2>2. RowKept(o)
      BY <1>1, <2>1, RowsKept DEF RowsStep, LINKED_STATUSES
    <2>3. status'[o] \in LINKED_STATUSES /\ link'[o] = link[o]
      BY <2>1, <2>2 DEF RowKept
    <2> QED BY <2>1, <2>3 DEF InHand
  <1>3. ASSUME NEW h \in Handlers, NEW o \in Orders, ReturnExistingLink(h), ctx[h].order = o,
               i.to = ctx[h].key, i.offer \in Offer, i.offer.order = o,
               i.offer.gid = link[o].gid, i.offer.token = link[o].url,
               i.offer.amount = link[o].payable, i.offer.payer = link[o].payer
        PROVE  InHand(i)
    <2>1. /\ status[o] = "link_created" /\ link[o].url # 0 /\ UNCHANGED <<status, link>>
          /\ IdentityDecision(h) # "reject" /\ ctx[h].pc = "create"
      BY <1>3 DEF ReturnExistingLink, HasLink, Refused, rowVars
    <2>2. link[o].url = link[o].token /\ link[o] \in Link
      BY <2>1, TypeFacts DEF RowInv
    <2>3. i.offer = LinkOffer(o, link[o])
      BY <1>3, <2>2, SameOffer
    <2>4. SameUser(ctx[h].key, link[o].payer)
      BY <1>3, <2>1, DecisionLemma DEF SameUser
    <2> QED BY <1>3, <2>1, <2>2, <2>3, <2>4 DEF InHand, LINKED_STATUSES
  <1>4. ASSUME NEW h \in Handlers, NEW o \in Orders, ctx[h].pc = "getlink", ctx[h].order = o,
               i.to = ctx[h].key, i.offer = LinkOffer(o, ctx[h].draft),
               status'[o] = "link_created", link'[o] = Live(ctx[h].draft)
        PROVE  InHand(i)
    <2> DEFINE d == ctx[h].draft
    <2>1. d \in Link /\ d.token # 0 /\ SameUser(ctx[h].key, d.payer)
      BY <1>4, DraftFacts
    <2>2. /\ i.offer \in Offer /\ i.offer.order = o /\ i.offer.gid = d.gid
          /\ i.offer.token = d.token /\ i.offer.amount = d.payable /\ i.offer.payer = d.payer
      BY <1>4, <2>1, OfferLemma
    <2>3. /\ link'[o] \in Link /\ link'[o].gid = d.gid /\ link'[o].token = d.token
          /\ link'[o].payable = d.payable /\ link'[o].payer = d.payer
          /\ link'[o].url = d.token
      BY <1>4, <2>1, LiveLemma
    <2>4. i.offer = LinkOffer(o, link'[o])
      BY <2>2, <2>3, SameOffer
    <2> QED BY <1>4, <2>1, <2>2, <2>3, <2>4 DEF InHand, LINKED_STATUSES
  <1> QED BY <1>2, <1>3, <1>4 DEF GatewayStep, LinkReturned, LinkMade

LEMMA IssuedInvStep ==
    ASSUME \A i \in issued' : InHand(i)
    PROVE  IssuedInv' /\ OneLiveLink' /\ NoCrossUserLink'
  <1>1. IssuedInv'
    BY DEF IssuedInv, InHand
  <1>2. OneLiveLink'
    BY DEF OneLiveLink, InHand, LinkOffer
  <1>3. NoCrossUserLink'
    BY DEF NoCrossUserLink, InHand, SameUser
  <1> QED BY <1>1, <1>2, <1>3

-----------------------------------------------------------------------------
(* Settlement. *)

LEMMA PaidStays ==
    ASSUME TypeOK, GatewayStep, NEW l \in Link, receipt[l.gid].ref # NoRef
    PROVE  receipt'[l.gid] = receipt[l.gid]
  BY DEF GatewayStep, ReceiptStays, Unpaid, Link

LEMMA SettleInvStep ==
    ASSUME TypeOK, TypeOK', ExclusiveSettlement, RowInv, SettleInv, OfferInv, Kinds, GatewayStep
    PROVE  SettleInv'
  <1> USE HandlersAreProcs
  <1> DEFINE P(y, o) ==
         /\ ctx'[y].pc \in {"verify", "settle", "inspect"} => status'[o] # "absent"
         /\ ctx'[y].pc = "settle" =>
              /\ ctx'[y].ref # NoRef
              /\ receipt'[link'[o].gid] =
                   [ref |-> ctx'[y].ref, amount |-> link'[o].payable, payer |-> link'[o].payer]
  <1> SUFFICES ASSUME NEW y \in Procs, ctx'[y].pc \in {"verify", "settle", "inspect"}
               PROVE  P(y, ctx'[y].order)
    BY DEF SettleInv
  <1>0. PICK o \in Orders : o = ctx'[y].order
    BY DEF TypeOK
  <1>1. ASSUME ctx'[y] = ctx[y]
        PROVE  P(y, o)
    <2>1. status[o] # "absent"
      BY <1>0, <1>1 DEF SettleInv
    <2>2. status'[o] = status[o] /\ link'[o] = link[o]
      BY <1>0, <1>1, <2>1, HolderSafe DEF Locking
    <2>3. CASE ctx[y].pc = "settle"
      <3>1. /\ ctx[y].ref # NoRef
            /\ receipt[link[o].gid] =
                 [ref |-> ctx[y].ref, amount |-> link[o].payable, payer |-> link[o].payer]
        BY <1>0, <1>1, <2>3 DEF SettleInv
      <3>2. receipt[link[o].gid].ref # NoRef
        BY <3>1
      <3>3. receipt'[link[o].gid] = receipt[link[o].gid]
        BY <3>2, TypeFacts, PaidStays
      <3> QED BY <1>1, <2>1, <2>2, <3>1, <3>3
    <2> QED BY <1>1, <2>1, <2>2, <2>3
  <1>2. ASSUME y \in Handlers, NEW q \in Orders, Asks(y, q)
        PROVE  P(y, o)
    <2>1. /\ ctx'[y].order = q /\ ctx'[y].pc \in {"verify", "inspect"} /\ status' = status
      BY <1>2, AskingEffect DEF Asks, rowVars
    <2>2. status[q] # "absent"
      <3>1. CASE Callback(y, q)
        <4>1. link[q].gid # 0
          BY <3>1 DEF Callback, CallbackAccepted, OfferInv
        <4> QED BY <4>1 DEF RowInv, BlankLink
      <3>2. CASE RecoverAgedOut(y, q) \/ DiagnosticVerify(y, q)
        BY <3>2 DEF RecoverAgedOut, RecoveryRefused, DiagnosticVerify
      <3> QED BY <1>2, <3>1, <3>2 DEF Asks
    <2> QED BY <1>0, <2>1, <2>2
  <1>3. ASSUME y \in Reconcilers, NEW q \in Orders, ClaimDue(y, q)
        PROVE  P(y, o)
    <2>1. ctx'[y].order = q /\ ctx'[y].pc = "verify" /\ status' = status
      BY <1>3, ClaimDueEffect DEF rowVars
    <2>2. status[q] = "link_created"
      BY <1>3 DEF ClaimDue, Due
    <2> QED BY <1>0, <2>1, <2>2
  <1>4. ASSUME VerifyPaid(y)
        PROVE  P(y, o)
    <2>1. PICK q \in Orders : q = ctx[y].order
      BY <1>4, BusyOrder DEF VerifyPaid
    <2>2. /\ ctx'[y].order = q /\ ctx'[y].pc = "settle"
          /\ ctx'[y].ref = receipt[link[q].gid].ref
          /\ UNCHANGED <<status, link, receipt>>
      BY <1>4, <2>1, VerifyPaidEffect DEF VerifyPaidEffectOn, rowVars, gatewayVars
    <2>3. /\ ctx[y].pc = "verify" /\ receipt[link[q].gid].ref # NoRef
          /\ receipt[link[q].gid].amount = link[q].payable
          /\ receipt[link[q].gid].payer = link[q].payer
      BY <1>4, <2>1 DEF VerifyPaid, Mismatch
    <2>4. receipt[link[q].gid] \in Receipt
      BY TypeFacts DEF TypeOK, Link
    <2>5. receipt[link[q].gid] = [ref |-> receipt[link[q].gid].ref,
                                  amount |-> link[q].payable, payer |-> link[q].payer]
      BY <2>3, <2>4 DEF Receipt
    <2>6. status[q] # "absent"
      BY <2>1, <2>3 DEF SettleInv
    <2>7. q = o
      BY <1>0, <2>2
    <2> QED BY <2>2, <2>3, <2>5, <2>6, <2>7
  <1> HIDE DEF P
  <1>5. ASSUME y \in Handlers, NEW q \in Orders, NEW key \in Keys, NEW amount \in Amounts,
               AdmitReplay(y, q, key, amount) \/ BeginCreate(y, q, key, amount)
        PROVE  P(y, o)
    BY <1>5, AdmitReplayEffect, BeginCreateIsEnsureRow, EnsureRowEffect
  <1>6. ASSUME y \in Handlers, BeginReplay(y)
        PROVE  P(y, o)
    BY <1>6, BeginReplayIsEnsureRow, EnsureRowEffect
  <1>7. ASSUME y \in Handlers, StartGetLink(y)
        PROVE  P(y, o)
    <2>1. ctx[y].order \in Orders
      BY <1>7, BusyOrder DEF StartGetLink
    <2> QED BY <1>7, <2>1, StartGetLinkEffect
  <1>8. P(y, o)
    BY Movers, <1>1, <1>2, <1>3, <1>4, <1>5, <1>6, <1>7
  <1> QED BY <1>0, <1>8

LEMMA VerifiedIsPaidStep ==
    ASSUME TypeOK, TypeOK', ExclusiveSettlement, RowInv, DraftInv, SettleInv, VerifiedIsPaid,
           RowsStep, GatewayStep
    PROVE  VerifiedIsPaid'
  <1> USE HandlersAreProcs
  <1> DEFINE Paying(o) ==
         /\ verified'[o]
         /\ receipt'[link'[o].gid] = [ref |-> reference'[o], amount |-> link'[o].payable,
                                      payer |-> link'[o].payer]
         /\ reference'[o] # NoRef
  <1> SUFFICES ASSUME NEW o \in Orders, verified'[o] \/ status'[o] \in VERIFIED_STATUSES
               PROVE  Paying(o)
    BY DEF VerifiedIsPaid, Settled
  <1>1. ASSUME RowStays(o)
        PROVE  Paying(o)
    <2>1. Settled(o)
      BY <1>1 DEF RowStays, Settled
    <2>2. /\ verified[o] /\ reference[o] # NoRef
          /\ receipt[link[o].gid] = [ref |-> reference[o], amount |-> link[o].payable,
                                     payer |-> link[o].payer]
      BY <2>1 DEF VerifiedIsPaid
    <2>3. receipt[link[o].gid].ref # NoRef
      BY <2>2
    <2>4. receipt'[link[o].gid] = receipt[link[o].gid]
      BY <2>3, TypeFacts, PaidStays
    <2> QED BY <1>1, <2>2, <2>4 DEF RowStays
  <1>2. ASSUME RowInserted(o)
        PROVE  Paying(o)
    BY <1>2 DEF RowInserted, RowInv, VERIFIED_STATUSES
  <1>3. ASSUME NEW h \in Handlers, RowLinked(o, h)
        PROVE  Paying(o)
    <2>1. ~verified[o]
      BY <1>3, DraftFacts DEF RowLinked
    <2> QED BY <1>3, <2>1 DEF RowLinked, VERIFIED_STATUSES
  <1>4. ASSUME NEW x \in Procs, RowReferred(o, x)
        PROVE  Paying(o)
    <2>1. ~verified[o]
      BY <1>4, SettlingFacts DEF RowReferred, VerifyAnomaly
    <2> QED BY <1>4, <2>1 DEF RowReferred, VERIFIED_STATUSES
  <1>5. ASSUME NEW x \in Procs, RowSettled(o, x)
        PROVE  Paying(o)
    <2>1. /\ ctx[x].pc = "settle" /\ ctx[x].order = o
          /\ verified'[o] /\ link'[o] = link[o] /\ reference'[o] = ctx[x].ref
      BY <1>5 DEF RowSettled, CommitSettlement
    <2>2. /\ ctx[x].ref # NoRef
          /\ receipt[link[o].gid] = [ref |-> ctx[x].ref, amount |-> link[o].payable,
                                     payer |-> link[o].payer]
      BY <2>1 DEF SettleInv
    <2>3. receipt[link[o].gid].ref # NoRef
      BY <2>2
    <2>4. receipt'[link[o].gid] = receipt[link[o].gid]
      BY <2>3, TypeFacts, PaidStays
    <2> QED BY <2>1, <2>2, <2>4
  <1> HIDE DEF Paying
  <1> QED BY <1>1, <1>2, <1>3, <1>4, <1>5 DEF RowsStep, RowStep

LEMMA UniqueRefsStep ==
    ASSUME TypeOK, UniqueRefs, RowsStep
    PROVE  UniqueRefs'
  <1> SUFFICES ASSUME NEW o \in Orders, NEW q \in Orders, o # q, reference'[o] # NoRef
               PROVE  reference'[o] # reference'[q]
    BY DEF UniqueRefs
  <1>1. ASSUME NEW p \in Orders
        PROVE  reference'[p] = reference[p] \/ \E x \in Procs : RowSettled(p, x)
    BY DEF RowsStep, RowStep, RowStays, RowInserted, RowLinked, RowReferred
  <1>2. ASSUME NEW p \in Orders, NEW x \in Procs, RowSettled(p, x)
        PROVE  /\ reference'[p] = ctx[x].ref
               /\ \A r \in Orders \ {p} : reference'[r] = reference[r] /\ reference[r] # ctx[x].ref
    BY <1>2 DEF RowSettled, CommitSettlement, UniqueReference
  <1>3. CASE \E x \in Procs : RowSettled(o, x)
    BY <1>2, <1>3
  <1>4. CASE \E x \in Procs : RowSettled(q, x)
    BY <1>2, <1>4
  <1>5. CASE reference'[o] = reference[o] /\ reference'[q] = reference[q]
    BY <1>5 DEF UniqueRefs
  <1> QED BY <1>1, <1>3, <1>4, <1>5

-----------------------------------------------------------------------------
(* Gateway order ids. *)

(* A row's id after a step: the one it had, a fresh one, or its draft's. *)
LEMMA GidMoves ==
    ASSUME TypeOK, TypeOK', ExclusiveSettlement, RowInv, DraftInv, SettleInv,
           NEW o \in Orders, RowStep(o), status'[o] # "absent"
    PROVE  \/ status[o] # "absent" /\ link'[o].gid = link[o].gid
           \/ link'[o].gid = ids + 1
           \/ \E h \in Handlers : /\ ctx[h].pc = "getlink" /\ ctx[h].order = o
                                  /\ link'[o].gid = ctx[h].draft.gid
  <1> USE HandlersAreProcs
  <1> DEFINE Goal == \/ status[o] # "absent" /\ link'[o].gid = link[o].gid
                     \/ link'[o].gid = ids + 1
                     \/ \E h \in Handlers : /\ ctx[h].pc = "getlink" /\ ctx[h].order = o
                                            /\ link'[o].gid = ctx[h].draft.gid
  <1>1. ASSUME RowStays(o) PROVE Goal
    BY <1>1 DEF RowStays
  <1>2. ASSUME RowInserted(o) PROVE Goal
    BY <1>2 DEF RowInserted
  <1>3. ASSUME NEW h \in Handlers, RowLinked(o, h) PROVE Goal
    <2>1. ctx[h].draft \in Link
      BY <1>3, DraftFacts DEF RowLinked
    <2>2. link'[o].gid = ctx[h].draft.gid
      BY <1>3, <2>1, LiveLemma DEF RowLinked
    <2> QED BY <1>3, <2>2 DEF RowLinked
  <1>4. ASSUME NEW x \in Procs, RowReferred(o, x) \/ RowSettled(o, x)
        PROVE  Goal
    BY <1>4, SettlingFacts DEF RowReferred, VerifyAnomaly, RowSettled, CommitSettlement
  <1> HIDE DEF Goal
  <1>5. Goal
    BY <1>1, <1>2, <1>3, <1>4 DEF RowStep
  <1> QED BY <1>5 DEF Goal

(* A draft's id after a step: the one it had, its row's, or a fresh one. *)
LEMMA DraftGids ==
    ASSUME TypeOK, TypeOK', CreateInv, Kinds,
           NEW y \in Procs, ctx'[y].pc = "getlink"
    PROVE  \/ ctx'[y] = ctx[y]
           \/ \E o \in Orders :
                 /\ ctx'[y].order = o /\ status[o] # "absent" /\ lock[o] = NoOne
                 /\ Others(y) /\ UNCHANGED <<status, link>>
                 /\ ctx'[y].draft.gid = link[o].gid \/ ctx'[y].draft.gid = ids + 1
  <1> USE HandlersAreProcs
  <1>1. ASSUME y \in Handlers, StartGetLink(y)
        PROVE  \E o \in Orders :
                 /\ ctx'[y].order = o /\ status[o] # "absent" /\ lock[o] = NoOne
                 /\ Others(y) /\ UNCHANGED <<status, link>>
                 /\ ctx'[y].draft.gid = link[o].gid \/ ctx'[y].draft.gid = ids + 1
    <2>1. PICK o \in Orders : o = ctx[y].order
      BY <1>1, BusyOrder DEF StartGetLink
    <2>2. /\ ctx'[y].order = o /\ Others(y)
          /\ ctx'[y].draft.gid = link[o].gid \/ ctx'[y].draft.gid = ids + 1
      BY <1>1, <2>1, StartGetLinkEffect
    <2>3. ctx[y].pc = "create" /\ lock[o] = NoOne /\ UNCHANGED <<status, link>>
      BY <1>1, <2>1 DEF StartGetLink, Free, rowVars
    <2>4. status[o] # "absent"
      BY <2>1, <2>3 DEF CreateInv
    <2> QED BY <2>2, <2>3, <2>4
  <1> QED BY <1>1, DraftMovers

LEMMA GidInvStep ==
    ASSUME TypeOK, TypeOK', ExclusiveSettlement, RowInv, CreateInv, DraftInv, SettleInv, GidInv,
           Kinds, RowsStep
    PROVE  GidInv'
  <1> USE HandlersAreProcs
  <1>0. /\ ids \in Nat
        /\ \A o \in Orders : link[o].gid \in Nat
        /\ \A o \in Orders : status[o] # "absent" => link[o].gid < ids + 1
        /\ \A y \in Procs : ctx[y].draft.gid \in Nat
        /\ \A y \in Procs : ctx[y].pc = "getlink" => ctx[y].draft.gid < ids + 1
    <2>1. ids \in Nat
      BY BoundsAssumption DEF TypeOK, GatewayIds
    <2>2. \A o \in Orders : link[o].gid \in Nat
      BY TypeFacts, BoundsAssumption DEF Link, GatewayIds
    <2>3. \A y \in Procs : ctx[y].draft.gid \in Nat
      BY TypeFacts, BoundsAssumption DEF Context, Link, GatewayIds
    <2>4. \A o \in Orders : status[o] # "absent" => link[o].gid <= ids
      BY DEF RowInv
    <2>5. \A y \in Procs : ctx[y].pc = "getlink" => ctx[y].draft.gid <= ids
      BY DEF DraftInv
    <2> QED BY <2>1, <2>2, <2>3, <2>4, <2>5
  <1>1. ASSUME NEW o \in Orders, NEW q \in Orders, o # q, RowStays(o),
               status'[o] # "absent", status'[q] # "absent"
        PROVE  link'[o].gid # link'[q].gid
    <2>1. status[o] # "absent" /\ link'[o] = link[o]
      BY <1>1 DEF RowStays
    <2>2. CASE status[q] # "absent" /\ link'[q].gid = link[q].gid
      BY <1>1, <2>1, <2>2 DEF GidInv
    <2>3. CASE link'[q].gid = ids + 1
      BY <1>0, <2>1, <2>3
    <2>4. ASSUME NEW h \in Handlers, ctx[h].pc = "getlink", ctx[h].order = q,
                 link'[q].gid = ctx[h].draft.gid
          PROVE  link'[o].gid # link'[q].gid
      BY <1>1, <2>1, <2>4 DEF GidInv
    <2> QED BY <1>1, <2>2, <2>3, <2>4, GidMoves DEF RowsStep
  <1>2. ASSUME NEW o \in Orders, NEW q \in Orders, o # q,
               status'[o] # "absent", status'[q] # "absent"
        PROVE  link'[o].gid # link'[q].gid
    BY <1>1, <1>2 DEF RowsStep
  <1>3. ASSUME NEW y \in Procs, ctx'[y].pc = "getlink", NEW q \in Orders, q # ctx'[y].order,
               status'[q] # "absent"
        PROVE  ctx'[y].draft.gid # link'[q].gid
    <2>1. CASE ctx'[y] = ctx[y]
      <3>1. CASE status[q] # "absent" /\ link'[q].gid = link[q].gid
        BY <1>3, <2>1, <3>1 DEF GidInv
      <3>2. CASE link'[q].gid = ids + 1
        BY <1>0, <1>3, <2>1, <3>2
      <3>3. ASSUME NEW h \in Handlers, ctx[h].pc = "getlink", ctx[h].order = q,
                   link'[q].gid = ctx[h].draft.gid
            PROVE  ctx'[y].draft.gid # link'[q].gid
        BY <1>3, <2>1, <3>3 DEF GidInv
      <3> QED BY <1>3, <3>1, <3>2, <3>3, GidMoves DEF RowsStep
    <2>2. ASSUME NEW o \in Orders, ctx'[y].order = o, status[o] # "absent",
                 UNCHANGED <<status, link>>,
                 ctx'[y].draft.gid = link[o].gid \/ ctx'[y].draft.gid = ids + 1
          PROVE  ctx'[y].draft.gid # link'[q].gid
      BY <1>0, <1>3, <2>2 DEF GidInv
    <2> QED BY <1>3, <2>1, <2>2, DraftGids
  <1>4. ASSUME NEW x \in Procs, NEW y \in Procs, x # y, ctx'[y] = ctx[y],
               ctx'[x].pc = "getlink", ctx'[y].pc = "getlink"
        PROVE  ctx'[x].draft.gid # ctx'[y].draft.gid
    <2>1. CASE ctx'[x] = ctx[x]
      BY <1>4, <2>1 DEF GidInv
    <2>2. ASSUME NEW o \in Orders, ctx'[x].order = o, status[o] # "absent", lock[o] = NoOne,
                 ctx'[x].draft.gid = link[o].gid \/ ctx'[x].draft.gid = ids + 1
          PROVE  ctx'[x].draft.gid # ctx'[y].draft.gid
      <3>1. ctx[y].order # o
        BY <1>4, <2>2, NamesAssumption DEF ExclusiveSettlement
      <3> QED BY <1>0, <1>4, <2>2, <3>1 DEF GidInv
    <2> QED BY <1>4, <2>1, <2>2, DraftGids
  <1>5. ASSUME NEW x \in Procs, NEW y \in Procs, x # y,
               ctx'[x].pc = "getlink", ctx'[y].pc = "getlink"
        PROVE  ctx'[x].draft.gid # ctx'[y].draft.gid
    <2>1. ctx'[x] = ctx[x] \/ ctx'[y] = ctx[y]
      BY <1>5, DraftGids DEF Others
    <2> QED BY <1>4, <1>5, <2>1
  <1> QED BY <1>2, <1>3, <1>5 DEF GidInv

-----------------------------------------------------------------------------
(* Tokens and half-registered links. *)

(* Only the start of a getLink call mints a token. *)
LEMMA TokenSteps ==
    ASSUME TypeOK, TypeOK', Kinds
    PROVE  tokens' = tokens \/ \E h \in Handlers : StartGetLink(h) /\ tokens' = tokens + 1
  <1> USE HandlersAreProcs
  <1> DEFINE Goal == tokens' = tokens \/ \E h \in Handlers : StartGetLink(h) /\ tokens' = tokens + 1
  <1>1. ASSUME Quiet PROVE Goal
    BY <1>1 DEF Quiet
  <1>2. ASSUME NEW h \in Handlers, NEW o \in Orders, NEW key \in Keys, NEW amount \in Amounts,
               AdmitReplay(h, o, key, amount) \/ BeginCreate(h, o, key, amount)
        PROVE  Goal
    BY <1>2 DEF AdmitReplay, BeginCreate, EnsureRow, drawVars
  <1>3. ASSUME NEW h \in Handlers, BeginReplay(h) \/ ReturnExistingLink(h)
        PROVE  Goal
    BY <1>3 DEF BeginReplay, EnsureRow, ReturnExistingLink, drawVars
  <1>4. ASSUME NEW h \in Handlers, StartGetLink(h)
        PROVE  Goal
    BY <1>4 DEF StartGetLink
  <1>5. ASSUME NEW h \in Handlers, GetLinkEnds(h)
        PROVE  Goal
    BY <1>5 DEF GetLinkEnds, GetLinkSucceeds, GetLinkFails, CrashDuringCreate, drawVars
  <1>6. ASSUME NEW h \in Handlers, NEW o \in Orders, Asks(h, o)
        PROVE  Goal
    BY <1>6, AskingEffect DEF Asks, drawVars
  <1>7. ASSUME NEW r \in Reconcilers, NEW o \in Orders, ClaimDue(r, o)
        PROVE  Goal
    BY <1>7 DEF ClaimDue, drawVars
  <1>8. ASSUME NEW x \in Procs, VerifyPaid(x) \/ Settles(x)
        PROVE  Goal
    BY <1>8 DEF VerifyPaid, Settles, VerifyAnomaly, CommitSettlement, drawVars
  <1>9. ASSUME NEW l \in offers, Pay(l)
        PROVE  Goal
    BY <1>9, PayEffect DEF drawVars
  <1> HIDE DEF Goal
  <1>10. Goal
    BY <1>1, <1>2, <1>3, <1>4, <1>5, <1>6, <1>7, <1>8, <1>9 DEF Kinds
  <1> QED BY <1>10 DEF Goal

(* Tokens and ids are numbers. *)
LEMMA Numbers ==
    /\ GatewayIds \subseteq Nat
    /\ \A l \in Link : l.token \in Nat /\ l.gid \in Nat
    /\ \A l \in Offer : l.order \in Orders /\ l.token \in Nat /\ l.gid \in Nat
  <1>1. GatewayIds \subseteq Nat
    BY BoundsAssumption DEF GatewayIds
  <1> QED BY <1>1 DEF Link, Offer

LEMMA TokenTypes ==
    ASSUME TypeOK
    PROVE  /\ tokens \in Nat /\ ids \in Nat
           /\ \A o \in Orders : link[o] \in Link /\ link[o].token \in Nat /\ link[o].gid \in Nat
           /\ \A l \in offers : /\ l \in Offer /\ l.order \in Orders
                                /\ l.token \in Nat /\ l.gid \in Nat
           /\ \A x \in Procs : /\ ctx[x].draft \in Link
                                /\ ctx[x].draft.token \in Nat /\ ctx[x].draft.gid \in Nat
  <1>1. /\ tokens \in Nat /\ ids \in Nat
        /\ \A l \in offers : l \in Offer
    BY Numbers DEF TypeOK
  <1>2. \A x \in Procs : ctx[x].draft \in Link
    BY TypeFacts DEF Context
  <1> QED BY <1>1, <1>2, Numbers, TypeFacts

(* A row's token after a step: the one it had, none yet, or its draft's. *)
LEMMA TokenMoves ==
    ASSUME TypeOK, TypeOK', ExclusiveSettlement, RowInv, DraftInv, SettleInv,
           NEW o \in Orders, RowStep(o)
    PROVE  \/ link'[o] = link[o]
           \/ status[o] = "absent" /\ link'[o].token = 0
           \/ \E h \in Handlers : /\ ctx[h].pc = "getlink" /\ ctx[h].order = o
                                  /\ link'[o].token = ctx[h].draft.token
                                  /\ LinkOffer(o, link'[o]) = LinkOffer(o, ctx[h].draft)
  <1> USE HandlersAreProcs
  <1>1. ASSUME NEW h \in Handlers, RowLinked(o, h)
        PROVE  /\ ctx[h].pc = "getlink" /\ ctx[h].order = o
               /\ link'[o].token = ctx[h].draft.token
               /\ LinkOffer(o, link'[o]) = LinkOffer(o, ctx[h].draft)
    <2>1. ctx[h].pc = "getlink" /\ ctx[h].order = o /\ ctx[h].draft \in Link
      BY <1>1, DraftFacts DEF RowLinked
    <2> QED BY <1>1, <2>1, LiveLemma DEF RowLinked, LinkOffer
  <1> QED BY <1>1 DEF RowStep, RowStays, RowInserted, RowReferred, RowSettled

(* The tokens and ids the gateway knows after a step. *)
LEMMA OfferTokens ==
    ASSUME TypeOK, TypeOK', ExclusiveSettlement, RowInv, DraftInv, SettleInv, OfferInv, TokenInv,
           RowsStep, GatewayStep, ids <= ids', tokens <= tokens', NEW l \in offers'
    PROVE  /\ l.gid <= ids' /\ l.token <= tokens'
           /\ l.token = link'[l.order].token => l = LinkOffer(l.order, link'[l.order])
  <1> USE HandlersAreProcs
  <1>0. l \in Offer /\ l.order \in Orders /\ l.gid \in Nat /\ l.token \in Nat
    BY Numbers DEF TypeOK
  <1>1. /\ ids \in Nat /\ ids' \in Nat /\ tokens \in Nat /\ tokens' \in Nat
    BY Numbers DEF TypeOK
  <1> DEFINE o == l.order
  <1>2. CASE l \in offers
    <2>1. /\ l.gid <= ids /\ l.token <= tokens /\ status[o] # "absent"
          /\ l.token = link[o].token => l = LinkOffer(o, link[o])
      BY <1>2 DEF TokenInv, OfferInv
    <2>2. ASSUME NEW h \in Handlers, ctx[h].pc = "getlink", link'[o].token = ctx[h].draft.token
          PROVE  l.token # link'[o].token
      BY <1>2, <2>2 DEF TokenInv
    <2>3. link'[o] = link[o] \/ l.token # link'[o].token
      BY <1>0, <2>1, <2>2, TokenMoves DEF RowsStep
    <2> QED BY <1>0, <1>1, <2>1, <2>3
  <1>3. ASSUME NEW h \in Handlers, NEW q \in Orders, ctx[h].pc = "getlink", ctx[h].order = q,
               l = LinkOffer(q, ctx[h].draft)
        PROVE  /\ l.gid <= ids' /\ l.token <= tokens'
               /\ l.token = link'[o].token => l = LinkOffer(o, link'[o])
    <2>1. /\ ctx[h].draft \in Link /\ status[q] # "absent" /\ ctx[h].draft.gid <= ids
      BY <1>3, DraftFacts
    <2>2. o = q /\ l.gid = ctx[h].draft.gid /\ l.token = ctx[h].draft.token
      BY <1>3, <2>1, OfferLemma
    <2>3. ctx[h].draft.token <= tokens /\ ctx[h].draft.token # link[q].token
      BY <1>3 DEF TokenInv
    <2>4. ASSUME NEW g \in Handlers, ctx[g].pc = "getlink", ctx[g].order = q,
                 LinkOffer(q, link'[q]) = LinkOffer(q, ctx[g].draft)
          PROVE  l = LinkOffer(q, link'[q])
      <3>1. g = h
        BY <1>3, <2>4 DEF ExclusiveSettlement
      <3> QED BY <1>3, <2>4, <3>1
    <2>5. l.token = link'[q].token => l = LinkOffer(q, link'[q])
      BY <2>1, <2>2, <2>3, <2>4, TokenMoves DEF RowsStep
    <2> QED BY <1>0, <1>1, <2>1, <2>2, <2>3, <2>5
  <1> QED BY <1>2, <1>3 DEF GatewayStep, OfferMade

(* The token of a call in progress: the one it had, or a new one. *)
LEMMA DraftTokens ==
    ASSUME TypeOK, TypeOK', Kinds, NEW y \in Procs, ctx'[y].pc = "getlink"
    PROVE  \/ ctx'[y] = ctx[y]
           \/ /\ Others(y) /\ UNCHANGED <<link, offers>>
              /\ ctx'[y].order \in Orders
              /\ ctx'[y].draft.token = tokens + 1 /\ tokens' = tokens + 1
              /\ ctx'[y].draft.gid = link[ctx'[y].order].gid \/ ctx'[y].draft.gid = ids + 1
  <1> USE HandlersAreProcs
  <1>1. ASSUME y \in Handlers, StartGetLink(y)
        PROVE  /\ Others(y) /\ UNCHANGED <<link, offers>>
               /\ ctx'[y].order \in Orders
               /\ ctx'[y].draft.token = tokens + 1 /\ tokens' = tokens + 1
               /\ ctx'[y].draft.gid = link[ctx'[y].order].gid \/ ctx'[y].draft.gid = ids + 1
    <2>1. PICK o \in Orders : o = ctx[y].order
      BY <1>1, BusyOrder DEF StartGetLink
    <2>2. UNCHANGED <<link, offers>>
      BY <1>1 DEF StartGetLink, rowVars, gatewayVars
    <2> QED BY <1>1, <2>1, <2>2, StartGetLinkEffect
  <1> QED BY <1>1, DraftMovers

LEMMA TokenInvStep ==
    ASSUME TypeOK, TypeOK', ExclusiveSettlement, RowInv, CreateInv, DraftInv, SettleInv, GidInv,
           OfferInv, TokenInv, Kinds, RowsStep, GatewayStep, ids <= ids'
    PROVE  TokenInv'
  <1> USE HandlersAreProcs
  <1>0. tokens \in Nat /\ tokens' \in Nat /\ tokens <= tokens' /\ ids \in Nat /\ ids' \in Nat
    BY TokenSteps, Numbers DEF TypeOK
  <1>1. ASSUME NEW o \in Orders
        PROVE  link'[o].token <= tokens'
    <2>1. link[o].token \in Nat /\ link[o].token <= tokens
      BY TokenTypes DEF TokenInv
    <2>2. ASSUME NEW h \in Handlers, ctx[h].pc = "getlink"
          PROVE  ctx[h].draft.token \in Nat /\ ctx[h].draft.token <= tokens
      BY <2>2, TokenTypes DEF TokenInv
    <2> QED BY <1>0, <2>1, <2>2, TokenMoves DEF RowsStep
  <1>2. \A l \in offers' :
           /\ l.gid <= ids' /\ l.token <= tokens'
           /\ l.token = link'[l.order].token => l = LinkOffer(l.order, link'[l.order])
    BY <1>0, OfferTokens
  <1>3. ASSUME NEW y \in Procs, ctx'[y].pc = "getlink"
        PROVE  /\ ctx'[y].draft.token <= tokens'
               /\ ctx'[y].draft.token # link'[ctx'[y].order].token
               /\ \A l \in offers' : l.token # ctx'[y].draft.token
               /\ \/ ctx'[y].draft.gid = link'[ctx'[y].order].gid
                  \/ \A l \in offers' : l.gid # ctx'[y].draft.gid
    <2>1. CASE ctx'[y] = ctx[y]
      <3>1. PICK o \in Orders : o = ctx[y].order
        BY <1>3, <2>1, BusyOrder
      <3>2. /\ ctx[y].pc = "getlink" /\ ctx[y].draft.token \in Nat /\ ctx[y].draft.token <= tokens
            /\ ctx[y].draft.token # link[o].token
            /\ \A l \in offers : l.token # ctx[y].draft.token
            /\ \/ ctx[y].draft.gid = link[o].gid
               \/ \A l \in offers : l.gid # ctx[y].draft.gid
        BY <1>3, <2>1, <3>1, TokenTypes DEF TokenInv
      <3>3. link'[o] = link[o]
        BY <2>1, <3>1, <3>2, HolderSafe, DraftFacts DEF Locking
      <3>4. ASSUME NEW l \in offers', NEW h \in Handlers, NEW q \in Orders,
                   ctx[h].pc = "getlink", ctx[h].order = q, ctx'[h].pc = "idle",
                   l = LinkOffer(q, ctx[h].draft)
            PROVE  l.token # ctx[y].draft.token /\ l.gid # ctx[y].draft.gid
        <4>1. ctx[h].draft \in Link
          BY TokenTypes
        <4>2. l.token = ctx[h].draft.token /\ l.gid = ctx[h].draft.gid
          BY <3>4, <4>1, OfferLemma
        <4>3. h # y
          BY <1>3, <3>4
        <4> QED BY <3>2, <3>4, <4>2, <4>3 DEF TokenInv, GidInv
      <3>5. \A l \in offers' : l \in offers \/ (l.token # ctx[y].draft.token /\ l.gid # ctx[y].draft.gid)
        BY <3>4 DEF GatewayStep, OfferMade
      <3> QED BY <1>0, <2>1, <3>1, <3>2, <3>3, <3>5
    <2>2. CASE /\ UNCHANGED <<link, offers>> /\ ctx'[y].order \in Orders
               /\ ctx'[y].draft.token = tokens + 1 /\ tokens' = tokens + 1
               /\ ctx'[y].draft.gid = link[ctx'[y].order].gid \/ ctx'[y].draft.gid = ids + 1
      <3>1. \A l \in offers : /\ l.token \in Nat /\ l.token <= tokens
                              /\ l.gid \in Nat /\ l.gid <= ids
        BY TokenTypes DEF TokenInv
      <3>2. \A o \in Orders : link[o].token \in Nat /\ link[o].token <= tokens
        BY TokenTypes DEF TokenInv
      <3>3. \A l \in offers : l.token # tokens + 1 /\ l.gid # ids + 1
        BY <1>0, <3>1
      <3>4. \A o \in Orders : link[o].token # tokens + 1
        BY <1>0, <3>2
      <3> QED BY <1>0, <2>2, <3>3, <3>4
    <2> QED BY <1>3, <2>1, <2>2, DraftTokens
  <1>4. ASSUME NEW x \in Procs, NEW y \in Procs, x # y, ctx'[y] = ctx[y],
               ctx'[x].pc = "getlink", ctx'[y].pc = "getlink"
        PROVE  ctx'[x].draft.token # ctx'[y].draft.token
    <2>1. ctx[y].draft.token \in Nat /\ ctx[y].draft.token <= tokens
      BY <1>4, TokenTypes DEF TokenInv
    <2>2. CASE ctx'[x] = ctx[x]
      BY <1>4, <2>2 DEF TokenInv
    <2>3. CASE ctx'[x].draft.token = tokens + 1
      BY <1>0, <1>4, <2>1, <2>3
    <2> QED BY <1>4, <2>2, <2>3, DraftTokens
  <1>5. ASSUME NEW x \in Procs, NEW y \in Procs, x # y,
               ctx'[x].pc = "getlink", ctx'[y].pc = "getlink"
        PROVE  ctx'[x].draft.token # ctx'[y].draft.token
    <2>1. ctx'[x] = ctx[x] \/ ctx'[y] = ctx[y]
      BY <1>5, DraftTokens DEF Others
    <2> QED BY <1>4, <1>5, <2>1
  <1> QED BY <1>1, <1>2, <1>3, <1>5 DEF TokenInv

-----------------------------------------------------------------------------
(* The invariant holds. *)

LEMMA TableInit ==
    ASSUME Init
    PROVE  /\ RowInv /\ MappedInv /\ GidInv /\ OfferInv /\ IssuedInv
           /\ OneLiveLink /\ NoCrossUserLink /\ TokenInv
  <1> DEFINE Goal == /\ RowInv /\ MappedInv /\ GidInv /\ OfferInv /\ IssuedInv
                     /\ OneLiveLink /\ NoCrossUserLink /\ TokenInv
  <1>0. /\ \A x \in Procs : ctx[x].pc = "idle"
        /\ \A o \in Orders : ~verified[o]
    BY InitFacts, IdleFields
  <1>1. CASE EmptyTable
    <2>1. /\ offers = {} /\ issued = {} /\ tokens = 0
          /\ \A o \in Orders : status[o] = "absent" /\ link[o] = BlankLink
      BY <1>1 DEF EmptyTable
    <2>3. TokenInv
      BY <1>0, <2>1 DEF TokenInv, BlankLink
    <2>2. RowInv /\ MappedInv /\ GidInv
      BY <1>0, <2>1 DEF RowInv, MappedInv, GidInv
    <2> QED BY <2>1, <2>2, <2>3 DEF OfferInv, IssuedInv, OneLiveLink, NoCrossUserLink
  <1>2. ASSUME NEW o \in Orders, NEW st \in {"created", "getlink_failed", "link_created"},
               NEW payer \in OldPayers, NEW amount \in Amounts, OldRow(o, st, payer, amount)
        PROVE  Goal
    <2> DEFINE l == OldLink(st, payer, amount)
               f == LinkOffer(o, l)
               to == IF payer.key \in Users THEN payer.key ELSE "order"
               i == [offer |-> f, to |-> to]
    <2>1. /\ status = [q \in Orders |-> IF q = o THEN st ELSE "absent"]
          /\ link = [q \in Orders |-> IF q = o THEN l ELSE BlankLink]
          /\ offers = IF st = "created" THEN {} ELSE {f}
          /\ issued = IF st = "link_created" THEN {i} ELSE {}
          /\ ids = 1 /\ tokens = 1
      BY <1>2 DEF OldRow, OldLink
    <2>2. /\ payer \in Payers /\ ~(payer.key \in Keys /\ ~payer.retired)
          /\ amount \in Nat /\ amount # 0
      BY OldPayersLemma, AmountsAssumption
    <2>3. /\ l \in Link /\ l.amount = amount /\ l.payable = amount /\ l.payer = payer
          /\ l.gid = 1 /\ l.token <= 1
          /\ st = "link_created" => l.url = 1 /\ l.token = 1
          /\ st # "link_created" => l.url = 0
      BY <2>2, OldLinkLemma
    <2> HIDE DEF l
    <2>4. /\ f.order = o /\ f.gid = l.gid /\ f.token = l.token
          /\ f.amount = l.payable /\ f.payer = l.payer
      BY <2>3, OfferLemma
    <2>5. i.offer = f /\ i.to = to
      OBVIOUS
    <2>6. payer.key \in Users => to = payer.key
      OBVIOUS
    <2>7. status[o] = st /\ link[o] = l
      BY <2>1
    <2>8. \A q \in Orders \ {o} : status[q] = "absent" /\ link[q] = BlankLink
      BY <2>1
    <2>9. f = LinkOffer(o, link[o])
      BY <2>7
    <2> HIDE DEF f, i, to
    <2>10. \A q \in Orders : status[q] # "absent" => q = o
      BY <2>8
    <2>11. RowInv
      <3>1. status[o] # "absent" /\ link[o].gid # 0 /\ link[o].gid <= ids
        BY <2>1, <2>3, <2>7
      <3>2. link[o].amount # 0 /\ link[o].payable >= link[o].amount
        BY <2>2, <2>3, <2>7
      <3>3. /\ st # "link_created" => link[o].url = 0
            /\ st = "link_created" => link[o].url # 0 /\ link[o].url = link[o].token
        BY <2>3, <2>7
      <3> QED BY <1>0, <2>7, <2>8, <3>1, <3>2, <3>3 DEF RowInv
    <2>12. MappedInv
      BY <2>2, <2>3, <2>7, <2>10 DEF MappedInv, Mapped
    <2>13. GidInv
      BY <1>0, <2>10 DEF GidInv
    <2>14. OfferInv
      BY <2>1, <2>3, <2>4, <2>7 DEF OfferInv
    <2>15. IssuedInv /\ OneLiveLink
      BY <2>1, <2>3, <2>4, <2>5, <2>7, <2>9 DEF IssuedInv, OneLiveLink, LINKED_STATUSES
    <2>16. NoCrossUserLink
      BY <2>1, <2>3, <2>4, <2>5, <2>6 DEF NoCrossUserLink
    <2>17. TokenInv
      <3>1. \A q \in Orders : link[q].token <= tokens
        BY <2>1, <2>3, <2>7, <2>8 DEF BlankLink
      <3>2. \A m \in offers : m = f
        BY <2>1
      <3>3. f.gid <= ids /\ f.token <= tokens
        BY <2>1, <2>3, <2>4
      <3> QED BY <1>0, <2>4, <2>9, <3>1, <3>2, <3>3 DEF TokenInv
    <2> QED BY <2>11, <2>12, <2>13, <2>14, <2>15, <2>16, <2>17
  <1> HIDE DEF Goal
  <1>3. Goal
    BY <1>1, <1>2 DEF Init, Goal
  <1> QED BY <1>3 DEF Goal

LEMMA MoneyInit == Init => MoneyInv
  <1> SUFFICES ASSUME Init PROVE MoneyInv
    OBVIOUS
  <1>1. /\ \A x \in Procs : ctx[x].pc = "idle" /\ ~ctx[x].exempt
        /\ \A o \in Orders : /\ ~verified[o] /\ reference[o] = NoRef
                             /\ status[o] \notin VERIFIED_STATUSES
        /\ \A g \in GatewayIds : receipt[g] = Unpaid
    BY InitFacts, IdleFields DEF VERIFIED_STATUSES
  <1>2. CreateInv /\ DraftInv /\ ExemptInv /\ SettleInv
    BY <1>1 DEF CreateInv, DraftInv, ExemptInv, SettleInv
  <1>3. VerifiedIsPaid /\ UniqueRefs /\ ReceiptInv
    BY <1>1 DEF VerifiedIsPaid, Settled, UniqueRefs, ReceiptInv
  <1> QED BY <1>2, <1>3, InitType, ExclusiveInit, TableInit DEF MoneyInv

LEMMA MoneyInvStep ==
    ASSUME MoneyInv, [Next]_ledgerVars
    PROVE  MoneyInv' /\ Kinds /\ RowsStep /\ GatewayStep
  <1>1. TypeOK /\ ExclusiveSettlement
    BY DEF MoneyInv
  <1>2. /\ RowInv /\ MappedInv /\ CreateInv /\ DraftInv /\ ExemptInv /\ SettleInv
        /\ VerifiedIsPaid /\ UniqueRefs /\ GidInv
        /\ OfferInv /\ IssuedInv /\ OneLiveLink /\ NoCrossUserLink /\ ReceiptInv /\ TokenInv
    BY DEF MoneyInv
  <1>3. TypeOK' /\ Kinds
    BY <1>1, StepKinds
  <1>4. ExclusiveSettlement'
    BY <1>1, <1>3, ExclusiveStep
  <1>5. RowsStep /\ known \subseteq known' /\ ids <= ids'
    BY <1>1, <1>2, <1>3, RowSteps
  <1>6. \A o \in Orders : RowStep(o)
    BY <1>5 DEF RowsStep
  <1>7. GatewayStep
    BY <1>1, <1>3, GatewaySteps
  <1>8. RowInv'
    BY <1>1, <1>2, <1>3, <1>5, <1>6, RowInvStep
  <1>9. MappedInv'
    BY <1>1, <1>2, <1>3, <1>5, <1>6, MappedInvStep
  <1>10. CreateInv'
    BY <1>1, <1>2, <1>3, <1>5, <1>6, CreateInvStep
  <1>11. DraftInv'
    BY <1>1, <1>2, <1>3, <1>5, DraftInvStep
  <1>12. ExemptInv'
    BY <1>1, <1>2, <1>3, <1>6, ExemptInvStep
  <1>13. SettleInv'
    BY <1>1, <1>2, <1>3, <1>7, SettleInvStep
  <1>14. VerifiedIsPaid'
    BY <1>1, <1>2, <1>3, <1>5, <1>7, VerifiedIsPaidStep
  <1>15. UniqueRefs'
    BY <1>1, <1>2, <1>5, UniqueRefsStep
  <1>16. GidInv'
    BY <1>1, <1>2, <1>3, <1>5, GidInvStep
  <1>17. OfferInv'
    BY <1>1, <1>2, <1>3, <1>5, <1>7, OfferInvStep
  <1>18. IssuedInv' /\ OneLiveLink' /\ NoCrossUserLink'
    BY <1>1, <1>2, <1>3, <1>5, <1>7, IssuedSteps, IssuedInvStep
  <1>19. ReceiptInv'
    BY <1>2, <1>7, ReceiptInvStep
  <1>20. TokenInv'
    BY <1>1, <1>2, <1>3, <1>5, <1>7, TokenInvStep
  <1>21. MoneyInv'
    BY <1>3, <1>4, <1>8, <1>9, <1>10, <1>11, <1>12, <1>13, <1>14, <1>15, <1>16, <1>17,
       <1>18, <1>19, <1>20 DEF MoneyInv
  <1> QED BY <1>3, <1>5, <1>7, <1>21

(* The inductive invariant of the money path. *)
THEOREM MoneyInvariant == Spec => []MoneyInv
  <1>1. MoneyInv /\ [Next]_ledgerVars => MoneyInv'
    BY MoneyInvStep
  <1> QED BY <1>1, MoneyInit, PTL DEF Spec

-----------------------------------------------------------------------------
(* What the invariant gives. *)

(* A payment counts as verified only if the gateway holds a receipt for    *)
(* exactly the row's amount, payer and reference id, however callbacks,    *)
(* polls, recoveries and retried links interleave.                         *)
THEOREM VerifiedPaymentsArePaid == Spec => []VerifiedIsPaid
  <1>1. MoneyInv => VerifiedIsPaid
    BY DEF MoneyInv
  <1> QED BY <1>1, MoneyInvariant, PTL

(* The bot never holds two different links for an order, and the one it    *)
(* holds is the one the row accepts callbacks for.                         *)
THEOREM LinkIsUnique == Spec => []OneLiveLink
  <1>1. MoneyInv => OneLiveLink
    BY DEF MoneyInv
  <1> QED BY <1>1, MoneyInvariant, PTL

(* No link bound to one Telegram user's payer identity reaches another     *)
(* user, whatever old rows, retries and adoptions came before.             *)
THEOREM UsersAreSeparate == Spec => []NoCrossUserLink
  <1>1. MoneyInv => NoCrossUserLink
    BY DEF MoneyInv
  <1> QED BY <1>1, MoneyInvariant, PTL

(* All links ever registered at the gateway for an order, those of failed  *)
(* and lost attempts included, ask for the row's fee snapshot.             *)
THEOREM PriceIsFixed == Spec => []OnePricePerOrder
  <1>1. MoneyInv => OnePricePerOrder
    BY DEF MoneyInv, OfferInv, OnePricePerOrder
  <1> QED BY <1>1, MoneyInvariant, PTL

LEMMA CleanTable ==
    ASSUME MoneyInv
    PROVE  DbCheckClean
  <1>1. TypeOK /\ RowInv /\ UniqueRefs /\ GidInv
    BY DEF MoneyInv
  <1>2. ~ \E o, q \in Rows : o # q /\ link[o].gid = link[q].gid
    BY <1>1 DEF GidInv, Rows
  <1>3. ~ \E o, q \in Rows : o # q /\ reference[o] # NoRef /\ reference[o] = reference[q]
    BY <1>1 DEF UniqueRefs, Rows
  <1>4. \A o \in Rows : /\ link[o].amount \in Nat /\ link[o].payable \in Nat
                        /\ link[o].amount # 0 /\ link[o].payable >= link[o].amount
    BY <1>1, TypeFacts DEF Rows, RowInv, Link
  <1>5. ~ \E o \in Rows : link[o].payable < link[o].amount
    BY <1>4
  <1>6. ~ \E o \in Rows : link[o].payable = 0
    BY <1>4
  <1> QED BY <1>2, <1>3, <1>5, <1>6 DEF DbCheckClean, DbCheckFailures

(* No reachable table fails `centralpay db-check`: gateway order ids and   *)
(* reference ids stay unique over all rows, the latter by the constraint   *)
(* evaluated at the commit, and every fee snapshot is consistent.          *)
THEOREM DatabaseStaysClean == Spec => []DbCheckClean
  <1>1. MoneyInv => DbCheckClean
    BY CleanTable
  <1> QED BY <1>1, MoneyInvariant, PTL

(* Nobody touches a settled or referred row. *)
LEMMA FrozenRow ==
    ASSUME MoneyInv, [Next]_ledgerVars, NEW o \in Orders, Settled(o) \/ status[o] = "manual_review"
    PROVE  RowStays(o)
  <1> USE HandlersAreProcs
  <1>1. /\ TypeOK /\ ExclusiveSettlement /\ RowInv /\ DraftInv /\ SettleInv
    BY DEF MoneyInv
  <1>2. RowStep(o)
    BY MoneyInvStep DEF RowsStep
  <1>3. status[o] # "absent"
    BY <1>1 DEF RowInv, Settled, VERIFIED_STATUSES
  <1>4. ASSUME NEW h \in Handlers, RowLinked(o, h)
        PROVE  FALSE
    BY <1>1, <1>4 DEF RowLinked, ExclusiveSettlement
  <1>5. ASSUME NEW x \in Procs, RowReferred(o, x) \/ RowSettled(o, x)
        PROVE  FALSE
    BY <1>1, <1>5 DEF RowReferred, RowSettled, VerifyAnomaly, CommitSettlement,
                      ExclusiveSettlement
  <1> QED BY <1>2, <1>3, <1>4, <1>5 DEF RowStep, RowInserted

(* No late callback, poll, recovery, retried request or crash changes the  *)
(* status, facts or link of a payment once it is settled or under review.  *)
THEOREM SettledStaysFrozen == Spec => SettledIsFrozen
  <1>1. MoneyInv /\ [Next]_ledgerVars =>
          [\A o \in Orders : Settled(o) \/ status[o] = "manual_review" =>
              /\ status'[o] = status[o]
              /\ verified'[o] = verified[o]
              /\ reference'[o] = reference[o]
              /\ link'[o] = link[o]]_ledgerVars
    BY FrozenRow DEF RowStays
  <1> QED BY <1>1, MoneyInvariant, PTL DEF Spec, SettledIsFrozen

LEMMA PredictedStep ==
    ASSUME MoneyInv, [Next]_ledgerVars, NEW o \in Orders, ~verified[o]
    PROVE  /\ verified'[o] => Assessment(o) = "WOULD_VERIFY"
           /\ status[o] # "manual_review" /\ status'[o] = "manual_review"
                => Assessment(o) = "WOULD_REQUIRE_MANUAL_REVIEW"
  <1> USE HandlersAreProcs
  <1>1. TypeOK /\ SettleInv
    BY DEF MoneyInv
  <1>2. RowStep(o)
    BY MoneyInvStep DEF RowsStep
  <1>3. ASSUME NEW x \in Procs, RowSettled(o, x)
        PROVE  Assessment(o) = "WOULD_VERIFY" /\ status'[o] # "manual_review"
    <2>1. /\ ctx[x].pc = "settle" /\ ctx[x].order = o /\ UniqueReference(o, ctx[x].ref)
          /\ status'[o] # "manual_review"
      BY <1>3 DEF RowSettled, CommitSettlement
    <2> DEFINE r == receipt[link[o].gid]
    <2>a. /\ ctx[x].ref # NoRef
          /\ r = [ref |-> ctx[x].ref, amount |-> link[o].payable, payer |-> link[o].payer]
      BY <1>1, <2>1 DEF SettleInv
    <2>2. /\ r.ref = ctx[x].ref /\ r.ref # NoRef
          /\ r.amount = link[o].payable /\ r.payer = link[o].payer
      BY <2>a
    <2>3. r # Unpaid
      BY <2>2 DEF Unpaid
    <2>4. ~ReferenceTaken(o, r.ref)
      BY <2>1, <2>2 DEF UniqueReference, ReferenceTaken
    <2> QED BY <2>1, <2>2, <2>3, <2>4 DEF Assessment
  <1>4. ASSUME NEW x \in Procs, RowReferred(o, x)
        PROVE  Assessment(o) = "WOULD_REQUIRE_MANUAL_REVIEW" /\ verified'[o] = verified[o]
    <2> DEFINE r == receipt[link[o].gid]
    <2>1. /\ r # Unpaid /\ verified'[o] = verified[o]
          /\ \/ r.ref = NoRef \/ r.amount # link[o].payable \/ r.payer # link[o].payer
             \/ ReferenceTaken(o, r.ref)
      BY <1>4 DEF RowReferred, VerifyAnomaly, Mismatch
    <2> QED BY <2>1 DEF Assessment
  <1>5. ASSUME RowStays(o) \/ RowInserted(o) \/ \E h \in Handlers : RowLinked(o, h)
        PROVE  /\ verified'[o] = verified[o]
               /\ status'[o] = status[o] \/ status'[o] # "manual_review"
    BY <1>5 DEF RowStays, RowInserted, RowLinked
  <1> QED BY <1>2, <1>3, <1>4, <1>5 DEF RowStep

(* The inspection command's own copy of the settlement checks agrees with  *)
(* what settlement then does, in every state a settlement commits in.      *)
THEOREM SettlementIsAsPredicted == Spec => SettlementAsPredicted
  <1>1. MoneyInv /\ [Next]_ledgerVars =>
          [\A o \in Orders :
              /\ ~verified[o] /\ verified'[o] => Assessment(o) = "WOULD_VERIFY"
              /\ ~verified[o] /\ status[o] # "manual_review" /\ status'[o] = "manual_review"
                    => Assessment(o) = "WOULD_REQUIRE_MANUAL_REVIEW"]_ledgerVars
    BY PredictedStep
  <1> QED BY <1>1, MoneyInvariant, PTL DEF Spec, SettlementAsPredicted

-----------------------------------------------------------------------------
(* Exempt requests. *)

(* Only its own step moves a request. *)
LEMMA OwnStep ==
    ASSUME TypeOK, [Next]_ledgerVars, NEW h \in Handlers, ctx'[h] # ctx[h]
    PROVE  HandlerStep(h)
  <1> USE HandlersAreProcs
  <1>1. ASSUME NEW g \in Handlers, HandlerStep(g)
        PROVE  Others(g)
    <2>1. ASSUME NEW o \in Orders, Asks(g, o)
          PROVE  Others(g)
      BY <2>1, AskingEffect DEF Asks
    <2>2. CASE DiagnosticEnds(g)
      BY <2>2, AbandonEffect
    <2> QED BY <1>1, <2>1, <2>2, CreateKinds, SettleKinds DEF HandlerStep, Asks
  <1>2. ASSUME NEW r \in Reconcilers, ReconcilerStep(r)
        PROVE  Others(r)
    BY <1>2, ClaimDueEffect, FinalizeEffect, SettleKinds DEF ReconcilerStep
  <1>3. ASSUME Environment \/ UNCHANGED ledgerVars
        PROVE  ctx' = ctx
    BY <1>3 DEF Environment, Pay, ChangeFee, RetryComesDue, AgeLink, ledgerVars
  <1>4. h \notin Reconcilers
    BY NamesAssumption
  <1> QED BY <1>1, <1>2, <1>3, <1>4 DEF Next, Others

LEMMA FreeReplay ==
    ASSUME MoneyInv, [Next]_ledgerVars, NEW h \in Handlers, ctx[h].exempt, ctx'[h] # ctx[h]
    PROVE  UNCHANGED <<rowVars, ids, tokens, known, offers>>
  <1> USE HandlersAreProcs
  <1>1. TypeOK /\ ExemptInv /\ MappedInv
    BY DEF MoneyInv
  <1>2. PICK o \in Orders : o = ctx[h].order
    BY <1>1 DEF ExemptInv, TypeOK
  <1>3. /\ ctx[h].pc \in {"replay", "create"}
        /\ status[o] \in LINKED_STATUSES /\ link[o].url # 0
        /\ link[o].payer.key = ctx[h].key
    BY <1>1, <1>2 DEF ExemptInv
  <1>4. HandlerStep(h)
    BY <1>1, OwnStep
  <1>5. CASE BeginReplay(h)
    <2>1. /\ ctx[h].key \in Keys /\ EnsureRow(h, o, ctx[h].key, ctx[h].amount, TRUE)
      BY <1>1, <1>2, <1>5, BeginReplayIsEnsureRow
    <2>2. status[o] # "absent"
      BY <1>3 DEF LINKED_STATUSES
    <2>3. /\ UNCHANGED <<status, verified, link, reference, recon, ids, tokens, offers>>
          /\ known' = IF RetiredMatch(o, ctx[h].key) THEN known
                      ELSE known \cup {IdentityKey(o, ctx[h].key)}
      BY <2>1, <2>2 DEF EnsureRow, gatewayVars
    <2>4. RetiredMatch(o, ctx[h].key) \/ IdentityKey(o, ctx[h].key) \in known
      BY <1>1, <1>3, <2>1, <2>2 DEF RetiredMatch, MappedInv, Mapped
    <2>5. known' = known
      BY <2>3, <2>4
    <2> QED BY <2>3, <2>5 DEF rowVars
  <1>6. CASE RefuseCreate(h)
    BY <1>6 DEF RefuseCreate, drawVars, gatewayVars
  <1>7. CASE ReturnExistingLink(h)
    BY <1>7 DEF ReturnExistingLink, drawVars
  <1>8. CASE StartGetLink(h)
    <2>1. ~Settled(o) /\ status[o] # "manual_review" /\ ~HasLink(o)
      BY <1>2, <1>8 DEF StartGetLink, Refused
    <2> QED BY <1>3, <2>1 DEF HasLink, Settled, LINKED_STATUSES, VERIFIED_STATUSES
  <1>9. CASE CrashDuringCreate(h)
    BY <1>3, <1>9 DEF CrashDuringCreate, drawVars
  <1>10. /\ ~GetLinkSucceeds(h) /\ ~GetLinkFails(h) /\ ~DiagnosticEnds(h) /\ ~SettleStep(h)
         /\ \A q \in Orders : /\ ~Callback(h, q) /\ ~RecoverAgedOut(h, q)
                              /\ ~DiagnosticVerify(h, q)
         /\ \A q \in Orders, key \in Keys, amount \in Amounts :
               ~AdmitReplay(h, q, key, amount) /\ ~BeginCreate(h, q, key, amount)
    BY <1>3 DEF GetLinkSucceeds, GetLinkFails, DiagnosticEnds, SettleStep, VerifyAnswer,
                VerifyTransportFails, VerifyNotPaid, VerifyAnomaly, VerifyPaid,
                CommitSettlement, SettlementRaises, CrashDuringSettlement,
                Callback, RecoverAgedOut, DiagnosticVerify, AdmitReplay, BeginCreate
  <1> QED BY <1>4, <1>5, <1>6, <1>7, <1>8, <1>9, <1>10 DEF HandlerStep, CreateStep

(* A request let past the rate limiters on an unlocked read of its row     *)
(* stays harmless to its end: whatever happened since, it inserts nothing, *)
(* draws nothing, maps nothing and calls nobody.                           *)
THEOREM ExemptReplaysAreFree == Spec => ExemptReplayIsFree
  <1>1. MoneyInv /\ [Next]_ledgerVars =>
          [\A h \in Handlers : ctx[h].exempt /\ ctx'[h] # ctx[h] =>
              UNCHANGED <<rowVars, ids, tokens, known, offers>>]_ledgerVars
    BY FreeReplay
  <1> QED BY <1>1, MoneyInvariant, PTL DEF Spec, ExemptReplayIsFree

=============================================================================
