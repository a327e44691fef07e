---------------------------- MODULE LinkCreation ----------------------------
(***************************************************************************)
(* create_payment: one row per order, one payment link per row, retried    *)
(* and raced by the bot at will.                                           *)
(***************************************************************************)
EXTENDS Ledger

CONSTANT RateLimitEnabled   \* RATE_LIMIT_ENABLED; without it all requests are admitted alike

ASSUME RateLimitAssumption == RateLimitEnabled \in BOOLEAN

(* Mutant: any request for the stored link is free. *)
SafeReplayAnyIdentity(o, key, amount) ==
    status[o] = "link_created" /\ link[o].url # 0 /\ link[o].amount = amount

(* find_safe_replay_redirect_url: will this request only be answered with  *)
(* the stored link?  A raw Telegram id never equals a retired-scheme id.   *)
SafeReplay(o, key, amount) ==
    /\ status[o] = "link_created"
    /\ link[o].url # 0
    /\ link[o].amount = amount
    /\ link[o].payer.key = key
    /\ key \in Users => ~link[o].payer.retired

(* The route reads the row without a lock and, for a safe replay, skips    *)
(* the rate limiters.                                                      *)
AdmitReplay(h, o, key, amount) ==
    /\ RateLimitEnabled
    /\ ctx[h].pc = "idle"
    /\ SafeReplay(o, key, amount)
    /\ Become(h, [Idle EXCEPT !.pc = "replay", !.order = o, !.key = key,
                              !.amount = amount, !.exempt = TRUE])
    /\ UNCHANGED <<rowVars, lock, drawVars, gatewayVars>>

(* Does the stored mapping belong to this identity's retired key? *)
RetiredMatch(o, key) ==
    status[o] # "absent" /\ link[o].payer.key = key /\ link[o].payer.retired

(* _ensure_payment_row, then the unlocked read that recognises a retired-  *)
(* scheme identity.  The fee snapshot is taken by the request that inserts *)
(* the row; an insert that loses the race finds the row existing.  Unless  *)
(* the stored identity is the same one under the retired scheme,           *)
(* resolve_payer_identity leaves a mapping row for the requested one.      *)
EnsureRow(h, o, key, amount, exempt) ==
    /\ \/ /\ status[o] = "absent"
          /\ Payable(amount, rate) <= MaxPayable
          /\ ids < MaxIds
          /\ status' = [status EXCEPT ![o] = "created"]
          /\ link' = [link EXCEPT ![o] =
                        [BlankLink EXCEPT !.amount = amount,
                                          !.payable = Payable(amount, rate),
                                          !.payer = CurrentPayer(key),
                                          !.gid = ids + 1]]
          /\ ids' = ids + 1
       \/ /\ status[o] # "absent"
          /\ UNCHANGED <<status, link, ids>>
    /\ known' = IF RetiredMatch(o, key) THEN known ELSE known \cup {IdentityKey(o, key)}
    /\ Become(h, [Idle EXCEPT !.pc = "create", !.order = o, !.key = key,
                              !.amount = amount, !.exempt = exempt,
                              !.retired = RetiredMatch(o, key)])
    /\ UNCHANGED <<verified, reference, recon, lock, rate, tokens, gatewayVars>>

BeginCreate(h, o, key, amount) ==
    ctx[h].pc = "idle" /\ EnsureRow(h, o, key, amount, FALSE)

BeginReplay(h) ==
    /\ ctx[h].pc = "replay"
    /\ EnsureRow(h, ctx[h].order, ctx[h].key, ctx[h].amount, TRUE)

LiveLink(o) == link[o].url # 0 \/ verified[o] \/ status[o] \in LINKED_STATUSES

(* Mutant: an identity conflict is not an error. *)
IdentityDecisionLenient(h) == IF ctx[h].retired THEN "adopt" ELSE "reuse"

(* _reconcile_identity: what the requested identity does to the stored one.*)
IdentityDecision(h) ==
    LET o == ctx[h].order
        key == ctx[h].key
        stored == link[o].payer
        unlessLive == IF LiveLink(o) THEN "reuse" ELSE "adopt"
    IN  IF ctx[h].retired THEN "reuse"
        ELSE IF stored.key = "shared" THEN unlessLive
        ELSE CASE stored = CurrentPayer(key) -> "reuse"
               [] stored.key \in Users /\ key = "order" -> "reuse"
               [] stored.key = "order" /\ key \in Users -> unlessLive
               [] OTHER -> "reject"

(* Mutant: a payment under review may get a new link. *)
RefusedUnlessReviewed(h) ==
    LET o == ctx[h].order
    IN  IdentityDecision(h) = "reject" \/ link[o].amount # ctx[h].amount \/ Settled(o)

Refused(h) ==
    LET o == ctx[h].order
    IN  \/ IdentityDecision(h) = "reject"
        \/ link[o].amount # ctx[h].amount
        \/ Settled(o)
        \/ status[o] = "manual_review"

(* Mutant: an existing link is not recognised. *)
HasLinkUnknown(o) == status[o] = "created" /\ link[o].url # 0

HasLink(o) == status[o] = "link_created" /\ link[o].url # 0

(* Another user's order, another amount, already paid, or under review. *)
RefuseCreate(h) ==
    /\ ctx[h].pc = "create"
    /\ Free(ctx[h].order)
    /\ Refused(h)
    /\ Become(h, Idle)
    /\ UNCHANGED <<rowVars, lock, drawVars, gatewayVars>>

(* The idempotent replay: the stored URL goes back to the bot. *)
ReturnExistingLink(h) ==
    LET o == ctx[h].order
    IN  /\ ctx[h].pc = "create"
        /\ Free(o)
        /\ ~Refused(h)
        /\ HasLink(o)
        /\ issued' = issued \cup
             {[offer |-> LinkOffer(o, [link[o] EXCEPT !.token = link[o].url]),
               to |-> ctx[h].key]}
        /\ Become(h, Idle)
        /\ UNCHANGED <<rowVars, lock, drawVars, offers, receipt>>

(* Under the lock: adopt the identity if decided so, draw a fresh gateway  *)
(* order id after a failed attempt, mint a fresh callback token, and call  *)
(* getLink with the row still locked.                                      *)
StartGetLink(h) ==
    LET o == ctx[h].order
        retry == status[o] = "getlink_failed"
    IN  /\ ctx[h].pc = "create"
        /\ Free(o)
        /\ ~Refused(h)
        /\ ~HasLink(o)
        /\ tokens < MaxTokens
        /\ retry => ids < MaxIds
        /\ Acquire(o, h)
        /\ ids' = IF retry THEN ids + 1 ELSE ids
        /\ tokens' = tokens + 1
        /\ Become(h, [ctx[h] EXCEPT
             !.pc = "getlink",
             !.draft = [link[o] EXCEPT
                !.payer = IF IdentityDecision(h) = "adopt"
                          THEN CurrentPayer(ctx[h].key) ELSE @,
                !.gid = IF retry THEN ids + 1 ELSE @,
                !.token = tokens + 1]])
        /\ UNCHANGED <<rowVars, rate, known, gatewayVars>>

GetLinkSucceeds(h) ==
    LET o == ctx[h].order
        draft == ctx[h].draft
    IN  /\ ctx[h].pc = "getlink"
        /\ status' = [status EXCEPT ![o] = "link_created"]
        /\ link' = [link EXCEPT ![o] = [draft EXCEPT !.url = draft.token]]
        /\ recon' = [recon EXCEPT ![o].age = "young"]
        /\ offers' = offers \cup {LinkOffer(o, draft)}
        /\ issued' = issued \cup {[offer |-> LinkOffer(o, draft), to |-> ctx[h].key]}
        /\ Release(h)
        /\ Become(h, Idle)
        /\ UNCHANGED <<verified, reference, drawVars, receipt>>

(* An error or a timeout: CentralPay may have registered the link anyway.  *)
(* The new id, token and identity are committed with the failure.          *)
GetLinkFails(h) ==
    LET o == ctx[h].order
    IN  /\ ctx[h].pc = "getlink"
        /\ status' = [status EXCEPT ![o] = "getlink_failed"]
        /\ link' = [link EXCEPT ![o] = ctx[h].draft]
        /\ offers' \in {offers, offers \cup {LinkOffer(o, ctx[h].draft)}}
        /\ Release(h)
        /\ Become(h, Idle)
        /\ UNCHANGED <<verified, reference, recon, drawVars, issued, receipt>>

(* The API process dies during getLink: the transaction rolls back, the    *)
(* link may exist at the gateway, and its URL was returned to nobody.      *)
CrashDuringCreate(h) ==
    /\ ctx[h].pc \in {"replay", "create", "getlink"}
    /\ \/ UNCHANGED offers
       \/ /\ ctx[h].pc = "getlink"
          /\ offers' = offers \cup {LinkOffer(ctx[h].order, ctx[h].draft)}
    /\ Release(h)
    /\ Become(h, Idle)
    /\ UNCHANGED <<rowVars, drawVars, issued, receipt>>

CreateStep(h) ==
    \/ \E o \in Orders, key \in Keys, amount \in Amounts :
          AdmitReplay(h, o, key, amount) \/ BeginCreate(h, o, key, amount)
    \/ BeginReplay(h)
    \/ RefuseCreate(h)
    \/ ReturnExistingLink(h)
    \/ StartGetLink(h)
    \/ GetLinkSucceeds(h)
    \/ GetLinkFails(h)
    \/ CrashDuringCreate(h)

=============================================================================
