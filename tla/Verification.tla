---------------------------- MODULE Verification ----------------------------
(***************************************************************************)
(* process_callback, the aged-out recovery command, and verify_and_settle, *)
(* the single settlement path that they share with reconciliation.         *)
(*                                                                         *)
(* The transaction is open, and the row locked, from the check that the    *)
(* payment is unsettled until the commit; the reference-id collision check *)
(* and the commit are two steps, because the check locks no other row.     *)
(***************************************************************************)
EXTENDS Ledger

(* Mutant: the callback trusts its token and goes straight to verify. *)
CallbackUnchecked(h, o) ==
    /\ ctx[h].pc = "idle"
    /\ Free(o)
    /\ \E l \in offers : l.gid = link[o].gid /\ l.token = link[o].token
    /\ Acquire(o, h)
    /\ Become(h, [Idle EXCEPT !.pc = "verify", !.order = o])
    /\ UNCHANGED <<rowVars, drawVars, gatewayVars>>

(* Mutant: only a payment whose link was recorded takes callbacks. *)
CallbackAcceptedLinked(o) ==
    /\ \E l \in offers : l.gid = link[o].gid /\ l.token = link[o].token
    /\ status[o] = "link_created"

(* process_callback: the row is found by gateway order id and its token    *)
(* must be the current one.  A callback for an unknown id, a stale token,  *)
(* or a payment already settled or under review changes nothing; one for a *)
(* payment whose getLink failed is as good as any.                         *)
CallbackAccepted(o) ==
    /\ \E l \in offers : l.gid = link[o].gid /\ l.token = link[o].token
    /\ ~Settled(o)
    /\ status[o] # "manual_review"

Callback(h, o) ==
    /\ ctx[h].pc = "idle"
    /\ Free(o)
    /\ CallbackAccepted(o)
    /\ Acquire(o, h)
    /\ Become(h, [Idle EXCEPT !.pc = "verify", !.order = o])
    /\ UNCHANGED <<rowVars, drawVars, gatewayVars>>

(* determine_recovery_refusal *)
RecoveryRefused(o) ==
    Settled(o) \/ status[o] # "link_created" \/ recon[o].age # "aged_out"

(* execute_confirmed_recovery: eligibility is re-read under the lock. *)
RecoverAgedOut(h, o) ==
    /\ ctx[h].pc = "idle"
    /\ Free(o)
    /\ ~RecoveryRefused(o)
    /\ Acquire(o, h)
    /\ Become(h, [Idle EXCEPT !.pc = "verify", !.order = o])
    /\ UNCHANGED <<rowVars, drawVars, gatewayVars>>

-----------------------------------------------------------------------------
(* Every commit of verify_and_settle by a reconciler also writes its claim *)
(* and the provisional schedule, which ride in the same transaction.       *)
CommitClaim(x) ==
    recon' = IF x \in Reconcilers
             THEN [recon EXCEPT ![ctx[x].order] =
                     [@ EXCEPT !.attempts = ctx[x].attempt, !.claimed = x, !.next = "later"]]
             ELSE recon

(* The lock goes with the commit; a reconciler still has to finalize. *)
EndAttempt(x, outcome) ==
    /\ Release(x)
    /\ Become(x, IF x \in Reconcilers
                 THEN [ctx[x] EXCEPT !.pc = "finalize", !.ref = NoRef, !.outcome = outcome]
                 ELSE Idle)

(* A transport or protocol error is recorded and raised to the caller. *)
VerifyTransportFails(x) ==
    /\ ctx[x].pc = "verify"
    /\ CommitClaim(x)
    /\ EndAttempt(x, "transport")
    /\ UNCHANGED <<status, verified, link, reference, drawVars, gatewayVars>>

(* The gateway says unpaid; it may lag behind the payer. *)
VerifyNotPaid(x) ==
    /\ ctx[x].pc = "verify"
    /\ CommitClaim(x)
    /\ EndAttempt(x, "gateway_not_paid")
    /\ UNCHANGED <<status, verified, link, reference, drawVars, gatewayVars>>

(* Mutant: whoever paid, paid. *)
MismatchAnyPayer(o, r) == r.ref = NoRef \/ r.amount # link[o].payable

(* _validate_and_apply_verification: what the gateway reports against what *)
(* the row recorded.                                                       *)
Mismatch(o, r) ==
    \/ r.ref = NoRef
    \/ r.amount # link[o].payable
    \/ r.payer # link[o].payer

ReferenceTaken(o, ref) == \E q \in Orders \ {o} : reference[q] = ref

(* A mismatch or a reference id another payment has: manual review. *)
VerifyAnomaly(x) ==
    LET o == ctx[x].order
        r == receipt[link[o].gid]
    IN  /\ ctx[x].pc = "verify"
        /\ r # Unpaid
        /\ Mismatch(o, r) \/ ReferenceTaken(o, r.ref)
        /\ status' = [status EXCEPT ![o] = "manual_review"]
        /\ CommitClaim(x)
        /\ EndAttempt(x, "under_review")
        /\ UNCHANGED <<verified, link, reference, drawVars, gatewayVars>>

(* All checks passed, the commit still to come. *)
VerifyPaid(x) ==
    LET o == ctx[x].order
        r == receipt[link[o].gid]
    IN  /\ ctx[x].pc = "verify"
        /\ r # Unpaid
        /\ ~Mismatch(o, r)
        /\ ~ReferenceTaken(o, r.ref)
        /\ Become(x, [ctx[x] EXCEPT !.pc = "settle", !.ref = r.ref])
        /\ UNCHANGED <<rowVars, lock, drawVars, gatewayVars>>

(* Mutant: no UNIQUE constraint on reference_id. *)
UniqueReferenceDropped(o, ref) == ref # NoRef

(* The database's UNIQUE constraint, evaluated at the commit. *)
UniqueReference(o, ref) == \A q \in Orders \ {o} : reference[q] # ref

(* Verified and queued for the bot in one commit, if the reference id is   *)
(* still free.                                                             *)
CommitSettlement(x) ==
    LET o == ctx[x].order
    IN  /\ ctx[x].pc = "settle"
        /\ UniqueReference(o, ctx[x].ref)
        /\ status' = [status EXCEPT ![o] = "bot_notify_pending"]
        /\ verified' = [verified EXCEPT ![o] = TRUE]
        /\ reference' = [reference EXCEPT ![o] = ctx[x].ref]
        /\ CommitClaim(x)
        /\ EndAttempt(x, "verified")
        /\ UNCHANGED <<link, drawVars, gatewayVars>>

(* The unique constraint, or anything unexpected before the commit, raises:*)
(* everything rolls back.  A reconciler survives it and finalizes.         *)
SettlementRaises(x) ==
    /\ ctx[x].pc \in {"verify", "settle"}
    /\ EndAttempt(x, "internal")
    /\ UNCHANGED <<rowVars, drawVars, gatewayVars>>

CrashDuringSettlement(x) ==
    /\ ctx[x].pc \in {"verify", "settle", "finalize"}
    /\ Release(x)
    /\ Become(x, Idle)
    /\ UNCHANGED <<rowVars, drawVars, gatewayVars>>

VerifyAnswer(x) ==
    \/ VerifyTransportFails(x)
    \/ VerifyNotPaid(x)
    \/ VerifyAnomaly(x)
    \/ VerifyPaid(x)

SettleStep(x) ==
    \/ VerifyAnswer(x)
    \/ CommitSettlement(x)
    \/ SettlementRaises(x)
    \/ CrashDuringSettlement(x)

=============================================================================
