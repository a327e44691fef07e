--------------------------- MODULE Reconciliation ---------------------------
(***************************************************************************)
(* The reconciliation thread: polls links whose callback may have been     *)
(* lost, claims one, settles it through verify_and_settle with the row     *)
(* lock held, then records the outcome in a second transaction.            *)
(***************************************************************************)
EXTENDS Verification

(* Mutant: a row whose claim was never cleared is somebody else's. *)
DueUnclaimed(o) ==
    /\ status[o] = "link_created"
    /\ ~verified[o]
    /\ recon[o].age \in {"active", "expiring"}
    /\ recon[o].next \in {"null", "due"}
    /\ recon[o].attempts < MaxReconcile
    /\ recon[o].claimed = NoOne

(* tier_due_conditions of either age tier. *)
Due(o) ==
    /\ status[o] = "link_created"
    /\ ~verified[o]
    /\ recon[o].age \in {"active", "expiring"}
    /\ recon[o].next \in {"null", "due"}
    /\ recon[o].attempts < MaxReconcile

(* The claim columns are not committed here: see CommitClaim. *)
ClaimDue(r, o) ==
    /\ ctx[r].pc = "idle"
    /\ Free(o)
    /\ Due(o)
    /\ Acquire(o, r)
    /\ Become(r, [Idle EXCEPT !.pc = "verify", !.order = o,
                              !.attempt = recon[o].attempts + 1,
                              !.error = recon[o].error])
    /\ UNCHANGED <<rowVars, drawVars, gatewayVars>>

(* _finalize re-selects the row FOR UPDATE but without populate_existing,  *)
(* in a session that does not expire on commit: the object claimed earlier *)
(* comes back with the attributes it had.  Only a rollback expires them.   *)
StatusSeen(r) ==
    IF ctx[r].outcome = "internal" THEN status[ctx[r].order] ELSE "link_created"

Repaired(r) ==
    LET c == recon[ctx[r].order]
    IN  [c EXCEPT !.claimed = NoOne,
                  !.attempts = IF ctx[r].outcome = "internal" /\ c.attempts < ctx[r].attempt
                               THEN ctx[r].attempt ELSE @]

(* An assignment of the value the object already has is not written. *)
ErrorWritten(r, code) ==
    IF ctx[r].outcome # "internal" /\ ctx[r].error = code
    THEN recon[ctx[r].order].error ELSE code

FinalColumns(r) ==
    CASE ctx[r].outcome = "verified" ->
            [Repaired(r) EXCEPT !.next = "null",
                                  !.error = ErrorWritten(r, "none")]
      [] ctx[r].outcome = "under_review" ->
            [Repaired(r) EXCEPT !.next = "null"]
      [] OTHER ->
            IF StatusSeen(r) # "link_created"
            THEN Repaired(r)
            ELSE [Repaired(r) EXCEPT !.error = ErrorWritten(r, ctx[r].outcome),
                    !.next = IF ctx[r].attempt >= MaxReconcile THEN "null" ELSE "later"]

Finalize(r) ==
    /\ ctx[r].pc = "finalize"
    /\ Free(ctx[r].order)
    /\ recon' = [recon EXCEPT ![ctx[r].order] = FinalColumns(r)]
    /\ Become(r, Idle)
    /\ UNCHANGED <<status, verified, link, reference, lock, drawVars, gatewayVars>>

(* reconciliation_next_at passes. *)
RetryComesDue(o) ==
    /\ recon[o].next = "later"
    /\ recon' = [recon EXCEPT ![o].next = "due"]
    /\ UNCHANGED <<status, verified, link, reference, lock, ctx, drawVars, gatewayVars>>

(* The link grows older: past the grace period, past the fast window, past *)
(* the reconciliation lifetime.                                            *)
Older == [young |-> "active", active |-> "expiring", expiring |-> "aged_out"]

AgeLink(o) ==
    /\ status[o] = "link_created"
    /\ recon[o].age \in DOMAIN Older
    /\ recon' = [recon EXCEPT ![o].age = Older[@]]
    /\ UNCHANGED <<status, verified, link, reference, lock, ctx, drawVars, gatewayVars>>

=============================================================================
