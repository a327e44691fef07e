----------------------------- MODULE Inspection -----------------------------
(***************************************************************************)
(* `centralpay reconcile ORDER --verify`: asks the gateway about one order *)
(* with the row locked, compares the answer with the row as settlement     *)
(* would, and writes nothing.                                              *)
(***************************************************************************)
EXTENDS Verification

CONSTANT DiagnosticEnabled   \* CENTRALPAY_DIAGNOSTIC_VERIFY_ENABLED

ASSUME DiagnosticAssumption == DiagnosticEnabled \in BOOLEAN

(* determine_verify_refusal; an aged-out order only needs the operator's   *)
(* confirmation.                                                           *)
VerifyRefused(o) == status[o] = "manual_review" \/ Settled(o)

(* The lock is taken first and eligibility read under it. *)
DiagnosticVerify(h, o) ==
    /\ DiagnosticEnabled
    /\ ctx[h].pc = "idle"
    /\ status[o] # "absent"
    /\ Free(o)
    /\ ~VerifyRefused(o)
    /\ Acquire(o, h)
    /\ Become(h, [Idle EXCEPT !.pc = "inspect", !.order = o])
    /\ UNCHANGED <<rowVars, drawVars, gatewayVars>>

(* Answer, error or death of the command: the transaction is rolled back. *)
DiagnosticEnds(h) ==
    /\ ctx[h].pc = "inspect"
    /\ Release(h)
    /\ Become(h, Idle)
    /\ UNCHANGED <<rowVars, drawVars, gatewayVars>>

(* Mutant: the comparison forgets who paid. *)
AssessmentAnyPayer(o) ==
    LET r == receipt[link[o].gid]
    IN  CASE r = Unpaid -> "NOT_SUCCESSFUL"
          [] r # Unpaid /\ (r.ref = NoRef \/ r.amount # link[o].payable
                            \/ ReferenceTaken(o, r.ref)) -> "WOULD_REQUIRE_MANUAL_REVIEW"
          [] OTHER -> "WOULD_VERIFY"

(* evaluate_verify_result: the second, independent copy of the settlement  *)
(* checks.                                                                 *)
Assessment(o) ==
    LET r == receipt[link[o].gid]
    IN  CASE r = Unpaid -> "NOT_SUCCESSFUL"
          [] r # Unpaid /\ (\/ r.ref = NoRef
                            \/ r.amount # link[o].payable
                            \/ r.payer # link[o].payer
                            \/ ReferenceTaken(o, r.ref)) -> "WOULD_REQUIRE_MANUAL_REVIEW"
          [] OTHER -> "WOULD_VERIFY"

=============================================================================
