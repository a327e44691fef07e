------------------------------ MODULE Admission ------------------------------
(***************************************************************************)
(* POST /api/custom-payment up to the payment row: an authenticated        *)
(* request passes the rate limiters unless it is a safe replay, and then   *)
(* resolves its payer identity.  What it does to the row is LinkCreation.  *)
(***************************************************************************)
EXTENDS Limiter, PayerIdentity

ASSUME ThreadsAssumption == Threads = Requests

admissionVars == <<limiterVars, identityVars>>

AdmissionTypeOK == LimiterTypeOK /\ IdentityTypeOK

Admit(t) ==
    /\ request[t].pc = "idle"
    /\ AdmitStep(t)
    /\ UNCHANGED identityVars

(* Creation disabled, no payer-id secret, or an amount below the minimum. *)
RefuseAdmitted(t) ==
    /\ gate[t].pc = "admitted"
    /\ gate' = [gate EXCEPT ![t] = IdleGate]
    /\ UNCHANGED <<shared, buckets, store, admitted, perSource, seen, identityVars>>

(* The key is the user the body or query names, or else the order. *)
Enter(t, key) ==
    /\ gate[t].pc = "admitted"
    /\ Start(t, key)
    /\ gate' = [gate EXCEPT ![t] = IdleGate]
    /\ UNCHANGED <<shared, buckets, store, admitted, perSource, seen>>

Resolve(t) == ResolveStep(t) /\ UNCHANGED limiterVars

AdmissionInit == LimiterInit /\ IdentityInit

AdmissionNext ==
    \/ \E t \in Threads :
          \/ Admit(t)
          \/ RefuseAdmitted(t)
          \/ \E key \in IdentityKeys : Enter(t, key)
          \/ Resolve(t)
    \/ Tick /\ UNCHANGED identityVars

AdmissionSpec == AdmissionInit /\ [][AdmissionNext]_admissionVars

=============================================================================
