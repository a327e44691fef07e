----------------------------- MODULE MCAdmission -----------------------------
(***************************************************************************)
(* Admission on a small instance: a user whose number a retired row        *)
(* occupies, and two orders whose first derivations collide, one of which  *)
(* derives the shared legacy id next.                                      *)
(***************************************************************************)
EXTENDS Admission, TLC

CONSTANTS t1, t2, s1, s2, u1, k1, k2, old

MCTelegramId == (u1 :> 1)

MCDerive == (k1 :> (0 :> 10 @@ 1 :> 11)) @@ (k2 :> (0 :> 10 @@ 1 :> 12))

MCHistorical == {[key |-> old, id |-> 1]}

Symmetry == Permutations({t1, t2}) \cup Permutations({s1, s2})

=============================================================================
