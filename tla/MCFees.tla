-------------------------------- MODULE MCFees --------------------------------
(***************************************************************************)
(* FeePolicies on a small instance.                                        *)
(***************************************************************************)
EXTENDS FeePolicies, TLC

CONSTANTS c1, c2, o1

Symmetry == Permutations(Clerks)

=============================================================================
