---------------------------- MODULE MCSupervision ----------------------------
(***************************************************************************)
(* Supervision on a small instance.                                        *)
(***************************************************************************)
EXTENDS Supervision

CONSTANTS p1, p2

=============================================================================
