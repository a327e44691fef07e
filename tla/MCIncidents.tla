---------------------------- MODULE MCIncidents ----------------------------
(***************************************************************************)
(* Incidents on a small instance.                                          *)
(***************************************************************************)
EXTENDS Incidents

CONSTANTS s1, m1

=============================================================================
