------------------------------ MODULE MCBridge ------------------------------
(***************************************************************************)
(* Bridge on a small instance.                                             *)
(***************************************************************************)
EXTENDS Worklist, TLC

CONSTANTS o1, h1, r1, f1, w1, w2

NoOldPayers == {}

=============================================================================
