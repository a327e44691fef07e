---------------------------- MODULE MCSettlement ----------------------------
(***************************************************************************)
(* Settlement on small instances.                                          *)
(***************************************************************************)
EXTENDS Settlement, TLC

CONSTANTS o1, o2, u1, u2, h1, h2, r1, r2, f1, f2

(* Identities of rows left by earlier releases: shared, and retired-scheme *)
(* ones of a user and of the order.                                        *)
MCOldPayers == {[key |-> "shared", retired |-> FALSE],
                [key |-> u1, retired |-> TRUE],
                [key |-> "order", retired |-> TRUE]}

NoOldPayers == {}

HandlerSymmetry == Permutations(Handlers)

OrderSymmetry == Permutations(Orders)

ProcSymmetry == Permutations(Handlers) \cup Permutations(Reconcilers)

=============================================================================
