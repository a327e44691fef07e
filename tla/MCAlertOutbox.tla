--------------------------- MODULE MCAlertOutbox ---------------------------
(***************************************************************************)
(* AlertOutbox on small instances.                                         *)
(***************************************************************************)
EXTENDS AlertOutbox

CONSTANTS k1, s1, s2

=============================================================================
