-------------------------------- MODULE Fees --------------------------------
(***************************************************************************)
(* The service fee, in basis points, rounded half up.                      *)
(***************************************************************************)
EXTENDS Naturals

FeeAmount(amount, rate_bps) == (amount * rate_bps + 5000) \div 10000

Payable(amount, rate_bps) == amount + FeeAmount(amount, rate_bps)

=============================================================================
