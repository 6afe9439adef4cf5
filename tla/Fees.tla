-------------------------------- MODULE Fees --------------------------------
(***************************************************************************)
(* The fee of an escrow and what is left of it for the seller              *)
(* (trustora/fees.py).  set_amount takes any positive float, so an amount  *)
(* need not be whole cents, while a fee taken as a share and every net     *)
(* amount are rounded to them.                                             *)
(***************************************************************************)
EXTENDS Money

CONSTANTS
  Flat,        \* FeeSnapshot.flat_fee
  Percent,     \* FeeSnapshot.percent_fee, in hundredths
  Threshold    \* FeeSnapshot.threshold

ASSUME FeesAssumption == {Flat, Percent, Threshold} \subseteq Nat

\* calculate_fee
Fee(a) == IF a <= Threshold THEN {Flat} ELSE Nearest(a * Percent, 100)

\* calculate_net: zero or less for an amount not above the flat fee.
Net(a) == UNION {Nearest(a - f, 1) : f \in Fee(a)}
=============================================================================
