--------------------------- MODULE MCPayoutLimits ---------------------------
(***************************************************************************)
(* An instance of PayoutLimits for TLC.                                    *)
(***************************************************************************)
EXTENDS PayoutLimits, TLC

\* Days of two hours.
MCDay == [h \in Hours |-> h \div 2]

\* The handlers run the same code.
CallSymmetry == Permutations(Calls)
=============================================================================
