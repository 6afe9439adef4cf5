------------------------------ MODULE Custody ------------------------------
(***************************************************************************)
(* What the escrow service promises about money, with no bot, signer,      *)
(* database or network: for each escrow the buyer's funds arrive, the      *)
(* buyer authorises their release, and they leave once, to the seller.     *)
(* Payout implements this specification.                                   *)
(***************************************************************************)
EXTENDS Naturals

CONSTANT Escrows

VARIABLES
  custody,   \* custody[e]: "unfunded", "held" or "authorised"
  outflow    \* outflow[e]: how often the funds of e have left

vars == <<custody, outflow>>

Init ==
  /\ custody = [e \in Escrows |-> "unfunded"]
  /\ outflow = [e \in Escrows |-> 0]

Fund(e) ==
  /\ custody[e] = "unfunded"
  /\ custody' = [custody EXCEPT ![e] = "held"]
  /\ UNCHANGED outflow

Authorise(e) ==
  /\ custody[e] = "held"
  /\ custody' = [custody EXCEPT ![e] = "authorised"]
  /\ UNCHANGED outflow

Pay(e) ==
  /\ custody[e] = "authorised"
  /\ outflow[e] = 0
  /\ outflow' = [outflow EXCEPT ![e] = 1]
  /\ UNCHANGED custody

Next == \E e \in Escrows : Fund(e) \/ Authorise(e) \/ Pay(e)

Spec == Init /\ [][Next]_vars
=============================================================================
