------------------------------ MODULE MCPayout ------------------------------
(***************************************************************************)
(* Instances of Payout for TLC.                                            *)
(***************************************************************************)
EXTENDS PayoutInv

CONSTANTS e1, e2, buyer, other

MCBuyer == [e \in Escrows |-> buyer]

\* Operators may take every edge of the table that the assumption allows.
AnyEdge ==
  {edge \in AllowedTransitions :
     /\ edge[2] \notin {"RELEASE_REQUESTED", "DISPUTED"}
     /\ edge # <<"DISPUTED", "RELEASE_APPROVED">>}

\* Operators only put through deposits the watcher cannot record.
DepositEdge == {<<"AWAITING_DEPOSIT", "DEPOSIT_SEEN">>}
=============================================================================
