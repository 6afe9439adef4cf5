----------------------------- MODULE MCRouting ------------------------------
(* The small instance of Routing that TLC checks.                          *)
EXTENDS Routing

MCParties == [e \in Escrows |-> Users]
=============================================================================
