------------------------------- MODULE Vault --------------------------------
(***************************************************************************)
(* What the escrow service as a whole promises about money: an escrow is   *)
(* backed by a transaction of its own, then released, and pays out once.   *)
(* EscrowService implements this specification.                            *)
(***************************************************************************)
EXTENDS Naturals

CONSTANTS Escrows, Transactions, NoTx

VARIABLES
  backing,   \* backing[e]: the transaction that backs e, or NoTx
  released,  \* the escrows that may be paid out
  outflow    \* outflow[e]: how often e was paid out

vars == <<backing, released, outflow>>

Init ==
  /\ backing = [e \in Escrows |-> NoTx]
  /\ released = {}
  /\ outflow = [e \in Escrows |-> 0]

\* A transaction backs one escrow only.
Back(e, x) ==
  /\ backing[e] = NoTx
  /\ \A f \in Escrows : backing[f] # x
  /\ backing' = [backing EXCEPT ![e] = x]
  /\ UNCHANGED <<released, outflow>>

Release(e) ==
  /\ backing[e] # NoTx
  /\ released' = released \cup {e}
  /\ UNCHANGED <<backing, outflow>>

Pay(e) ==
  /\ e \in released
  /\ outflow[e] = 0
  /\ outflow' = [outflow EXCEPT ![e] = 1]
  /\ UNCHANGED <<backing, released>>

Next ==
  \E e \in Escrows :
    \/ \E x \in Transactions : Back(e, x)
    \/ Release(e)
    \/ Pay(e)

Spec == Init /\ [][Next]_vars
=============================================================================
