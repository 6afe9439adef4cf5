--------------------------- MODULE MCDepositWatch ---------------------------
(***************************************************************************)
(* Instances of DepositWatch for TLC.                                      *)
(***************************************************************************)
EXTENDS DepositWatch

CONSTANTS e1, e2, e3, t1, t2, t3

\* The third escrow was given the address of the first, and expects an amount
\* that is not whole cents.
MCAddress == [e \in Escrows |-> IF e = e2 THEN "b" ELSE "a"]
MCExpected == [e \in Escrows |-> IF e = e3 THEN 1004 ELSE 1000]

\* To the shared address, an underpayment by a transaction that pays the other
\* address as well, and an amount between two cents, either of which it may be
\* rounded to.
MCTo == [t \in Transfers |-> IF t = t3 THEN "b" ELSE "a"]
MCTxOf == [t \in Transfers |-> IF t = t2 THEN "x2" ELSE "x1"]
MCSent == [t \in Transfers |-> CASE t = t1 -> 990 [] t = t2 -> 1005 [] OTHER -> 1003]

\* A transfer of the amount expected.
MCExact == [t \in Transfers |-> 1000]

\* Operators put a deposit through, reopen an underpaid escrow or cancel it,
\* and a locked escrow moves on.
MCRowEdges ==
  {<<"AWAITING_DEPOSIT", "DEPOSIT_SEEN">>, <<"AWAITING_DEPOSIT", "CANCELLED">>,
   <<"UNDERPAID", "AWAITING_DEPOSIT">>, <<"FUNDS_LOCKED", "DISPUTED">>}

\* Nobody touches the rows.
NoEdges == {}
=============================================================================
