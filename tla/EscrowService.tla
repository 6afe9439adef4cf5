--------------------------- MODULE EscrowService ----------------------------
(***************************************************************************)
(* The service on the rows of one chain: the bot and the signer of Payout  *)
(* and the watcher of DepositWatch, which share the status column.  What   *)
(* each of the two modules assumes of the other writers of the row is here *)
(* what the other module does: WatcherCredits is the watcher, and MoveRow  *)
(* is the bot, the signer or an operator.                                  *)
(***************************************************************************)
EXTENDS PayoutInv

CONSTANTS
  Address, Expected, Transfers, TxOf, To, Sent,   \* of DepositWatch
  Confirmations, Window, MaxHeight,
  ScanFaults   \* whether scans fail and Redis loses the cursor

\* Operators record no deposit by hand.
ASSUME HandAssumption == \A edge \in BackOfficeEdges : edge[2] \notin Recorded

VARIABLES
  depositTx, received, height, minedAt, cursor, scan, latest, from, selected, todo

watchVars == <<depositTx, received, height, minedAt, cursor, scan, latest, from,
               selected, todo>>
payVars == <<payoutTx, disputes, redis, paused, calls, history>>
serviceVars == <<status, watchVars, payVars>>

\* What the handlers of the bot and of the signer and the operators do to a
\* status: the bot takes two transitions at once, to queue a payout and to record
\* one.
PayoutMoves ==
  BackOfficeEdges
  \cup {edge \in AllowedTransitions :
          edge[2] \in {"RELEASE_REQUESTED", "DISPUTED", "PAYOUT_QUEUED", "PAYOUT_SENT"}}
  \cup {edge \in EscrowStatus \X {"PAYOUT_QUEUED"} :
          ValidTransitions(edge[1], "RELEASE_APPROVED", "PAYOUT_QUEUED")}
  \cup {<<"PAYOUT_QUEUED", "COMPLETED">>}

Watch == INSTANCE DepositWatch WITH RowEdges <- PayoutMoves, Faults <- ScanFaults

ASSUME WatchAssumption ==
  /\ Expected \in [Escrows -> Nat]
  /\ Sent \in [Transfers -> Nat]
  /\ {Confirmations, Window, MaxHeight} \subseteq Nat
  /\ ScanFaults \in BOOLEAN
  /\ Watch!NoTx \notin Watch!Transactions

ServiceInit == Init /\ Watch!Init

\* The two share nothing but the rows.
ServiceNext ==
  \/ PayoutNext /\ UNCHANGED watchVars
  \/ Watch!WatchNext /\ UNCHANGED payVars

ServiceSpec == ServiceInit /\ [][ServiceNext]_serviceVars

-----------------------------------------------------------------------------
(* Properties.                                                             *)

\* A transaction that paid exactly the expected amount is recorded on the row.
Backed(e) == depositTx[e] # Watch!NoTx /\ received[e] = Expected[e]

\* The signer pays out of what came in: behind each escrow it pays, whatever
\* operators do to the row, is a confirmed transfer to the escrow's address of the
\* amount expected, by a transaction recorded on no other row.
PayoutsAreBacked ==
  \A e \in Escrows :
    paid[e] > 0 =>
      /\ \E t \in Transfers :
            /\ TxOf[t] = depositTx[e]
            /\ To[t] = Address[e]
            /\ Expected[e] \in Watch!Nearest(Sent[t], 1)
            /\ Watch!Block(t) \in 1..(height - Confirmations)
      /\ \A f \in Escrows \ {e} : depositTx[f] # depositTx[e]

\* The abstract service: a row is backed by its transaction once it locked,
\* and released by its buyer's confirmation.
backingOf == [e \in Escrows |-> IF Backed(e) THEN depositTx[e] ELSE Watch!NoTx]
releasedOf == {e \in Escrows : releasedBy[e] # Nobody}

TheVault ==
  INSTANCE Vault WITH Transactions <- Watch!Transactions, NoTx <- Watch!NoTx,
                      backing <- backingOf, released <- releasedOf, outflow <- paid

\* Every behaviour of the composed service is one of the abstract service.
ImplementsVault == TheVault!Spec

-----------------------------------------------------------------------------
(* The inductive invariant behind them.                                    *)

\* The statuses a row has once its funds were locked.
AfterLock ==
  {"FUNDS_LOCKED", "RELEASE_REQUESTED", "RELEASE_APPROVED", "PAYOUT_QUEUED",
   "PAYOUT_SENT", "PAYOUT_FAILED", "DISPUTED", "REVIEW", "COMPLETED"}

\* A row is backed before it is locked and stays so, and only a backed one is
\* released.  An overpaid row gets to REVIEW and COMPLETED without.
BackedInv ==
  \A e \in Escrows :
    /\ Backed(e) => status[e] \in AfterLock
    /\ status[e] \in AfterLock \ {"REVIEW", "COMPLETED"} => Backed(e)
    /\ releasedBy[e] # Nobody => Backed(e)

\* What holds in every reachable state, and is kept by every step.
ServiceIInv == IInv /\ Watch!IInv /\ BackedInv
=============================================================================
