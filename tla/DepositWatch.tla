---------------------------- MODULE DepositWatch ----------------------------
(***************************************************************************)
(* A deposit watcher (services/watcher_tron/main.py and, alike,            *)
(* services/watcher_bsc/main.py): a loop of scans that read the token's    *)
(* transfers between a cursor kept in Redis and the head of the chain, and *)
(* record those with enough confirmations on the escrow row.               *)
(*                                                                         *)
(* A scan is cut where it awaits: the reads of the head and the cursor,    *)
(* the read of the open rows, the fetch of the logs, one transaction per   *)
(* log and the write of the cursor.                                        *)
(*                                                                         *)
(* A transaction may hold several transfers, and rows may share a deposit  *)
(* address: the signer hands one out again after 24 hours (see Opening).   *)
(***************************************************************************)
EXTENDS Money, EscrowStates

CONSTANTS
  Escrows,      \* escrow rows of this chain
  Address,      \* Address[e]: deposit_address of e
  Expected,     \* Expected[e]: amount_expected, which is not rounded
  Transfers,    \* logs of token transfers
  TxOf,         \* TxOf[t]: the transaction of t
  To,           \* To[t]: the address t pays
  Sent,         \* Sent[t]: what it pays
  Confirmations,\* tron_confirmations_required
  Window,       \* how far back a scan looks at most (500 in the code)
  MaxHeight,    \* the chain stops growing here (bound)
  RowEdges,     \* what others' transactions may do to a row's status meanwhile
  Faults        \* whether scans fail and Redis loses its data

ASSUME AmountAssumption ==
  /\ Expected \in [Escrows -> Nat]
  /\ Sent \in [Transfers -> Nat]

ASSUME BoundAssumption ==
  /\ {Confirmations, Window, MaxHeight} \subseteq Nat
  /\ Faults \in BOOLEAN

\* The deposit itself is recorded by the watchers alone.
ASSUME EdgeAssumption ==
  /\ RowEdges \subseteq Moves
  /\ \A edge \in RowEdges : edge[2] \notin Recorded

Transactions == {TxOf[t] : t \in Transfers}
NoTx == "none"

ASSUME NoTxAssumption == NoTx \notin Transactions

VARIABLES
  status,     \* escrows.status
  depositTx,  \* escrows.deposit_tx_hash
  received,   \* escrows.amount_received, 0 before there is one
  height,     \* number of the latest block
  minedAt,    \* minedAt[x]: the block of transaction x, 0 before it has one
  cursor,     \* Redis tron:last_block, 0 when absent
  scan,       \* the point scan_once has reached
  latest,     \* its latest_block, which is also its to_block
  from,       \* its from_block
  selected,   \* its escrows: the first row of each address that waited for
              \* money when it looked
  todo        \* its logs left to record

vars == <<status, depositTx, received, height, minedAt, cursor, scan, latest, from,
          selected, todo>>
rows == <<status, depositTx, received>>
chain == <<height, minedAt>>
range == <<latest, from>>

ScanPoints == {"asleep", "select", "fetch", "record"}

TypeOK ==
  /\ status \in [Escrows -> EscrowStatus]
  /\ depositTx \in [Escrows -> Transactions \cup {NoTx}]
  /\ received \in [Escrows -> Nat]
  /\ height \in Nat
  /\ minedAt \in [Transactions -> Nat]
  /\ cursor \in Nat
  /\ scan \in ScanPoints
  /\ latest \in Nat
  /\ from \in Nat
  /\ selected \subseteq Escrows
  /\ todo \subseteq Transfers

Init ==
  /\ status = [e \in Escrows |-> "AWAITING_DEPOSIT"]
  /\ depositTx = [e \in Escrows |-> NoTx]
  /\ received = [e \in Escrows |-> 0]
  /\ height = 1
  /\ minedAt = [x \in Transactions |-> 0]
  /\ cursor = 0
  /\ scan = "asleep"
  /\ latest = 0
  /\ from = 0
  /\ selected = {}
  /\ todo = {}

-----------------------------------------------------------------------------
(* The chain and the other writers of the row.                             *)

\* A block, with some of the transactions not mined yet.
Mine(X) ==
  /\ height < MaxHeight
  /\ \A x \in X : minedAt[x] = 0
  /\ height' = height + 1
  /\ minedAt' = [x \in Transactions |-> IF x \in X THEN height + 1 ELSE minedAt[x]]
  /\ UNCHANGED <<rows, cursor, scan, range, selected, todo>>

MoveRow(e, s) ==
  /\ <<status[e], s>> \in RowEdges
  /\ status' = [status EXCEPT ![e] = s]
  /\ UNCHANGED <<depositTx, received, chain, cursor, scan, range, selected, todo>>

-----------------------------------------------------------------------------
(* scan_once.                                                              *)

\* max(latest_block - 500, last_block + 1)
FromBlock(head, last) ==
  IF head > Window + last + 1 THEN head - Window ELSE last + 1

ScanStart ==
  /\ scan = "asleep"
  /\ scan' = "select"
  /\ latest' = height
  /\ from' = FromBlock(height, cursor)
  /\ UNCHANGED <<rows, chain, cursor, selected, todo>>

\* The rows that wait for money.  Of those with one address, in whatever order
\* the query returned them, only the first is ever used.  With none, the cursor
\* moves to the head.
ScanSelect(S) ==
  LET open == {e \in Escrows : status[e] \in {"AWAITING_DEPOSIT", "UNDERPAID"}}
  IN
  /\ scan = "select"
  /\ S \subseteq open
  /\ \A e \in open : \E f \in S : Address[f] = Address[e]
  /\ \A e, f \in S : Address[f] = Address[e] => f = e
  /\ selected' = S
  /\ scan' = IF open = {} THEN "asleep" ELSE "fetch"
  /\ cursor' = IF open = {} THEN latest ELSE cursor
  /\ UNCHANGED <<rows, chain, range, todo>>

\* A slip: a transfer counts as soon as it is mined.
ConfirmedAtOnce(block, head) == block <= head

\* latest_block - log block >= confirmations_required
Confirmed(block, head) == head >= block + Confirmations

Block(t) == minedAt[TxOf[t]]

\* A log of the range that pays e and has its confirmations.
Due(t, e) ==
  /\ To[t] = Address[e]
  /\ Block(t) \in from..latest
  /\ Confirmed(Block(t), latest)

\* A slip: the cursor is moved before the logs are recorded.
ScanFetchEagerly ==
  /\ scan = "fetch"
  /\ todo' = {t \in Transfers : \E e \in selected : Due(t, e)}
  /\ scan' = "record"
  /\ cursor' = latest
  /\ UNCHANGED <<rows, chain, range, selected>>

\* The logs that are due; those the loop would skip are left out here.
ScanFetch ==
  /\ scan = "fetch"
  /\ todo' = {t \in Transfers : \E e \in selected : Due(t, e)}
  /\ scan' = "record"
  /\ UNCHANGED <<rows, chain, cursor, range, selected>>

\* A slip: a later transfer takes the place of the recorded one.
AlwaysRecordDeposit(e, t) == TRUE

CanRecordDeposit(e, t) == depositTx[e] \in {NoTx, TxOf[t]}

\* A slip: the table is created without the constraint.
UnusedOrNot(e, t) == TRUE

\* uq_chain_deposit_tx: no other row has the transaction.
Unused(e, t) == \A f \in Escrows \ {e} : depositTx[f] # TxOf[t]

\* A slip: a deposit above the expected amount locks the funds.
AtLeastStatus(e, x) == IF x < Expected[e] THEN "UNDERPAID" ELSE "FUNDS_LOCKED"

\* The status update_escrow asks for when x is received: the amount of the one
\* transfer decides.
DepositStatus(e, x) ==
  CASE x < Expected[e] -> "UNDERPAID"
    [] x > Expected[e] -> "OVERPAID_REVIEW"
    [] OTHER -> "FUNDS_LOCKED"

\* update_escrow for the next log, with x whole cents; the logs come in whatever
\* order the RPC returned them.  A row that has another hash is left alone; a
\* status the table refuses, or a hash that another row has, raises, which
\* rolls the row back, ends the scan and leaves the cursor where it was.
ScanRecord(t, e, x) ==
  LET skipped == ~CanRecordDeposit(e, t)
      recorded == /\ ~skipped
                  /\ ValidTransition(status[e], DepositStatus(e, x))
                  /\ Unused(e, t)
  IN
  /\ scan = "record"
  /\ t \in todo
  /\ e \in selected
  /\ Address[e] = To[t]
  /\ x \in Nearest(Sent[t], 1)
  /\ IF recorded
       THEN /\ status' = [status EXCEPT ![e] = DepositStatus(e, x)]
            /\ depositTx' = [depositTx EXCEPT ![e] = TxOf[t]]
            /\ received' = [received EXCEPT ![e] = x]
       ELSE UNCHANGED rows
  /\ todo' = IF recorded \/ skipped THEN todo \ {t} ELSE {}
  /\ scan' = IF recorded \/ skipped THEN scan ELSE "asleep"
  /\ UNCHANGED <<chain, cursor, range, selected>>

\* Every log is done: the cursor moves to the head the scan saw.
ScanEnd ==
  /\ scan = "record"
  /\ todo = {}
  /\ cursor' = latest
  /\ scan' = "asleep"
  /\ UNCHANGED <<rows, chain, range, selected, todo>>

\* An exception that scan_loop logs, or a crash: the next scan starts over.
ScanFails ==
  /\ Faults
  /\ scan # "asleep"
  /\ scan' = "asleep"
  /\ todo' = {}
  /\ UNCHANGED <<rows, chain, cursor, range, selected>>

\* Redis runs without a volume: its container loses the cursor.
RedisLoses ==
  /\ Faults
  /\ cursor # 0
  /\ cursor' = 0
  /\ UNCHANGED <<rows, chain, scan, range, selected, todo>>

-----------------------------------------------------------------------------
Scan ==
  \/ ScanStart
  \/ \E S \in SUBSET Escrows : ScanSelect(S)
  \/ ScanFetch
  \/ \E t \in Transfers, e \in Escrows :
       \E x \in Nearest(Sent[t], 1) : ScanRecord(t, e, x)
  \/ ScanEnd

\* The watcher, the chain and Redis.
WatchNext ==
  \/ Scan
  \/ \E X \in SUBSET Transactions : Mine(X)
  \/ ScanFails
  \/ RedisLoses

Next ==
  \/ WatchNext
  \/ \E e \in Escrows, s \in EscrowStatus : MoveRow(e, s)

Spec == Init /\ [][Next]_vars

\* scan_loop runs scans for ever, and the chain grows.
FairSpec ==
  Spec /\ WF_vars(Scan) /\ WF_vars(\E X \in SUBSET Transactions : Mine(X))

-----------------------------------------------------------------------------
(* Properties.                                                             *)

\* What a row records is a transaction that the chain holds with the required
\* confirmations, even if the head moved during the scan, and the amount, to
\* the cent, that one of its transfers paid to the row's own address.
RecordedIsConfirmed ==
  \A e \in Escrows :
    LET x == depositTx[e]
    IN  x # NoTx =>
          /\ minedAt[x] > 0
          /\ height >= minedAt[x] + Confirmations
          /\ \E t \in Transfers : /\ TxOf[t] = x
                                  /\ To[t] = Address[e]
                                  /\ received[e] \in Nearest(Sent[t], 1)

\* Funds are locked when exactly the expected amount was recorded, whatever
\* came before it and whoever moved the row meanwhile.
LockedOnExactDeposit ==
  \A e \in Escrows :
    status[e] = "FUNDS_LOCKED" => depositTx[e] # NoTx /\ received[e] = Expected[e]

\* A recorded deposit is never replaced by another one.
DepositIsKept ==
  [][\A e \in Escrows :
       depositTx[e] # NoTx => depositTx'[e] = depositTx[e]]_vars

\* No two rows are paid by one transaction, though rows may share an address,
\* a transaction may hold several transfers, and the logs are read again after
\* a failure or a lost cursor.
CreditedOnce ==
  \A e, f \in Escrows : depositTx[e] = depositTx[f] => e = f \/ depositTx[e] = NoTx

\* At every point where a scan can die, the logs it has not dealt with are
\* ahead of the cursor, so that another scan reads them again.
PendingIsAhead == scan = "record" => \A t \in todo : Block(t) > cursor

\* The cursor does not move past a transfer that the scan reached and that is due
\* to an escrow it looked at, unless that escrow has a deposit: however others
\* move the rows under it, and whichever logs are refused.
NothingDueIsPassed ==
  [][cursor' > cursor =>
       \A e \in selected', t \in Transfers : Due(t, e) => depositTx'[e] # NoTx]_vars

\* A scan uses one row per address, and what is due to it is still to be
\* recorded or done.
DueIsPending ==
  /\ \A e, f \in selected : Address[f] = Address[e] => f = e
  /\ scan = "record" =>
       \A e \in selected, t \in Transfers :
         Due(t, e) => t \in todo \/ depositTx[e] # NoTx

\* The chain does not shrink under a scan, and its logs are of its range.
ScanIsBehind ==
  /\ latest <= height
  /\ \A x \in Transactions : minedAt[x] <= height
  /\ scan # "asleep" => from > cursor
  /\ \A t \in todo :
       /\ scan = "record"
       /\ Block(t) \in from..latest
       /\ latest >= Block(t) + Confirmations

\* What holds in every reachable state, and is kept by every step.
IInv ==
  /\ TypeOK
  /\ ScanIsBehind
  /\ RecordedIsConfirmed
  /\ LockedOnExactDeposit
  /\ CreditedOnce
  /\ PendingIsAhead
  /\ DueIsPending

-----------------------------------------------------------------------------
(* What the repository says and the code does not do.                      *)

\* "deposit detection" (README.md:7-8): a transfer of the expected amount, in
\* whole cents, to an escrow that waits for it is recorded, if the chain grows to
\* confirm it.
DepositIsDetected ==
  \A t \in Transfers, e \in Escrows :
    /\ To[t] = Address[e]
    /\ Nearest(Sent[t], 1) = {Expected[e]}
    /\ Block(t) > 0
    /\ Block(t) + Confirmations <= MaxHeight
    ~> depositTx[e] # NoTx

\* "TRON_CONFIRMATIONS_REQUIRED=20" (.env.example:17): a transfer waits for
\* its confirmations; the cursor does not pass it while it lacks them.
UnconfirmedIsAhead ==
  \A x \in Transactions :
    minedAt[x] > 0 /\ ~Confirmed(minedAt[x], height) => minedAt[x] > cursor
=============================================================================
