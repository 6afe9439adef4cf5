------------------------- MODULE DepositWatchProofs -------------------------
(***************************************************************************)
(* Proofs about DepositWatch, for any escrows, transfers and number of     *)
(* confirmations, any window and any growth of the chain.                  *)
(***************************************************************************)
EXTENDS DepositWatch, TLAPS

\* A watcher records a deposit only on a row whose deposit was seen.
LEMMA RecordEdge ==
  ASSUME NEW s, NEW e, NEW x, ValidTransition(s, DepositStatus(e, x))
  PROVE  s = "DEPOSIT_SEEN"
BY DEF ValidTransition, AllowedTransitions, DepositStatus

\* What is received is whole cents.
LEMMA NearestIsCents ==
  ASSUME NEW t \in Transfers, NEW x \in Nearest(Sent[t], 1)
  PROVE  x \in Nat /\ x % Cent = 0
BY AmountAssumption DEF Nearest, Cent

\* The status asked for is one a deposit gives, locked if exact.
LEMMA DepositStatusTyped ==
  ASSUME NEW e \in Escrows, NEW x \in Nat
  PROVE  /\ DepositStatus(e, x) \in EscrowStatus
         /\ DepositStatus(e, x) = "FUNDS_LOCKED" => x = Expected[e]
BY AmountAssumption DEF DepositStatus, EscrowStatus

\* Nobody but a watcher locks funds.
LEMMA OthersDoNotLock ==
  ASSUME NEW s, NEW t, <<s, t>> \in RowEdges
  PROVE  t # "FUNDS_LOCKED"
<1>1. <<s, t>>[2] \notin Recorded
  BY EdgeAssumption
<1> QED
  BY <1>1 DEF Recorded

\* A scan starts above the cursor it read.
LEMMA FromIsAhead ==
  ASSUME NEW head \in Nat, NEW last \in Nat
  PROVE  FromBlock(head, last) \in Nat /\ FromBlock(head, last) > last
BY BoundAssumption DEF FromBlock

\* Nothing is recorded at first.
LEMMA InitInv == Init => IInv
<1> SUFFICES ASSUME Init PROVE IInv
  OBVIOUS
<1>1. TypeOK
  BY DEF Init, TypeOK, EscrowStatus, ScanPoints
<1>2. ScanIsBehind
  BY DEF Init, ScanIsBehind
<1>3. RecordedIsConfirmed /\ LockedOnExactDeposit /\ CreditedOnce /\ PendingIsAhead
  BY DEF Init, RecordedIsConfirmed, LockedOnExactDeposit, CreditedOnce, PendingIsAhead
<1>4. DueIsPending
  BY DEF Init, DueIsPending
<1> QED
  BY <1>1, <1>2, <1>3, <1>4 DEF IInv

\* A block leaves the transactions mined before where they are.
LEMMA MineStep ==
  ASSUME IInv, NEW X \in SUBSET Transactions, Mine(X)
  PROVE  IInv'
<1> USE BoundAssumption, AmountAssumption, NoTxAssumption
    DEF IInv, TypeOK, rows, chain, range
<1>1. \A x \in Transactions :
        minedAt'[x] = IF x \in X THEN height + 1 ELSE minedAt[x]
  BY DEF Mine
<1>2. /\ height' = height + 1
      /\ \A x \in X : minedAt[x] = 0
      /\ UNCHANGED <<status, depositTx, received, cursor, scan, latest, from,
                     selected, todo>>
  BY DEF Mine
<1>3. \A x \in Transactions : minedAt[x] > 0 => minedAt'[x] = minedAt[x]
  BY <1>1, <1>2
<1>4. \A t \in todo : TxOf[t] \in Transactions /\ Block(t)' = Block(t)
  <2> SUFFICES ASSUME NEW t \in todo
               PROVE  TxOf[t] \in Transactions /\ Block(t)' = Block(t)
    OBVIOUS
  <2>1. TxOf[t] \in Transactions
    BY DEF Transactions
  <2>2. minedAt[TxOf[t]] > 0
    BY <2>1 DEF ScanIsBehind, Block
  <2> QED
    BY <1>3, <2>1, <2>2 DEF Block
<1>5. TypeOK'
  BY DEF Mine
<1>6. ScanIsBehind'
  <2>1. latest' <= height' /\ (scan' # "asleep" => from' > cursor')
    BY <1>2 DEF ScanIsBehind
  <2>2. \A x \in Transactions : minedAt'[x] <= height'
    BY <1>1, <1>2 DEF ScanIsBehind
  <2> QED
    BY <1>2, <1>4, <2>1, <2>2 DEF ScanIsBehind
<1>7. RecordedIsConfirmed'
  BY <1>2, <1>3 DEF RecordedIsConfirmed
<1>8. LockedOnExactDeposit' /\ CreditedOnce'
  BY <1>2 DEF LockedOnExactDeposit, CreditedOnce
<1>9. PendingIsAhead'
  BY <1>2, <1>4 DEF PendingIsAhead
<1>10. \A e \in Escrows, t \in Transfers : Due(t, e)' => Due(t, e)
  <2> SUFFICES ASSUME NEW e \in Escrows, NEW t \in Transfers, Due(t, e)'
               PROVE  Due(t, e)
    OBVIOUS
  <2>1. TxOf[t] \in Transactions
    BY DEF Transactions
  <2>2. Block(t)' <= latest /\ latest <= height
    BY <1>2 DEF Due, ScanIsBehind
  <2>3. Block(t)' = Block(t)
    BY <1>1, <1>2, <2>1, <2>2 DEF Block
  <2> QED
    BY <1>2, <2>3 DEF Due, Confirmed
<1>11. DueIsPending'
  BY <1>2, <1>10 DEF DueIsPending
<1> QED
  BY <1>5, <1>6, <1>7, <1>8, <1>9, <1>11

\* A recorded deposit has its confirmations, its amount, and no other row.
LEMMA RecordStep ==
  ASSUME IInv, NEW t \in Transfers, NEW e \in Escrows,
         NEW x \in Nearest(Sent[t], 1), ScanRecord(t, e, x)
  PROVE  IInv'
<1> USE BoundAssumption, AmountAssumption, NoTxAssumption
    DEF IInv, TypeOK, rows, chain, range
<1>1. x \in Nat /\ TxOf[t] \in Transactions
  BY NearestIsCents DEF Transactions
<1>2. /\ scan = "record" /\ t \in todo
      /\ Address[e] = To[t]
      /\ scan' \in {"record", "asleep"}
      /\ todo' \subseteq todo
      /\ scan' = "asleep" => todo' = {}
      /\ UNCHANGED <<height, minedAt, cursor, latest, from, selected>>
  BY DEF ScanRecord
<1>3. \/ UNCHANGED rows
      \/ /\ CanRecordDeposit(e, t) /\ Unused(e, t)
         /\ ValidTransition(status[e], DepositStatus(e, x))
         /\ status' = [status EXCEPT ![e] = DepositStatus(e, x)]
         /\ depositTx' = [depositTx EXCEPT ![e] = TxOf[t]]
         /\ received' = [received EXCEPT ![e] = x]
  BY DEF ScanRecord
<1>4. TypeOK'
  BY <1>1, <1>2, <1>3, DepositStatusTyped DEF ScanPoints
<1>5. ScanIsBehind' /\ PendingIsAhead'
  BY <1>2 DEF ScanIsBehind, PendingIsAhead, Block
<1>6. minedAt[TxOf[t]] > 0 /\ height >= minedAt[TxOf[t]] + Confirmations
  BY <1>1, <1>2 DEF ScanIsBehind, Block
<1>7. RecordedIsConfirmed'
  BY <1>1, <1>2, <1>3, <1>6 DEF RecordedIsConfirmed
<1>8. LockedOnExactDeposit'
  BY <1>1, <1>3, DepositStatusTyped DEF LockedOnExactDeposit
<1>9. CreditedOnce'
  BY <1>1, <1>3 DEF CreditedOnce, Unused
<1>10. ASSUME scan' = "record", NEW f \in selected, NEW u \in Transfers, Due(u, f),
              u \notin todo'
       PROVE  depositTx'[f] # NoTx
  <2>1. CASE u = t
    <3>1. f = e
      BY <1>2, <1>10, <2>1 DEF Due, DueIsPending, ScanRecord
    <3>2. ~CanRecordDeposit(e, t) \/ depositTx' = [depositTx EXCEPT ![e] = TxOf[t]]
      BY <1>10 DEF ScanRecord
    <3> QED
      BY <1>1, <1>3, <3>1, <3>2 DEF CanRecordDeposit
  <2>2. CASE u # t
    <3>1. u \notin todo
      BY <1>10, <2>2 DEF ScanRecord
    <3>2. depositTx[f] # NoTx
      BY <1>2, <1>10, <3>1 DEF DueIsPending
    <3> QED
      BY <1>1, <1>3, <3>2
  <2> QED
    BY <2>1, <2>2
<1>11. DueIsPending'
  BY <1>2, <1>10 DEF DueIsPending, Due, Block
<1> QED
  BY <1>4, <1>5, <1>7, <1>8, <1>9, <1>11

\* The other steps of the watcher and its surroundings lose nothing due.
LEMMA DueStep ==
  ASSUME IInv, ScanStart \/ (\E S \in SUBSET Escrows : ScanSelect(S)) \/ ScanFetch
               \/ ScanEnd \/ ScanFails \/ RedisLoses \/ UNCHANGED vars
               \/ (\E e \in Escrows, s \in EscrowStatus : MoveRow(e, s))
  PROVE  DueIsPending'
<1> USE DEF IInv, TypeOK, rows, chain, range
<1>1. CASE ScanStart \/ ScanEnd \/ ScanFails
  BY <1>1 DEF ScanStart, ScanEnd, ScanFails, DueIsPending
<1>2. ASSUME NEW S \in SUBSET Escrows, ScanSelect(S) PROVE DueIsPending'
  BY <1>2 DEF ScanSelect, DueIsPending
<1>3. CASE ScanFetch
  <2>1. \A e \in selected, t \in Transfers : Due(t, e) => t \in todo'
    BY <1>3 DEF ScanFetch
  <2> QED
    BY <1>3, <2>1 DEF ScanFetch, DueIsPending, Due, Block
<1>4. CASE RedisLoses \/ UNCHANGED vars
  BY <1>4 DEF RedisLoses, vars, DueIsPending, Due, Block
<1>5. ASSUME NEW e \in Escrows, NEW s \in EscrowStatus, MoveRow(e, s)
      PROVE  DueIsPending'
  BY <1>5 DEF MoveRow, DueIsPending, Due, Block
<1> QED
  BY <1>1, <1>2, <1>3, <1>4, <1>5

\* Every step keeps the invariant.
LEMMA StepInv == IInv /\ [Next]_vars => IInv'
<1> SUFFICES ASSUME IInv, [Next]_vars PROVE IInv'
  OBVIOUS
<1> USE BoundAssumption, AmountAssumption, NoTxAssumption
    DEF IInv, TypeOK, ScanIsBehind, RecordedIsConfirmed, LockedOnExactDeposit,
        CreditedOnce, PendingIsAhead, ScanPoints, Block, rows, chain, range
<1>1. ASSUME NEW X \in SUBSET Transactions, Mine(X) PROVE IInv'
  BY <1>1, MineStep
<1>2. ASSUME NEW e \in Escrows, NEW s \in EscrowStatus, MoveRow(e, s) PROVE IInv'
  BY <1>2, OthersDoNotLock, DueStep DEF MoveRow
<1>3. CASE ScanStart
  <2>1. /\ latest' = height
        /\ from' \in Nat
        /\ from' > cursor
    BY <1>3, FromIsAhead DEF ScanStart
  <2>2. todo = {}
    BY <1>3 DEF ScanStart
  <2> QED
    BY <1>3, <2>1, <2>2, DueStep DEF ScanStart
<1>4. ASSUME NEW S \in SUBSET Escrows, ScanSelect(S) PROVE IInv'
  BY <1>4, DueStep DEF ScanSelect
<1>5. CASE ScanFetch
  BY <1>5, DueStep DEF ScanFetch, Due, Confirmed, Transactions
<1>6. ASSUME NEW t \in Transfers, NEW e \in Escrows,
             NEW x \in Nearest(Sent[t], 1), ScanRecord(t, e, x)
      PROVE  IInv'
  BY <1>6, RecordStep
<1>7. CASE ScanEnd
  BY <1>7, DueStep DEF ScanEnd
<1>8. CASE ScanFails
  BY <1>8, DueStep DEF ScanFails
<1>9. CASE RedisLoses
  BY <1>9, DueStep DEF RedisLoses
<1>10. CASE UNCHANGED vars
  BY <1>10, DueStep DEF vars
<1> QED
  BY <1>1, <1>2, <1>3, <1>4, <1>5, <1>6, <1>7, <1>8, <1>9, <1>10
     DEF Next, WatchNext, Scan

\* The inductive invariant holds throughout.
THEOREM Invariance == Spec => []IInv
BY InitInv, StepInv, PTL DEF Spec

\* What a row records is confirmed on the chain.
THEOREM DepositsAreConfirmed == Spec => []RecordedIsConfirmed
<1>1. IInv => RecordedIsConfirmed
  BY DEF IInv
<1> QED
  BY Invariance, <1>1, PTL

\* Funds are locked on an exact deposit.
THEOREM LocksAreExact == Spec => []LockedOnExactDeposit
<1>1. IInv => LockedOnExactDeposit
  BY DEF IInv
<1> QED
  BY Invariance, <1>1, PTL

\* An escrow whose expected amount is not whole cents is never locked, whatever
\* is paid: what is recorded is rounded, what is expected is not.
THEOREM FractionsNeverLock ==
  ASSUME NEW e \in Escrows, Expected[e] % Cent # 0
  PROVE  Spec => [](status[e] # "FUNDS_LOCKED")
<1>1. IInv => status[e] # "FUNDS_LOCKED"
  <2> SUFFICES ASSUME IInv, status[e] = "FUNDS_LOCKED" PROVE FALSE
    OBVIOUS
  <2>1. depositTx[e] # NoTx /\ received[e] = Expected[e]
    BY DEF IInv, LockedOnExactDeposit
  <2>2. PICK t \in Transfers : received[e] \in Nearest(Sent[t], 1)
    BY <2>1 DEF IInv, RecordedIsConfirmed
  <2> QED
    BY <2>1, <2>2, NearestIsCents
<1> QED
  BY Invariance, <1>1, PTL

\* A transaction pays at most one row.
THEOREM OneRowPerTransaction == Spec => []CreditedOnce
<1>1. IInv => CreditedOnce
  BY DEF IInv
<1> QED
  BY Invariance, <1>1, PTL

\* A scan that dies leaves what it did not deal with ahead of the cursor.
THEOREM NothingPendingIsPassed == Spec => []PendingIsAhead
<1>1. IInv => PendingIsAhead
  BY DEF IInv
<1> QED
  BY Invariance, <1>1, PTL

\* A recorded deposit is never replaced.
THEOREM DepositsAreKept == Spec => DepositIsKept
<1>1. IInv /\ [Next]_vars =>
        [\A e \in Escrows :
           depositTx[e] # NoTx => depositTx'[e] = depositTx[e]]_vars
  <2> SUFFICES ASSUME IInv, Next, NEW e \in Escrows, depositTx[e] # NoTx
               PROVE  depositTx'[e] = depositTx[e]
    OBVIOUS
  <2> USE DEF IInv, TypeOK, rows, chain, range
  <2>1. ASSUME NEW t \in Transfers, NEW f \in Escrows,
               NEW x \in Nearest(Sent[t], 1), ScanRecord(t, f, x)
        PROVE  depositTx'[e] = depositTx[e]
    BY <2>1 DEF ScanRecord, CanRecordDeposit
  <2>2. CASE depositTx' = depositTx
    BY <2>2
  <2> QED
    BY <2>1, <2>2 DEF Next, WatchNext, Scan, ScanStart, ScanSelect, ScanFetch, ScanEnd,
       Mine, MoveRow, ScanFails, RedisLoses
<1> QED
  BY Invariance, <1>1, PTL DEF Spec, DepositIsKept

\* The cursor does not pass a transfer that is due, unless the escrow has a
\* deposit.
THEOREM NothingDueIsMissed == Spec => NothingDueIsPassed
<1>1. IInv /\ [Next]_vars =>
        [cursor' > cursor =>
           \A e \in selected', t \in Transfers :
             Due(t, e) => depositTx'[e] # NoTx]_vars
  <2> SUFFICES ASSUME IInv, Next, cursor' > cursor,
                      NEW e \in selected', NEW t \in Transfers, Due(t, e)
               PROVE  depositTx'[e] # NoTx
    OBVIOUS
  <2>1. cursor \in Nat
    BY DEF IInv, TypeOK
  <2>2. CASE ScanEnd
    BY <2>2 DEF ScanEnd, IInv, DueIsPending, rows
  <2>3. ASSUME NEW S \in SUBSET Escrows, ScanSelect(S) PROVE FALSE
    <3>1. selected' = S /\ e \in S
      BY <2>3 DEF ScanSelect
    <3> QED
      BY <2>1, <2>3, <3>1 DEF ScanSelect
  <2>4. CASE cursor' \in {cursor, 0}
    BY <2>1, <2>4
  <2> QED
    BY <2>2, <2>3, <2>4 DEF Next, WatchNext, Scan, ScanStart, ScanFetch, ScanRecord,
       Mine, MoveRow, ScanFails, RedisLoses
<1> QED
  BY Invariance, <1>1, PTL DEF Spec, NothingDueIsPassed

\* Only a row whose deposit was seen can be credited, and no handler marks one
\* as seen: unless others do so by hand, no deposit is ever recorded.
THEOREM NothingRecordedUnaided ==
  ASSUME \A edge \in RowEdges : edge[2] # "DEPOSIT_SEEN"
  PROVE  Spec => [](\A e \in Escrows : depositTx[e] = NoTx)
<1> DEFINE Unseen ==
      /\ status \in [Escrows -> EscrowStatus \ {"DEPOSIT_SEEN"}]
      /\ depositTx = [e \in Escrows |-> NoTx]
<1>1. Init => Unseen
  BY DEF Init, EscrowStatus
<1>2. Unseen /\ [Next]_vars => Unseen'
  <2> SUFFICES ASSUME Unseen, [Next]_vars PROVE Unseen'
    OBVIOUS
  <2>1. ASSUME NEW e \in Escrows, NEW s \in EscrowStatus, MoveRow(e, s) PROVE Unseen'
    <3>1. <<status[e], s>>[2] # "DEPOSIT_SEEN"
      BY <2>1 DEF MoveRow
    <3> QED
      BY <2>1, <3>1 DEF MoveRow
  <2>2. ASSUME NEW t \in Transfers, NEW e \in Escrows,
               NEW x \in Nearest(Sent[t], 1), ScanRecord(t, e, x)
        PROVE  Unseen'
    <3>1. ~ValidTransition(status[e], DepositStatus(e, x))
      BY RecordEdge
    <3> QED
      BY <2>2, <3>1 DEF ScanRecord, rows
  <2>3. CASE UNCHANGED <<status, depositTx>>
    BY <2>3
  <2> QED
    BY <2>1, <2>2, <2>3 DEF Next, WatchNext, Scan, ScanStart, ScanSelect, ScanFetch,
       ScanEnd, Mine, ScanFails, RedisLoses, vars, rows
<1>3. Unseen => \A e \in Escrows : depositTx[e] = NoTx
  OBVIOUS
<1> QED
  BY <1>1, <1>2, <1>3, PTL DEF Spec
=============================================================================
