------------------------- MODULE EscrowServiceProofs -------------------------
(***************************************************************************)
(* Proofs about the composed service, for every set of escrows, users,     *)
(* calls and transfers.  Each component does to the row what the other     *)
(* allows for, so that each one's behaviours, invariant and theorems are   *)
(* those of its own module; what ties a payout to a deposit is proved here.*)
(***************************************************************************)
EXTENDS EscrowService, PayoutProofs

\* The theorems of DepositWatch, for the rows as the bot and the signer move them.
WP == INSTANCE DepositWatchProofs WITH RowEdges <- PayoutMoves, Faults <- ScanFaults

\* The bot, the signer and the operators keep to what DepositWatch assumes.
LEMMA MovesAreAllowed ==
  /\ PayoutMoves \subseteq WP!Moves
  /\ \A edge \in PayoutMoves : edge[2] \notin WP!Recorded
<1>1. BackOfficeEdges \subseteq AllowedTransitions
  BY BackOfficeAssumption
<1>2. \A edge \in BackOfficeEdges : edge[2] \notin Recorded
  BY HandAssumption
<1>3. ASSUME NEW edge \in PayoutMoves
      PROVE  edge \in WP!Moves /\ edge[2] \notin WP!Recorded
  BY <1>1, <1>2, <1>3
     DEF PayoutMoves, ValidTransition, ValidTransitions, AllowedTransitions,
         EscrowStatus, Recorded, WP!Moves, WP!ValidTransition, WP!ValidTransitions,
         WP!AllowedTransitions, WP!EscrowStatus, WP!Recorded
<1> QED
  BY <1>3

\* The two instances of DepositWatch define the same.
LEMMA SameInvariant == WP!IInv <=> Watch!IInv
BY DEF WP!IInv, WP!TypeOK, WP!ScanIsBehind, WP!RecordedIsConfirmed,
       WP!LockedOnExactDeposit, WP!CreditedOnce, WP!PendingIsAhead, WP!DueIsPending,
       WP!EscrowStatus, WP!ScanPoints, WP!Transactions, WP!NoTx, WP!Block, WP!Due,
       WP!Confirmed, WP!Nearest, WP!Cent,
       Watch!IInv, Watch!TypeOK, Watch!ScanIsBehind, Watch!RecordedIsConfirmed,
       Watch!LockedOnExactDeposit, Watch!CreditedOnce, Watch!PendingIsAhead,
       Watch!DueIsPending, Watch!EscrowStatus, Watch!ScanPoints, Watch!Transactions,
       Watch!NoTx, Watch!Block, Watch!Due, Watch!Confirmed, Watch!Nearest, Watch!Cent

LEMMA SameInit == WP!Init <=> Watch!Init
BY DEF WP!Init, Watch!Init, WP!Transactions, Watch!Transactions, WP!NoTx, Watch!NoTx

LEMMA SameNext == [WP!Next]_(WP!vars) <=> [Watch!Next]_(Watch!vars)
BY DEF WP!Next, WP!WatchNext, WP!Scan, WP!ScanStart, WP!ScanSelect, WP!ScanFetch,
       WP!ScanRecord, WP!ScanEnd, WP!Mine, WP!MoveRow, WP!ScanFails, WP!RedisLoses,
       WP!rows, WP!chain, WP!range, WP!vars, WP!FromBlock, WP!CanRecordDeposit,
       WP!Unused, WP!DepositStatus, WP!ValidTransition, WP!AllowedTransitions,
       WP!EscrowStatus, WP!Transactions, WP!NoTx, WP!Block, WP!Due, WP!Confirmed,
       WP!Nearest, WP!Cent,
       Watch!Next, Watch!WatchNext, Watch!Scan, Watch!ScanStart, Watch!ScanSelect,
       Watch!ScanFetch, Watch!ScanRecord, Watch!ScanEnd, Watch!Mine, Watch!MoveRow,
       Watch!ScanFails, Watch!RedisLoses, Watch!rows, Watch!chain, Watch!range,
       Watch!vars, Watch!FromBlock, Watch!CanRecordDeposit, Watch!Unused,
       Watch!DepositStatus, Watch!ValidTransition, Watch!AllowedTransitions,
       Watch!EscrowStatus, Watch!Transactions, Watch!NoTx, Watch!Block, Watch!Due,
       Watch!Confirmed, Watch!Nearest, Watch!Cent

-----------------------------------------------------------------------------
(* What one component does is a step of the other's environment.           *)

\* An operator's edge, and a valid transition to one of four statuses, is a move.
LEMMA MovesOfPayout ==
  /\ \A s, t : <<s, t>> \in BackOfficeEdges => <<s, t>> \in PayoutMoves
  /\ \A s, t : /\ ValidTransition(s, t)
              /\ t \in {"RELEASE_REQUESTED", "DISPUTED", "PAYOUT_QUEUED", "PAYOUT_SENT"}
              => <<s, t>> \in PayoutMoves
  /\ \A s : ValidTransitions(s, "RELEASE_APPROVED", "PAYOUT_QUEUED")
            => <<s, "PAYOUT_QUEUED">> \in PayoutMoves
  /\ \A s : ValidTransitions(s, "PAYOUT_SENT", "COMPLETED")
            => <<s, "COMPLETED">> \in PayoutMoves
<1>1. \A s : ValidTransitions(s, "RELEASE_APPROVED", "PAYOUT_QUEUED") => s \in EscrowStatus
  BY EdgesAreTyped DEF ValidTransitions
<1>2. \A s : ValidTransitions(s, "PAYOUT_SENT", "COMPLETED") => s = "PAYOUT_QUEUED"
  BY EdgesOfRelease DEF ValidTransitions
<1> QED
  BY <1>1, <1>2 DEF PayoutMoves, ValidTransition

\* A step moves one row along a move, and a release starts from locked funds.
MovesRow(e, s) ==
  /\ <<status[e], s>> \in PayoutMoves
  /\ status' = [status EXCEPT ![e] = s]
  /\ \/ UNCHANGED releasedBy
     \/ /\ status[e] = "FUNDS_LOCKED"
        /\ \E u \in Users : releasedBy' = [releasedBy EXCEPT ![e] = u]
  /\ UNCHANGED paid

\* A step broadcasts a payout of a released escrow that was not paid before.
PaysOut(e) ==
  /\ releasedBy[e] # Nobody
  /\ paid[e] = 0
  /\ paid' = [paid EXCEPT ![e] = 1]
  /\ UNCHANGED <<status, releasedBy>>

\* What the bot, the signer and their users do, as far as the rows' statuses,
\* releases and payouts go.
LEMMA PayoutSteps ==
  ASSUME IInv, PayoutNext
  PROVE  \/ UNCHANGED <<status, releasedBy, paid>>
         \/ \E e \in Escrows, s \in EscrowStatus : MovesRow(e, s)
         \/ \E e \in Escrows : PaysOut(e)
<1> DEFINE Goal ==
      \/ UNCHANGED <<status, releasedBy, paid>>
      \/ \E e \in Escrows, s \in EscrowStatus : MovesRow(e, s)
      \/ \E e \in Escrows : PaysOut(e)
<1> USE MovesOfPayout DEF IInv, TypeOK, MovesRow, redis, calls, history
<1>1. CASE UNCHANGED core
  BY <1>1 DEF core
<1>2. ASSUME NEW a \in Admins, AdminApprovals(a) PROVE Goal
  BY <1>2 DEF AdminApprovals
<1>3. ASSUME NEW u \in Users, NEW c \in Calls, NEW e \in Escrows,
             ConfirmRelease(u, c, e)
      PROVE  Goal
  <2>1. status[e] = "FUNDS_LOCKED" /\ "RELEASE_REQUESTED" \in EscrowStatus
    BY <1>3, EdgesOfRelease DEF ConfirmRelease, EscrowStatus
  <2>2. MovesRow(e, "RELEASE_REQUESTED")
    BY <1>3, <2>1 DEF ConfirmRelease
  <2> QED
    BY <2>1, <2>2
<1>4. ASSUME NEW a \in Admins, NEW c \in Calls, NEW e \in Escrows,
             AdminApprove(a, c, e)
      PROVE  Goal
  BY <1>4 DEF AdminApprove
<1>5. ASSUME NEW e \in Escrows, OpenDispute(e) PROVE Goal
  <2>1. MovesRow(e, "DISPUTED")
    BY <1>5 DEF OpenDispute
  <2> QED
    BY <2>1 DEF EscrowStatus
<1>6. ASSUME NEW e \in Escrows, NEW s \in EscrowStatus, BackOffice(e, s) PROVE Goal
  BY <1>6 DEF BackOffice
<1>7. ASSUME NEW c \in Calls, NEW e \in Escrows, Resubmit(c, e) PROVE Goal
  BY <1>7 DEF Resubmit
<1>8. ASSUME NEW c \in Calls, BotApprove(c) PROVE Goal
  <2>1. UNCHANGED status \/ MovesRow(escrowOf[c], "PAYOUT_QUEUED")
    BY <1>8 DEF BotApprove
  <2> QED
    BY <1>8, <2>1 DEF BotApprove, EscrowStatus
<1>9. ASSUME NEW c \in Calls, BotTimeout(c) \/ BotStops(c) PROVE Goal
  BY <1>9 DEF BotTimeout, BotStops
<1>10. ASSUME NEW c \in Calls, BotRecord(c) PROVE Goal
  <2>1. UNCHANGED status \/ MovesRow(escrowOf[c], "COMPLETED")
    BY <1>10 DEF BotRecord
  <2> QED
    BY <1>10, <2>1 DEF BotRecord, EscrowStatus
<1>11. ASSUME NEW c \in Calls, SignerCheck(c) \/ SignerLimits(c) \/ SignerStops(c)
       PROVE  Goal
  BY <1>11 DEF SignerCheck, SignerLimits, SignerStops
<1>12. ASSUME NEW c \in Calls, SignerLock(c) PROVE Goal
  <2>1. UNCHANGED status \/ MovesRow(escrowOf[c], "PAYOUT_QUEUED")
    BY <1>12 DEF SignerLock
  <2> QED
    BY <1>12, <2>1 DEF SignerLock, EscrowStatus
<1>13. ASSUME NEW c \in Calls, SignerSend(c) PROVE Goal
  <2>1. escrowOf[c] \in Escrows /\ Admitted(c) /\ signer[c] = "send"
    BY <1>13 DEF SignerSend, Admitted
  <2>2. paid[escrowOf[c]] = 0
    BY <2>1 DEF PayInv
  <2>3. releasedBy[escrowOf[c]] = Buyer[escrowOf[c]]
    BY <2>1 DEF ReleaseInv, Released
  <2>4. releasedBy[escrowOf[c]] # Nobody
    BY <2>1, <2>3, CallerAssumption, NobodyAssumption
  <2>5. PaysOut(escrowOf[c])
    BY <1>13, <2>2, <2>4 DEF SignerSend, PaysOut
  <2> QED
    BY <2>1, <2>5
<1>14. ASSUME NEW c \in Calls, SignerRecord(c) PROVE Goal
  <2>1. UNCHANGED status \/ MovesRow(escrowOf[c], "PAYOUT_SENT")
    BY <1>14 DEF SignerRecord
  <2> QED
    BY <1>14, <2>1 DEF SignerRecord, EscrowStatus
<1> QED
  BY PayoutCases, <1>1, <1>2, <1>3, <1>4, <1>5, <1>6, <1>7, <1>8, <1>9, <1>10,
     <1>11, <1>12, <1>13, <1>14
     DEF BotStep, SignerStep

\* A scan credits a row whose deposit was seen with a transaction that no other
\* row has.
Credits(e, t, x) ==
  /\ status[e] = "DEPOSIT_SEEN"
  /\ status' = [status EXCEPT ![e] = Watch!DepositStatus(e, x)]
  /\ depositTx' = [depositTx EXCEPT ![e] = TxOf[t]]
  /\ received' = [received EXCEPT ![e] = x]
  /\ \A f \in Escrows \ {e} : depositTx[f] # TxOf[t]

\* What the watcher, the chain and Redis do, as far as the rows go.
LEMMA WatchSteps ==
  ASSUME Watch!WatchNext
  PROVE  \/ UNCHANGED <<status, depositTx, received>>
         \/ \E e \in Escrows, t \in Transfers, x \in Nat : Credits(e, t, x)
<1>1. ASSUME NEW t \in Transfers, NEW e \in Escrows,
             NEW x \in Watch!Nearest(Sent[t], 1), Watch!ScanRecord(t, e, x)
      PROVE  \/ UNCHANGED <<status, depositTx, received>>
             \/ Credits(e, t, x) /\ x \in Nat
  <2>1. x \in Nat
    BY WatchAssumption DEF Watch!Nearest, Watch!Cent
  <2>2. Watch!ValidTransition(status[e], Watch!DepositStatus(e, x)) =>
          status[e] = "DEPOSIT_SEEN"
    BY DEF Watch!ValidTransition, Watch!AllowedTransitions, Watch!DepositStatus
  <2> QED
    BY <1>1, <2>1, <2>2 DEF Watch!ScanRecord, Watch!rows, Watch!Unused, Credits
<1> QED
  BY <1>1 DEF Watch!WatchNext, Watch!Scan, Watch!ScanStart, Watch!ScanSelect,
     Watch!ScanFetch, Watch!ScanEnd, Watch!Mine, Watch!ScanFails, Watch!RedisLoses,
     Watch!rows

\* What is recorded gives the row one of three statuses, locked if exact.
LEMMA CreditedStatus ==
  ASSUME NEW e \in Escrows, NEW x \in Nat
  PROVE  /\ Watch!DepositStatus(e, x) \in Recorded
         /\ Watch!DepositStatus(e, x) \in EscrowStatus
         /\ ValidTransition("DEPOSIT_SEEN", Watch!DepositStatus(e, x))
         /\ Watch!DepositStatus(e, x) = "FUNDS_LOCKED" <=> x = Expected[e]
BY WatchAssumption DEF Watch!DepositStatus, Recorded, EscrowStatus, ValidTransition,
   AllowedTransitions

\* The watcher is, to the bot and the signer, what WatcherCredits allows for.
THEOREM ImplementsPayout == ServiceSpec => Spec
<1>1. ServiceInit => Init
  BY DEF ServiceInit
<1>2. [ServiceNext]_serviceVars => [Next]_vars
  <2> SUFFICES ASSUME [ServiceNext]_serviceVars PROVE [Next]_vars
    OBVIOUS
  <2> USE DEF payVars, redis, calls, history
  <2>1. CASE PayoutNext
    BY <2>1 DEF Next
  <2>2. CASE Watch!WatchNext /\ UNCHANGED payVars
    <3>1. CASE UNCHANGED status
      BY <2>2, <3>1 DEF vars
    <3>2. ASSUME NEW e \in Escrows, NEW t \in Transfers, NEW x \in Nat,
                 Credits(e, t, x)
          PROVE  WatcherCredits(e, Watch!DepositStatus(e, x))
      BY <2>2, <3>2, CreditedStatus DEF Credits, WatcherCredits
    <3> QED
      BY <2>2, <3>1, <3>2, WatchSteps, CreditedStatus DEF Next
  <2>3. CASE UNCHANGED serviceVars
    BY <2>3 DEF serviceVars, vars
  <2> QED
    BY <2>1, <2>2, <2>3 DEF ServiceNext
<1> QED
  BY <1>1, <1>2, PTL DEF ServiceSpec, Spec

\* The bot, the signer and the operators are, to the watcher, what MoveRow allows
\* for.
THEOREM ImplementsWatch == ServiceSpec => Watch!Spec
<1>1. ServiceInit => Watch!Init
  BY DEF ServiceInit
<1>2. IInv /\ [ServiceNext]_serviceVars => [Watch!Next]_(Watch!vars)
  <2> SUFFICES ASSUME IInv, [ServiceNext]_serviceVars
               PROVE  [Watch!Next]_(Watch!vars)
    OBVIOUS
  <2> USE DEF watchVars, Watch!chain, Watch!range
  <2>1. CASE PayoutNext /\ UNCHANGED watchVars
    <3>1. CASE UNCHANGED status
      BY <2>1, <3>1 DEF Watch!vars
    <3>2. ASSUME NEW e \in Escrows, NEW s \in EscrowStatus, MovesRow(e, s)
          PROVE  Watch!MoveRow(e, s) /\ s \in Watch!EscrowStatus
      BY <2>1, <3>2 DEF MovesRow, Watch!MoveRow, EscrowStatus, Watch!EscrowStatus
    <3> QED
      BY <2>1, <3>1, <3>2, PayoutSteps DEF Watch!Next, PaysOut
  <2>2. CASE Watch!WatchNext
    BY <2>2 DEF Watch!Next
  <2>3. CASE UNCHANGED serviceVars
    BY <2>3 DEF serviceVars, Watch!vars
  <2> QED
    BY <2>1, <2>2, <2>3 DEF ServiceNext
<1> QED
  BY <1>1, <1>2, ImplementsPayout, Invariance, PTL DEF ServiceSpec, Watch!Spec

-----------------------------------------------------------------------------
(* The inductive invariant.                                                *)

\* DepositWatch's invariant holds of the composed service.
LEMMA WatchInvariance == ServiceSpec => []Watch!IInv
<1>1. Watch!Init => Watch!IInv
  BY WP!InitInv, SameInit, SameInvariant, MovesAreAllowed, WatchAssumption
     DEF WP!NoTx, WP!Transactions, Watch!NoTx, Watch!Transactions
<1>2. Watch!IInv /\ [Watch!Next]_(Watch!vars) => Watch!IInv'
  <2>1. WP!IInv /\ [WP!Next]_(WP!vars) => WP!IInv'
    BY WP!StepInv, MovesAreAllowed, WatchAssumption
       DEF WP!NoTx, WP!Transactions, Watch!NoTx, Watch!Transactions
  <2>2. WP!IInv' <=> Watch!IInv'
    BY SameInvariant, PTL
  <2> QED
    BY <2>1, <2>2, SameInvariant, SameNext
<1> QED
  BY ImplementsWatch, <1>1, <1>2, PTL DEF Watch!Spec

\* Whoever moves a row backed by a deposit leaves it among the locked and later
\* ones, and nobody moves another one there, but for the reviews.
LEMMA MovesKeepBacking ==
  ASSUME NEW s, NEW t, <<s, t>> \in PayoutMoves
  PROVE  /\ s \in AfterLock => t \in AfterLock
         /\ t \in AfterLock \ {"REVIEW", "COMPLETED"} =>
              s \in AfterLock \ {"REVIEW", "COMPLETED"}
<1>1. <<s, t>> \in BackOfficeEdges => ValidTransition(s, t) /\ <<s, t>>[2] \notin Recorded
  BY BackOfficeEdge, HandAssumption
<1>2. \/ ValidTransition(s, t) /\ t \notin Recorded
      \/ ValidTransitions(s, "RELEASE_APPROVED", "PAYOUT_QUEUED") /\ t = "PAYOUT_QUEUED"
      \/ s = "PAYOUT_QUEUED" /\ t = "COMPLETED"
  BY <1>1 DEF PayoutMoves, ValidTransition, Recorded
<1> QED
  BY <1>2 DEF ValidTransitions, ValidTransition, AllowedTransitions, AfterLock, Recorded

\* A credited row was not backed, and is if the amount is exact.
LEMMA CreditsBack ==
  ASSUME IInv, Watch!IInv, BackedInv,
         NEW e \in Escrows, NEW t \in Transfers, NEW x \in Nat, Credits(e, t, x)
  PROVE  /\ ~Backed(e)
         /\ releasedBy[e] = Nobody
         /\ Backed(e)' <=> x = Expected[e]
         /\ \A f \in Escrows \ {e} : Backed(f)' <=> Backed(f)
<1>1. TxOf[t] # Watch!NoTx
  BY WatchAssumption DEF Watch!Transactions
<1>2. ~Backed(e)
  BY DEF Credits, BackedInv, AfterLock
<1>3. releasedBy[e] = Nobody
  BY <1>2 DEF BackedInv
<1>4. depositTx'[e] = TxOf[t] /\ received'[e] = x
  BY DEF Credits, Watch!IInv, Watch!TypeOK
<1>5. \A f \in Escrows \ {e} : depositTx'[f] = depositTx[f] /\ received'[f] = received[f]
  BY DEF Credits, Watch!IInv, Watch!TypeOK
<1> QED
  BY <1>1, <1>2, <1>3, <1>4, <1>5 DEF Backed

\* Every step keeps what ties the row's status to its deposit.
LEMMA BackedStep ==
  IInv /\ Watch!IInv /\ BackedInv /\ [ServiceNext]_serviceVars => BackedInv'
<1> SUFFICES ASSUME IInv, Watch!IInv, BackedInv, [ServiceNext]_serviceVars
             PROVE  BackedInv'
  OBVIOUS
<1> USE DEF payVars, watchVars, history
<1>0. status \in [Escrows -> EscrowStatus] /\ releasedBy \in [Escrows -> Users \cup {Nobody}]
  BY DEF IInv, TypeOK
<1>1. CASE PayoutNext /\ UNCHANGED watchVars
  <2>1. \A e \in Escrows : Backed(e)' <=> Backed(e)
    BY <1>1 DEF Backed
  <2>2. CASE UNCHANGED <<status, releasedBy>>
    BY <2>1, <2>2 DEF BackedInv
  <2>3. ASSUME NEW e \in Escrows, NEW s \in EscrowStatus, MovesRow(e, s)
        PROVE  BackedInv'
    <3>1. /\ Backed(e) => s \in AfterLock
          /\ s \in AfterLock \ {"REVIEW", "COMPLETED"} => Backed(e)
      BY <2>3, MovesKeepBacking DEF MovesRow, BackedInv
    <3>2. releasedBy'[e] # Nobody => Backed(e)
      BY <1>0, <2>3 DEF MovesRow, BackedInv, AfterLock
    <3>3. \A f \in Escrows \ {e} : status'[f] = status[f] /\ releasedBy'[f] = releasedBy[f]
      BY <1>0, <2>3 DEF MovesRow
    <3>4. status'[e] = s
      BY <1>0, <2>3 DEF MovesRow
    <3> QED
      BY <2>1, <3>1, <3>2, <3>3, <3>4 DEF BackedInv
  <2> QED
    BY <1>1, <2>2, <2>3, PayoutSteps DEF PaysOut
<1>2. CASE Watch!WatchNext /\ UNCHANGED payVars
  <2>1. CASE UNCHANGED <<status, depositTx, received>>
    BY <1>2, <2>1 DEF BackedInv, Backed
  <2>2. ASSUME NEW e \in Escrows, NEW t \in Transfers, NEW x \in Nat, Credits(e, t, x)
        PROVE  BackedInv'
    <3>1. status'[e] = Watch!DepositStatus(e, x)
          /\ \A f \in Escrows \ {e} : status'[f] = status[f]
      BY <1>0, <2>2 DEF Credits
    <3>2. status'[e] \in AfterLock \ {"REVIEW", "COMPLETED"} <=> x = Expected[e]
      BY <3>1, CreditedStatus DEF AfterLock, Recorded
    <3>3. status'[e] \in AfterLock <=> x = Expected[e]
      BY <3>1, CreditedStatus DEF AfterLock, Recorded
    <3> QED
      BY <1>2, <2>2, <3>1, <3>2, <3>3, CreditsBack DEF BackedInv
  <2> QED
    BY <1>2, <2>1, <2>2, WatchSteps
<1>3. CASE UNCHANGED serviceVars
  BY <1>3 DEF serviceVars, BackedInv, Backed
<1> QED
  BY <1>1, <1>2, <1>3 DEF ServiceNext

\* The inductive invariant of the composed service holds throughout.
THEOREM ServiceInvariance == ServiceSpec => []ServiceIInv
<1>1. ServiceInit => BackedInv
  BY DEF ServiceInit, Init, Watch!Init, BackedInv, Backed, AfterLock
<1>2. ServiceSpec => []IInv
  BY ImplementsPayout, Invariance, PTL
<1>3. IInv /\ Watch!IInv /\ BackedInv <=> ServiceIInv
  BY DEF ServiceIInv
<1> QED
  BY <1>1, <1>2, <1>3, WatchInvariance, BackedStep, PTL DEF ServiceSpec

\* Behind every escrow that is paid is a confirmed transfer of the amount
\* expected, by a transaction of its own.
THEOREM EveryPayoutIsBacked == ServiceSpec => []PayoutsAreBacked
<1>1. ServiceIInv => PayoutsAreBacked
  <2> SUFFICES ASSUME ServiceIInv, NEW e \in Escrows, paid[e] > 0
               PROVE  /\ \E t \in Transfers :
                            /\ TxOf[t] = depositTx[e]
                            /\ To[t] = Address[e]
                            /\ Expected[e] \in Watch!Nearest(Sent[t], 1)
                            /\ Watch!Block(t) \in 1..(height - Confirmations)
                      /\ \A f \in Escrows \ {e} : depositTx[f] # depositTx[e]
    BY DEF PayoutsAreBacked
  <2>1. releasedBy[e] = Buyer[e]
    BY DEF ServiceIInv, IInv, ReleaseInv, Released
  <2>2. depositTx[e] # Watch!NoTx /\ received[e] = Expected[e]
    BY <2>1, CallerAssumption, NobodyAssumption DEF ServiceIInv, BackedInv, Backed
  <2>3. PICK t \in Transfers : /\ TxOf[t] = depositTx[e]
                               /\ To[t] = Address[e]
                               /\ received[e] \in Watch!Nearest(Sent[t], 1)
    BY <2>2 DEF ServiceIInv, Watch!IInv, Watch!RecordedIsConfirmed
  <2>4. minedAt[depositTx[e]] > 0 /\ height >= minedAt[depositTx[e]] + Confirmations
    BY <2>2 DEF ServiceIInv, Watch!IInv, Watch!RecordedIsConfirmed
  <2>5. TxOf[t] \in Watch!Transactions
    BY DEF Watch!Transactions
  <2>6. minedAt[TxOf[t]] \in Nat /\ height \in Nat /\ Confirmations \in Nat
    BY <2>5, WatchAssumption DEF ServiceIInv, Watch!IInv, Watch!TypeOK
  <2>7. Watch!Block(t) \in 1..(height - Confirmations)
    BY <2>3, <2>4, <2>6 DEF Watch!Block
  <2>8. \A f \in Escrows \ {e} : depositTx[f] # depositTx[e]
    BY <2>2 DEF ServiceIInv, Watch!IInv, Watch!CreditedOnce
  <2> QED
    BY <2>2, <2>3, <2>7, <2>8
<1> QED
  BY ServiceInvariance, <1>1, PTL

\* An escrow whose expected amount is not whole cents is never paid out, whatever
\* its buyer sends and operators do: the watcher rounds what it receives.
THEOREM FractionsAreNeverPaid ==
  ASSUME NEW e \in Escrows, Expected[e] % Watch!Cent # 0
  PROVE  ServiceSpec => [](paid[e] = 0)
<1>1. PayoutsAreBacked => ~(paid[e] > 0)
  <2> SUFFICES ASSUME PayoutsAreBacked, paid[e] > 0 PROVE FALSE
    OBVIOUS
  <2>1. PICK t \in Transfers : Expected[e] \in Watch!Nearest(Sent[t], 1)
    BY DEF PayoutsAreBacked
  <2> QED
    BY <2>1, WatchAssumption DEF Watch!Nearest, Watch!Cent
<1>2. TypeOK => paid[e] \in Nat
  BY DEF TypeOK
<1>3. ~(paid[e] > 0) /\ paid[e] \in Nat => paid[e] = 0
  OBVIOUS
<1> QED
  BY <1>1, <1>2, <1>3, EveryPayoutIsBacked, ImplementsPayout, TypeCorrectness, PTL

\* With the watcher in the place of WatcherCredits, a payout still leaves once, and
\* never for a large escrow.
THEOREM ServicePaysOnce == ServiceSpec => [](PaidAtMostOnce /\ LargeIsNeverPaid)
BY ImplementsPayout, AtMostOnePayout, LargeStaysUnpaid, PTL

\* And a large escrow is put up for it by an admin, where operators leave that
\* to the admins.
THEOREM ServiceAsksAdmin ==
  ASSUME ApprovalsAreAdmins
  PROVE  ServiceSpec => []LargeWaitsForAdmin
BY ImplementsPayout, LargeNeedsAdmin, PTL

-----------------------------------------------------------------------------
(* The composed service implements Vault.                                  *)

\* A step of the bot, the signer or their users is a release or a payout of a
\* backed escrow, or does not show.
LEMMA PayoutMaps ==
  ASSUME ServiceIInv, PayoutNext, UNCHANGED watchVars
  PROVE  [TheVault!Next]_(TheVault!vars)
<1>0. /\ releasedBy \in [Escrows -> Users \cup {Nobody}]
      /\ status \in [Escrows -> EscrowStatus]
  BY DEF ServiceIInv, IInv, TypeOK
<1>1. UNCHANGED backingOf
  BY DEF backingOf, Backed, watchVars
<1>2. CASE UNCHANGED <<releasedBy, paid>>
  BY <1>1, <1>2 DEF releasedOf, TheVault!vars
<1>3. ASSUME NEW e \in Escrows, status[e] = "FUNDS_LOCKED", NEW u \in Users,
             releasedBy' = [releasedBy EXCEPT ![e] = u], UNCHANGED paid
      PROVE  TheVault!Release(e)
  <2>1. backingOf[e] # Watch!NoTx
    BY <1>3 DEF ServiceIInv, BackedInv, AfterLock, backingOf, Backed
  <2>2. releasedOf' = releasedOf \cup {e}
    <3>1. \A f \in Escrows : releasedBy'[f] = IF f = e THEN u ELSE releasedBy[f]
      BY <1>0, <1>3
    <3> QED
      BY <3>1, NobodyAssumption DEF releasedOf
  <2> QED
    BY <1>1, <1>3, <2>1, <2>2 DEF TheVault!Release
<1>4. ASSUME NEW e \in Escrows, PaysOut(e) PROVE TheVault!Pay(e)
  BY <1>1, <1>4 DEF PaysOut, releasedOf, TheVault!Pay
<1> QED
  BY <1>2, <1>3, <1>4, PayoutSteps DEF ServiceIInv, MovesRow, TheVault!Next

\* A step of the watcher backs the row that it locks, or does not show.
LEMMA WatchMaps ==
  ASSUME ServiceIInv, Watch!WatchNext, UNCHANGED payVars
  PROVE  [TheVault!Next]_(TheVault!vars)
<1>1. UNCHANGED <<releasedOf, paid>>
  BY DEF releasedOf, payVars, history
<1>2. CASE UNCHANGED <<status, depositTx, received>>
  BY <1>1, <1>2 DEF backingOf, Backed, TheVault!vars
<1>3. ASSUME NEW e \in Escrows, NEW t \in Transfers, NEW x \in Nat, Credits(e, t, x)
      PROVE  [TheVault!Next]_(TheVault!vars)
  <2>1. /\ ~Backed(e)
        /\ Backed(e)' <=> x = Expected[e]
        /\ \A f \in Escrows \ {e} : Backed(f)' <=> Backed(f)
    BY <1>3, CreditsBack DEF ServiceIInv
  <2>2. /\ depositTx'[e] = TxOf[t]
        /\ \A f \in Escrows \ {e} : depositTx'[f] = depositTx[f]
    BY <1>3 DEF Credits, ServiceIInv, Watch!IInv, Watch!TypeOK
  <2>3. CASE x = Expected[e]
    <3>1. backingOf[e] = Watch!NoTx
      BY <2>1 DEF backingOf
    <3>2. TxOf[t] \in Watch!Transactions /\ TxOf[t] # Watch!NoTx
      BY WatchAssumption DEF Watch!Transactions
    <3>3. \A f \in Escrows : backingOf[f] # TxOf[t]
      BY <1>3, <3>1, <3>2 DEF backingOf, Credits
    <3>4. backingOf' = [backingOf EXCEPT ![e] = TxOf[t]]
      BY <2>1, <2>2, <2>3 DEF backingOf
    <3>5. TheVault!Back(e, TxOf[t])
      BY <1>1, <3>1, <3>3, <3>4 DEF TheVault!Back
    <3> QED
      BY <3>2, <3>5 DEF TheVault!Next
  <2>4. CASE x # Expected[e]
    <3>1. UNCHANGED backingOf
      BY <2>1, <2>2, <2>4 DEF backingOf
    <3> QED
      BY <1>1, <3>1 DEF TheVault!vars
  <2> QED
    BY <2>3, <2>4
<1> QED
  BY <1>2, <1>3, WatchSteps

\* The watcher, the bot, the signer and the operators together implement the
\* vault: money leaves an escrow once, after its release, and is released only
\* once a transaction of its own backs it.
THEOREM VaultRefinement == ServiceSpec => ImplementsVault
<1>1. ServiceInit => TheVault!Init
  BY DEF ServiceInit, Init, Watch!Init, TheVault!Init, backingOf, Backed, releasedOf
<1>2. ServiceIInv /\ [ServiceNext]_serviceVars => [TheVault!Next]_(TheVault!vars)
  <2>1. CASE UNCHANGED serviceVars
    BY <2>1 DEF serviceVars, watchVars, payVars, history, backingOf, Backed,
       releasedOf, TheVault!vars
  <2> QED
    BY <2>1, PayoutMaps, WatchMaps DEF ServiceNext
<1> QED
  BY ServiceInvariance, <1>1, <1>2, PTL DEF ServiceSpec, ImplementsVault, TheVault!Spec

-----------------------------------------------------------------------------
(* Without operators.                                                      *)

\* Where operators put no deposit through by hand, the service stands still: no
\* deposit is recorded, no escrow is locked or released, and nothing is paid.
THEOREM NothingHappensUnaided ==
  ASSUME \A edge \in BackOfficeEdges : edge[2] # "DEPOSIT_SEEN"
  PROVE  ServiceSpec =>
           [](\A e \in Escrows :
                /\ depositTx[e] = Watch!NoTx
                /\ status[e] # "FUNDS_LOCKED"
                /\ releasedBy[e] = Nobody
                /\ paid[e] = 0)
<1>1. \A edge \in PayoutMoves : edge[2] # "DEPOSIT_SEEN"
  BY DEF PayoutMoves
<1>2. WP!Spec => [](\A e \in Escrows : depositTx[e] = WP!NoTx)
  BY <1>1, WP!NothingRecordedUnaided, MovesAreAllowed, WatchAssumption
     DEF WP!NoTx, WP!Transactions, Watch!NoTx, Watch!Transactions
<1>3. ServiceSpec => WP!Spec
  BY ImplementsWatch, SameInit, SameNext, PTL DEF Watch!Spec, WP!Spec
<1>4. ServiceIInv /\ (\A e \in Escrows : depositTx[e] = WP!NoTx) =>
        \A e \in Escrows : /\ depositTx[e] = Watch!NoTx
                           /\ status[e] # "FUNDS_LOCKED"
                           /\ releasedBy[e] = Nobody
                           /\ paid[e] = 0
  <2> SUFFICES ASSUME ServiceIInv, \A f \in Escrows : depositTx[f] = WP!NoTx,
                      NEW e \in Escrows
               PROVE  /\ depositTx[e] = Watch!NoTx
                      /\ status[e] # "FUNDS_LOCKED"
                      /\ releasedBy[e] = Nobody
                      /\ paid[e] = 0
    OBVIOUS
  <2>1. depositTx[e] = Watch!NoTx /\ ~Backed(e)
    BY DEF WP!NoTx, Watch!NoTx, Backed
  <2>2. status[e] # "FUNDS_LOCKED" /\ releasedBy[e] = Nobody
    BY <2>1 DEF ServiceIInv, BackedInv, AfterLock
  <2>3. paid[e] > 0 => releasedBy[e] = Buyer[e]
    BY DEF ServiceIInv, IInv, ReleaseInv, Released
  <2>4. paid[e] \in Nat /\ Buyer[e] # Nobody
    BY CallerAssumption, NobodyAssumption DEF ServiceIInv, IInv, TypeOK
  <2> QED
    BY <2>1, <2>2, <2>3, <2>4
<1> QED
  BY ServiceInvariance, <1>2, <1>3, <1>4, PTL
=============================================================================
