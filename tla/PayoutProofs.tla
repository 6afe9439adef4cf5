---------------------------- MODULE PayoutProofs ----------------------------
(***************************************************************************)
(* Proofs about Payout, for every set of escrows, users, admins and calls, *)
(* and whatever operators do within BackOfficeAssumption.  IInv of         *)
(* PayoutInv is inductive; the safety properties and the refinement of     *)
(* Custody follow from it.                                                 *)
(***************************************************************************)
EXTENDS PayoutInv, TLAPS

\* The edges of the table run between statuses.
LEMMA EdgesAreTyped ==
  \A s, t : ValidTransition(s, t) => s \in EscrowStatus /\ t \in EscrowStatus
BY DEF ValidTransition, AllowedTransitions, EscrowStatus

\* Where the edges into the statuses of a release come from.
LEMMA EdgesOfRelease ==
  ASSUME NEW s, NEW t, ValidTransition(s, t)
  PROVE  /\ t = "RELEASE_REQUESTED" => s = "FUNDS_LOCKED"
         /\ t = "RELEASE_APPROVED" =>
              s \in {"RELEASE_REQUESTED", "DISPUTED", "PAYOUT_FAILED"}
         /\ t = "PAYOUT_QUEUED" => s = "RELEASE_APPROVED"
         /\ t = "PAYOUT_SENT" => s = "PAYOUT_QUEUED"
         /\ t = "PAYOUT_FAILED" => s = "PAYOUT_QUEUED"
         /\ t = "DISPUTED" => s \in {"FUNDS_LOCKED", "RELEASE_REQUESTED"}
         /\ t \in {"FUNDS_LOCKED", "UNDERPAID", "OVERPAID_REVIEW"} =>
              s = "DEPOSIT_SEEN"
BY DEF ValidTransition, AllowedTransitions

\* What the edges keep: spent rows stay spent but for a failed payout, sent
\* ones for good, rows once disputable come from disputable ones, and held
\* funds stay held.
LEMMA EdgesKeep ==
  ASSUME NEW s, NEW t, ValidTransition(s, t)
  PROVE  /\ s \in Spent => t \in Spent \cup {"PAYOUT_FAILED"}
         /\ s \in Spent \ {"PAYOUT_QUEUED"} => t \in Spent \ {"PAYOUT_QUEUED"}
         /\ t \in Undisputed => s \in Undisputed
         /\ s \in Held => t \in Held
BY DEF ValidTransition, AllowedTransitions, Spent, Undisputed, Held

\* An operator's edge is one of the table's, and does not release or dispute.
LEMMA BackOfficeEdge ==
  ASSUME NEW s, NEW t, <<s, t>> \in BackOfficeEdges
  PROVE  /\ ValidTransition(s, t)
         /\ t # "RELEASE_REQUESTED"
         /\ t # "DISPUTED"
         /\ ~(s = "DISPUTED" /\ t = "RELEASE_APPROVED")
<1>1. ValidTransition(s, t)
  BY BackOfficeAssumption DEF ValidTransition
<1>2. /\ <<s, t>>[2] \notin {"RELEASE_REQUESTED", "DISPUTED"}
      /\ <<s, t>> # <<"DISPUTED", "RELEASE_APPROVED">>
  BY BackOfficeAssumption
<1> QED
  BY <1>1, <1>2

-----------------------------------------------------------------------------
(* Type correctness.                                                       *)

LEMMA InitType == Init => TypeOK
<1> SUFFICES ASSUME Init PROVE TypeOK
  OBVIOUS
<1>1. status \in [Escrows -> EscrowStatus]
  BY DEF Init, EscrowStatus
<1>2. /\ payoutTx \in [Escrows -> BOOLEAN]
      /\ disputes \in [Escrows -> Nat]
      /\ paid \in [Escrows -> Nat]
  BY DEF Init
<1>3. /\ releaseKey \subseteq Users \X Escrows
      /\ approveKey \subseteq Admins \X Escrows
      /\ session \subseteq Admins
      /\ listed \subseteq Admins \X Escrows
      /\ paused \in BOOLEAN
  BY DEF Init
<1>4. /\ bot \in [Calls -> BotPoints]
      /\ signer \in [Calls -> SignerPoints]
      /\ escrowOf \in [Calls -> Escrows]
  BY DEF Init, BotPoints, SignerPoints
<1>5. /\ releasedBy \in [Escrows -> Users \cup {Nobody}]
      /\ asked \subseteq Users \X Escrows
      /\ approved \subseteq Escrows
  BY DEF Init
<1> QED
  BY <1>1, <1>2, <1>3, <1>4, <1>5 DEF TypeOK

\* Every step keeps the variables in their types.
LEMMA StepType == TypeOK /\ [Next]_vars => TypeOK'
<1> SUFFICES ASSUME TypeOK, [Next]_vars PROVE TypeOK'
  OBVIOUS
<1> USE DEF TypeOK, redis, calls, history
<1>1. ASSUME NEW u \in Users, NEW e \in Escrows, AskRelease(u, e) PROVE TypeOK'
  BY <1>1 DEF AskRelease
<1>2. ASSUME NEW u \in Users, NEW e \in Escrows, ReleaseKeyExpires(u, e) PROVE TypeOK'
  BY <1>2 DEF ReleaseKeyExpires
<1>3. ASSUME NEW u \in Users, NEW c \in Calls, NEW e \in Escrows, ConfirmRelease(u, c, e) PROVE TypeOK'
  BY <1>3 DEF ConfirmRelease, EscrowStatus, BotPoints
<1>4. ASSUME NEW e \in Escrows, OpenDispute(e) PROVE TypeOK'
  BY <1>4 DEF OpenDispute, EscrowStatus
<1>5. ASSUME NEW a \in Admins, AdminEntry(a) PROVE TypeOK'
  BY <1>5 DEF AdminEntry
<1>6. ASSUME NEW a \in Admins, SessionExpires(a) PROVE TypeOK'
  BY <1>6 DEF SessionExpires
<1>7. ASSUME NEW a \in Admins, AdminApprovals(a) PROVE TypeOK'
  BY <1>7 DEF AdminApprovals
<1>8. ASSUME NEW a \in Admins, NEW e \in Escrows, AskApprove(a, e) PROVE TypeOK'
  BY <1>8 DEF AskApprove
<1>9. ASSUME NEW a \in Admins, NEW e \in Escrows, ApproveKeyExpires(a, e) PROVE TypeOK'
  BY <1>9 DEF ApproveKeyExpires
<1>10. ASSUME NEW a \in Admins, NEW c \in Calls, NEW e \in Escrows, AdminApprove(a, c, e) PROVE TypeOK'
  BY <1>10 DEF AdminApprove, BotPoints
<1>11. ASSUME NEW a \in Admins, TogglePause(a) PROVE TypeOK'
  BY <1>11 DEF TogglePause
<1>12. ASSUME NEW c \in Calls, BotApprove(c) PROVE TypeOK'
  BY <1>12 DEF BotApprove, EscrowStatus, BotPoints, SignerPoints
<1>13. ASSUME NEW c \in Calls, BotTimeout(c) PROVE TypeOK'
  BY <1>13 DEF BotTimeout, BotPoints
<1>14. ASSUME NEW c \in Calls, BotRecord(c) PROVE TypeOK'
  BY <1>14 DEF BotRecord, EscrowStatus, BotPoints
<1>15. ASSUME NEW c \in Calls, BotStops(c) PROVE TypeOK'
  BY <1>15 DEF BotStops, BotPoints
<1>16. ASSUME NEW c \in Calls, SignerCheck(c) PROVE TypeOK'
  BY <1>16 DEF SignerCheck, Answer, BotPoints, SignerPoints
<1>17. ASSUME NEW c \in Calls, SignerLimits(c) PROVE TypeOK'
  BY <1>17 DEF SignerLimits, Answer, BotPoints, SignerPoints
<1>18. ASSUME NEW c \in Calls, SignerLock(c) PROVE TypeOK'
  BY <1>18 DEF SignerLock, Answer, EscrowStatus, BotPoints, SignerPoints
<1>19. ASSUME NEW c \in Calls, SignerSend(c) PROVE TypeOK'
  BY <1>19 DEF SignerSend, SignerPoints
<1>20. ASSUME NEW c \in Calls, SignerRecord(c) PROVE TypeOK'
  BY <1>20 DEF SignerRecord, Answer, EscrowStatus, BotPoints, SignerPoints
<1>21. ASSUME NEW c \in Calls, SignerStops(c) PROVE TypeOK'
  BY <1>21 DEF SignerStops, Answer, BotPoints, SignerPoints
<1>22. ASSUME NEW e \in Escrows, NEW s \in EscrowStatus, WatcherCredits(e, s) PROVE TypeOK'
  BY <1>22 DEF WatcherCredits, Recorded
<1>23. ASSUME NEW e \in Escrows, NEW s \in EscrowStatus, BackOffice(e, s) PROVE TypeOK'
  BY <1>23 DEF BackOffice
<1>24. ASSUME NEW c \in Calls, NEW e \in Escrows, Resubmit(c, e) PROVE TypeOK'
  BY <1>24 DEF Resubmit, SignerPoints
<1>25. CASE UNCHANGED vars
  BY <1>25 DEF vars
<1> QED
  BY <1>1, <1>2, <1>3, <1>4, <1>5, <1>6, <1>7, <1>8, <1>9, <1>10, <1>11, <1>12, <1>13, <1>14, <1>15, <1>16, <1>17, <1>18, <1>19, <1>20, <1>21, <1>22, <1>23, <1>24, <1>25
     DEF Next, PayoutNext, BotStep, SignerStep

-----------------------------------------------------------------------------
(* The inductive invariant, part by part.                                  *)

\* What the invariant speaks of.
core == <<status, payoutTx, disputes, listed, bot, signer, escrowOf,
          releasedBy, approved, paid>>

\* A step of the bot, the signer or their users that touches it is one of these.
LEMMA PayoutCases ==
  ASSUME PayoutNext
  PROVE  \/ UNCHANGED core
         \/ \E a \in Admins : AdminApprovals(a)
         \/ \E u \in Users, c \in Calls, e \in Escrows : ConfirmRelease(u, c, e)
         \/ \E a \in Admins, c \in Calls, e \in Escrows : AdminApprove(a, c, e)
         \/ \E e \in Escrows : OpenDispute(e)
         \/ \E e \in Escrows, s \in EscrowStatus : BackOffice(e, s)
         \/ \E c \in Calls, e \in Escrows : Resubmit(c, e)
         \/ \E c \in Calls : BotStep(c)
         \/ \E c \in Calls : BotStops(c)
         \/ \E c \in Calls : SignerStep(c)
         \/ \E c \in Calls : SignerStops(c)
<1> USE DEF core, redis, calls, history
<1>1. ASSUME NEW u \in Users, NEW e \in Escrows,
             AskRelease(u, e) \/ ReleaseKeyExpires(u, e)
      PROVE  UNCHANGED core
  BY <1>1 DEF AskRelease, ReleaseKeyExpires
<1>2. ASSUME NEW a \in Admins,
             AdminEntry(a) \/ SessionExpires(a) \/ TogglePause(a)
      PROVE  UNCHANGED core
  BY <1>2 DEF AdminEntry, SessionExpires, TogglePause
<1>3. ASSUME NEW a \in Admins, NEW e \in Escrows,
             AskApprove(a, e) \/ ApproveKeyExpires(a, e)
      PROVE  UNCHANGED core
  BY <1>3 DEF AskApprove, ApproveKeyExpires
<1> QED
  BY <1>1, <1>2, <1>3 DEF PayoutNext

\* Of all steps, a watcher's write of the row is one more.
LEMMA StepCases ==
  ASSUME [Next]_vars
  PROVE  \/ UNCHANGED core
         \/ \E a \in Admins : AdminApprovals(a)
         \/ \E u \in Users, c \in Calls, e \in Escrows : ConfirmRelease(u, c, e)
         \/ \E a \in Admins, c \in Calls, e \in Escrows : AdminApprove(a, c, e)
         \/ \E e \in Escrows : OpenDispute(e)
         \/ \E e \in Escrows, s \in EscrowStatus : WatcherCredits(e, s)
         \/ \E e \in Escrows, s \in EscrowStatus : BackOffice(e, s)
         \/ \E c \in Calls, e \in Escrows : Resubmit(c, e)
         \/ \E c \in Calls : BotStep(c)
         \/ \E c \in Calls : BotStops(c)
         \/ \E c \in Calls : SignerStep(c)
         \/ \E c \in Calls : SignerStops(c)
<1>1. CASE UNCHANGED vars
  BY <1>1 DEF vars, core
<1>2. CASE PayoutNext
  BY <1>2, PayoutCases
<1> QED
  BY <1>1, <1>2 DEF Next

\* One admitted call at a time, on an unpaid escrow whose row it spent.
LEMMA PayStep == TypeOK /\ PayInv /\ [Next]_vars => PayInv'
<1> SUFFICES ASSUME TypeOK, PayInv, [Next]_vars
             PROVE  PayInv'
  OBVIOUS
<1> USE DEF TypeOK, PayInv, Admitted, PaidAtMostOnce, PaidEscrowIsSpent, Spent, redis, calls, history
<1>1. CASE UNCHANGED core
  BY <1>1 DEF core
<1>2. ASSUME NEW a \in Admins, AdminApprovals(a) PROVE PayInv'
  BY <1>2 DEF AdminApprovals
<1>3. ASSUME NEW u \in Users, NEW c \in Calls, NEW e \in Escrows,
             ConfirmRelease(u, c, e)
      PROVE  PayInv'
  BY <1>3, EdgesOfRelease, EdgesKeep DEF ConfirmRelease, MayRelease, Idle
<1>4. ASSUME NEW a \in Admins, NEW c \in Calls, NEW e \in Escrows,
             AdminApprove(a, c, e)
      PROVE  PayInv'
  BY <1>4 DEF AdminApprove, Idle
<1>5. ASSUME NEW e \in Escrows, OpenDispute(e) PROVE PayInv'
  BY <1>5, EdgesOfRelease, EdgesKeep DEF OpenDispute
<1>6. ASSUME NEW e \in Escrows, NEW s \in EscrowStatus,
             WatcherCredits(e, s)
      PROVE  PayInv'
  BY <1>6, EdgesOfRelease, EdgesKeep DEF WatcherCredits, Recorded
<1>7. ASSUME NEW e \in Escrows, NEW s \in EscrowStatus,
             BackOffice(e, s)
      PROVE  PayInv'
  BY <1>7, BackOfficeEdge, EdgesOfRelease, EdgesKeep DEF BackOffice
<1>8. ASSUME NEW c \in Calls, NEW e \in Escrows, Resubmit(c, e) PROVE PayInv'
  BY <1>8 DEF Resubmit, Idle
<1>9. ASSUME NEW c \in Calls, BotApprove(c) PROVE PayInv'
  BY <1>9, EdgesOfRelease, EdgesKeep DEF BotApprove, ValidTransitions
<1>10. ASSUME NEW c \in Calls, BotTimeout(c) \/ BotStops(c) PROVE PayInv'
  BY <1>10 DEF BotTimeout, BotStops
<1>11. ASSUME NEW c \in Calls, BotRecord(c) PROVE PayInv'
  BY <1>11, EdgesOfRelease, EdgesKeep DEF BotRecord, ValidTransitions
<1>12. ASSUME NEW c \in Calls, SignerCheck(c) \/ SignerLimits(c) PROVE PayInv'
  BY <1>12 DEF SignerCheck, SignerLimits, Answer
<1>13. ASSUME NEW c \in Calls, SignerLock(c) PROVE PayInv'
  BY <1>13, EdgesOfRelease, EdgesKeep DEF SignerLock, Answer
<1>14. ASSUME NEW c \in Calls, SignerSend(c) PROVE PayInv'
  BY <1>14 DEF SignerSend
<1>15. ASSUME NEW c \in Calls, SignerRecord(c) PROVE PayInv'
  BY <1>15, EdgesOfRelease, EdgesKeep DEF SignerRecord, Answer
<1>16. ASSUME NEW c \in Calls, SignerStops(c) PROVE PayInv'
  BY <1>16 DEF SignerStops, Answer
<1> QED
  BY StepCases, <1>1, <1>2, <1>3, <1>4, <1>5, <1>6, <1>7, <1>8, <1>9,
     <1>10, <1>11, <1>12, <1>13, <1>14, <1>15, <1>16
     DEF BotStep, SignerStep

\* First taps are remembered, and a live key goes back to one.
LEMMA AskedStep ==
  ASSUME [Next]_vars, releaseKey \subseteq asked
  PROVE  asked \subseteq asked' /\ releaseKey' \subseteq asked'
<1> USE DEF redis, calls, history
<1>1. ASSUME NEW u \in Users, NEW e \in Escrows,
             AskRelease(u, e) \/ ReleaseKeyExpires(u, e)
      PROVE  asked \subseteq asked' /\ releaseKey' \subseteq asked'
  BY <1>1 DEF AskRelease, ReleaseKeyExpires
<1>2. ASSUME NEW e \in Escrows,
             \/ \E u \in Users, c \in Calls : ConfirmRelease(u, c, e)
             \/ OpenDispute(e)
             \/ \E a \in Admins :
                  \/ AskApprove(a, e)
                  \/ ApproveKeyExpires(a, e)
                  \/ \E c \in Calls : AdminApprove(a, c, e)
             \/ \E s \in EscrowStatus : BackOffice(e, s) \/ WatcherCredits(e, s)
             \/ \E c \in Calls : Resubmit(c, e)
      PROVE  UNCHANGED <<asked, releaseKey>>
  BY <1>2 DEF ConfirmRelease, OpenDispute, AskApprove, ApproveKeyExpires, AdminApprove,
              BackOffice, WatcherCredits, Resubmit
<1>3. ASSUME NEW a \in Admins,
             AdminEntry(a) \/ SessionExpires(a) \/ AdminApprovals(a) \/ TogglePause(a)
      PROVE  UNCHANGED <<asked, releaseKey>>
  BY <1>3 DEF AdminEntry, SessionExpires, AdminApprovals, TogglePause
<1>4. ASSUME NEW c \in Calls,
             BotStep(c) \/ BotStops(c) \/ SignerStep(c) \/ SignerStops(c)
      PROVE  UNCHANGED <<asked, releaseKey>>
  BY <1>4 DEF BotStep, BotApprove, BotTimeout, BotRecord, BotStops, SignerStep,
              SignerCheck, SignerLimits, SignerLock, SignerSend, SignerRecord, SignerStops
<1>5. CASE UNCHANGED vars
  BY <1>5 DEF vars
<1> QED
  BY <1>1, <1>2, <1>3, <1>4, <1>5 DEF Next, PayoutNext

\* Approvals and payouts go back to the buyer's two taps.
LEMMA ReleaseStep == TypeOK /\ ReleaseInv /\ [Next]_vars => ReleaseInv'
<1> SUFFICES ASSUME TypeOK, ReleaseInv, [Next]_vars
             PROVE  ReleaseInv'
  OBVIOUS
<1>0. asked \subseteq asked' /\ releaseKey' \subseteq asked'
  BY AskedStep DEF ReleaseInv
<1> USE <1>0 DEF TypeOK, ReleaseInv, Released, ReleasedOnly, Admitted, redis, calls, history
<1>1. CASE UNCHANGED core
  BY <1>1 DEF core
<1>2. ASSUME NEW a \in Admins, AdminApprovals(a) PROVE ReleaseInv'
  BY <1>2 DEF AdminApprovals
<1>3. ASSUME NEW u \in Users, NEW c \in Calls, NEW e \in Escrows,
             ConfirmRelease(u, c, e)
      PROVE  ReleaseInv'
  BY <1>3, EdgesOfRelease, EdgesKeep DEF ConfirmRelease, MayRelease, Idle
<1>4. ASSUME NEW a \in Admins, NEW c \in Calls, NEW e \in Escrows,
             AdminApprove(a, c, e)
      PROVE  ReleaseInv'
  BY <1>4 DEF AdminApprove, Idle
<1>5. ASSUME NEW e \in Escrows, OpenDispute(e) PROVE ReleaseInv'
  BY <1>5, EdgesOfRelease, EdgesKeep DEF OpenDispute
<1>6. ASSUME NEW e \in Escrows, NEW s \in EscrowStatus,
             WatcherCredits(e, s)
      PROVE  ReleaseInv'
  BY <1>6, EdgesOfRelease, EdgesKeep DEF WatcherCredits, Recorded
<1>7. ASSUME NEW e \in Escrows, NEW s \in EscrowStatus,
             BackOffice(e, s)
      PROVE  ReleaseInv'
  BY <1>7, BackOfficeEdge, EdgesOfRelease, EdgesKeep DEF BackOffice
<1>8. ASSUME NEW c \in Calls, NEW e \in Escrows, Resubmit(c, e) PROVE ReleaseInv'
  BY <1>8 DEF Resubmit, Idle
<1>9. ASSUME NEW c \in Calls, BotApprove(c) PROVE ReleaseInv'
  BY <1>9, EdgesOfRelease, EdgesKeep DEF BotApprove, ValidTransitions
<1>10. ASSUME NEW c \in Calls, BotTimeout(c) \/ BotStops(c) PROVE ReleaseInv'
  BY <1>10 DEF BotTimeout, BotStops
<1>11. ASSUME NEW c \in Calls, BotRecord(c) PROVE ReleaseInv'
  BY <1>11, EdgesOfRelease, EdgesKeep DEF BotRecord, ValidTransitions
<1>12. ASSUME NEW c \in Calls, SignerCheck(c) \/ SignerLimits(c) PROVE ReleaseInv'
  BY <1>12 DEF SignerCheck, SignerLimits, Answer
<1>13. ASSUME NEW c \in Calls, SignerLock(c) PROVE ReleaseInv'
  BY <1>13, EdgesOfRelease, EdgesKeep DEF SignerLock, Answer
<1>14. ASSUME NEW c \in Calls, SignerSend(c) PROVE ReleaseInv'
  BY <1>14 DEF SignerSend
<1>15. ASSUME NEW c \in Calls, SignerRecord(c) PROVE ReleaseInv'
  BY <1>15, EdgesOfRelease, EdgesKeep DEF SignerRecord, Answer
<1>16. ASSUME NEW c \in Calls, SignerStops(c) PROVE ReleaseInv'
  BY <1>16 DEF SignerStops, Answer
<1> QED
  BY StepCases, <1>1, <1>2, <1>3, <1>4, <1>5, <1>6, <1>7, <1>8, <1>9,
     <1>10, <1>11, <1>12, <1>13, <1>14, <1>15, <1>16
     DEF BotStep, SignerStep

\* A recorded hash stands for a broadcast.
LEMMA RecordStep == TypeOK /\ PayInv /\ RecordInv /\ [Next]_vars => RecordInv'
<1> SUFFICES ASSUME TypeOK, PayInv, RecordInv, [Next]_vars
             PROVE  RecordInv'
  OBVIOUS
<1> USE DEF TypeOK, RecordInv, RecordedPayoutIsReal, PayInv, Admitted, PaidEscrowIsSpent, Spent, redis, calls, history
<1>1. CASE UNCHANGED core
  BY <1>1 DEF core
<1>2. ASSUME NEW a \in Admins, AdminApprovals(a) PROVE RecordInv'
  BY <1>2 DEF AdminApprovals
<1>3. ASSUME NEW u \in Users, NEW c \in Calls, NEW e \in Escrows,
             ConfirmRelease(u, c, e)
      PROVE  RecordInv'
  BY <1>3, EdgesOfRelease, EdgesKeep DEF ConfirmRelease, MayRelease, Idle
<1>4. ASSUME NEW a \in Admins, NEW c \in Calls, NEW e \in Escrows,
             AdminApprove(a, c, e)
      PROVE  RecordInv'
  BY <1>4 DEF AdminApprove, Idle
<1>5. ASSUME NEW e \in Escrows, OpenDispute(e) PROVE RecordInv'
  BY <1>5, EdgesOfRelease, EdgesKeep DEF OpenDispute
<1>6. ASSUME NEW e \in Escrows, NEW s \in EscrowStatus,
             WatcherCredits(e, s)
      PROVE  RecordInv'
  BY <1>6, EdgesOfRelease, EdgesKeep DEF WatcherCredits, Recorded
<1>7. ASSUME NEW e \in Escrows, NEW s \in EscrowStatus,
             BackOffice(e, s)
      PROVE  RecordInv'
  BY <1>7, BackOfficeEdge, EdgesOfRelease, EdgesKeep DEF BackOffice
<1>8. ASSUME NEW c \in Calls, NEW e \in Escrows, Resubmit(c, e) PROVE RecordInv'
  BY <1>8 DEF Resubmit, Idle
<1>9. ASSUME NEW c \in Calls, BotApprove(c) PROVE RecordInv'
  BY <1>9, EdgesOfRelease, EdgesKeep DEF BotApprove, ValidTransitions
<1>10. ASSUME NEW c \in Calls, BotTimeout(c) \/ BotStops(c) PROVE RecordInv'
  BY <1>10 DEF BotTimeout, BotStops
<1>11. ASSUME NEW c \in Calls, BotRecord(c) PROVE RecordInv'
  BY <1>11, EdgesOfRelease, EdgesKeep DEF BotRecord, ValidTransitions
<1>12. ASSUME NEW c \in Calls, SignerCheck(c) \/ SignerLimits(c) PROVE RecordInv'
  BY <1>12 DEF SignerCheck, SignerLimits, Answer
<1>13. ASSUME NEW c \in Calls, SignerLock(c) PROVE RecordInv'
  BY <1>13, EdgesOfRelease, EdgesKeep DEF SignerLock, Answer
<1>14. ASSUME NEW c \in Calls, SignerSend(c) PROVE RecordInv'
  BY <1>14 DEF SignerSend
<1>15. ASSUME NEW c \in Calls, SignerRecord(c) PROVE RecordInv'
  <2>1. /\ escrowOf[c] \in Escrows
        /\ paid[escrowOf[c]] = 1
        /\ UNCHANGED <<paid, escrowOf>>
    BY <1>15 DEF SignerRecord
  <2>2. CASE ValidTransition(status[escrowOf[c]], "PAYOUT_SENT")
    <3>1. /\ payoutTx' = [payoutTx EXCEPT ![escrowOf[c]] = TRUE]
          /\ status' = [status EXCEPT ![escrowOf[c]] = "PAYOUT_SENT"]
          /\ \A d \in Calls : bot'[d] = "record" => bot[d] = "record" \/ d = c
      BY <1>15, <2>2 DEF SignerRecord, Answer
    <3> QED
      BY <2>1, <3>1
  <2>3. CASE ~ValidTransition(status[escrowOf[c]], "PAYOUT_SENT")
    <3>1. /\ \A e \in Escrows : payoutTx'[e] = payoutTx[e]
          /\ status' = status
          /\ \A d \in Calls : bot'[d] = "record" => bot[d] = "record"
      BY <1>15, <2>3 DEF SignerRecord, Answer
    <3> QED
      BY <2>1, <3>1
  <2> QED
    BY <2>2, <2>3
<1>16. ASSUME NEW c \in Calls, SignerStops(c) PROVE RecordInv'
  BY <1>16 DEF SignerStops, Answer
<1> QED
  BY StepCases, <1>1, <1>2, <1>3, <1>4, <1>5, <1>6, <1>7, <1>8, <1>9,
     <1>10, <1>11, <1>12, <1>13, <1>14, <1>15, <1>16
     DEF BotStep, SignerStep

\* A dispute row is inserted once.
LEMMA DisputeStep == TypeOK /\ DisputeInv /\ [Next]_vars => DisputeInv'
<1> SUFFICES ASSUME TypeOK, DisputeInv, [Next]_vars
             PROVE  DisputeInv'
  OBVIOUS
<1> USE DEF TypeOK, DisputeInv, OneDispute, Undisputed, redis, calls, history
<1>1. CASE UNCHANGED core
  BY <1>1 DEF core
<1>2. ASSUME NEW a \in Admins, AdminApprovals(a) PROVE DisputeInv'
  BY <1>2 DEF AdminApprovals
<1>3. ASSUME NEW u \in Users, NEW c \in Calls, NEW e \in Escrows,
             ConfirmRelease(u, c, e)
      PROVE  DisputeInv'
  BY <1>3, EdgesOfRelease, EdgesKeep DEF ConfirmRelease, MayRelease, Idle
<1>4. ASSUME NEW a \in Admins, NEW c \in Calls, NEW e \in Escrows,
             AdminApprove(a, c, e)
      PROVE  DisputeInv'
  BY <1>4 DEF AdminApprove, Idle
<1>5. ASSUME NEW e \in Escrows, OpenDispute(e) PROVE DisputeInv'
  BY <1>5, EdgesOfRelease, EdgesKeep DEF OpenDispute
<1>6. ASSUME NEW e \in Escrows, NEW s \in EscrowStatus,
             WatcherCredits(e, s)
      PROVE  DisputeInv'
  BY <1>6, EdgesOfRelease, EdgesKeep DEF WatcherCredits, Recorded
<1>7. ASSUME NEW e \in Escrows, NEW s \in EscrowStatus,
             BackOffice(e, s)
      PROVE  DisputeInv'
  BY <1>7, BackOfficeEdge, EdgesOfRelease, EdgesKeep DEF BackOffice
<1>8. ASSUME NEW c \in Calls, NEW e \in Escrows, Resubmit(c, e) PROVE DisputeInv'
  BY <1>8 DEF Resubmit, Idle
<1>9. ASSUME NEW c \in Calls, BotApprove(c) PROVE DisputeInv'
  BY <1>9, EdgesOfRelease, EdgesKeep DEF BotApprove, ValidTransitions
<1>10. ASSUME NEW c \in Calls, BotTimeout(c) \/ BotStops(c) PROVE DisputeInv'
  BY <1>10 DEF BotTimeout, BotStops
<1>11. ASSUME NEW c \in Calls, BotRecord(c) PROVE DisputeInv'
  BY <1>11, EdgesOfRelease, EdgesKeep DEF BotRecord, ValidTransitions
<1>12. ASSUME NEW c \in Calls, SignerCheck(c) \/ SignerLimits(c) PROVE DisputeInv'
  BY <1>12 DEF SignerCheck, SignerLimits, Answer
<1>13. ASSUME NEW c \in Calls, SignerLock(c) PROVE DisputeInv'
  BY <1>13, EdgesOfRelease, EdgesKeep DEF SignerLock, Answer
<1>14. ASSUME NEW c \in Calls, SignerSend(c) PROVE DisputeInv'
  BY <1>14 DEF SignerSend
<1>15. ASSUME NEW c \in Calls, SignerRecord(c) PROVE DisputeInv'
  BY <1>15, EdgesOfRelease, EdgesKeep DEF SignerRecord, Answer
<1>16. ASSUME NEW c \in Calls, SignerStops(c) PROVE DisputeInv'
  BY <1>16 DEF SignerStops, Answer
<1> QED
  BY StepCases, <1>1, <1>2, <1>3, <1>4, <1>5, <1>6, <1>7, <1>8, <1>9,
     <1>10, <1>11, <1>12, <1>13, <1>14, <1>15, <1>16
     DEF BotStep, SignerStep

\* The signer lets no call on a large escrow past its limits.
LEMMA LargeStep == TypeOK /\ LargeInv /\ [Next]_vars => LargeInv'
<1> SUFFICES ASSUME TypeOK, LargeInv, [Next]_vars
             PROVE  LargeInv'
  OBVIOUS
<1> USE DEF TypeOK, LargeInv, LargeIsNeverPaid, redis, calls, history
<1>1. CASE UNCHANGED core
  BY <1>1 DEF core
<1>2. ASSUME NEW a \in Admins, AdminApprovals(a) PROVE LargeInv'
  BY <1>2 DEF AdminApprovals
<1>3. ASSUME NEW u \in Users, NEW c \in Calls, NEW e \in Escrows,
             ConfirmRelease(u, c, e)
      PROVE  LargeInv'
  BY <1>3 DEF ConfirmRelease, MayRelease, Idle
<1>4. ASSUME NEW a \in Admins, NEW c \in Calls, NEW e \in Escrows,
             AdminApprove(a, c, e)
      PROVE  LargeInv'
  BY <1>4 DEF AdminApprove, Idle
<1>5. ASSUME NEW e \in Escrows, OpenDispute(e) PROVE LargeInv'
  BY <1>5 DEF OpenDispute
<1>6. ASSUME NEW e \in Escrows, NEW s \in EscrowStatus,
             WatcherCredits(e, s)
      PROVE  LargeInv'
  BY <1>6 DEF WatcherCredits, Recorded
<1>7. ASSUME NEW e \in Escrows, NEW s \in EscrowStatus,
             BackOffice(e, s)
      PROVE  LargeInv'
  BY <1>7 DEF BackOffice
<1>8. ASSUME NEW c \in Calls, NEW e \in Escrows, Resubmit(c, e) PROVE LargeInv'
  BY <1>8 DEF Resubmit, Idle
<1>9. ASSUME NEW c \in Calls, BotApprove(c) PROVE LargeInv'
  BY <1>9 DEF BotApprove, ValidTransitions
<1>10. ASSUME NEW c \in Calls, BotTimeout(c) \/ BotStops(c) PROVE LargeInv'
  BY <1>10 DEF BotTimeout, BotStops
<1>11. ASSUME NEW c \in Calls, BotRecord(c) PROVE LargeInv'
  BY <1>11 DEF BotRecord, ValidTransitions
<1>12. ASSUME NEW c \in Calls, SignerCheck(c) \/ SignerLimits(c) PROVE LargeInv'
  BY <1>12 DEF SignerCheck, SignerLimits, Answer, WithinAutoMax
<1>13. ASSUME NEW c \in Calls, SignerLock(c) PROVE LargeInv'
  BY <1>13 DEF SignerLock, Answer
<1>14. ASSUME NEW c \in Calls, SignerSend(c) PROVE LargeInv'
  BY <1>14 DEF SignerSend
<1>15. ASSUME NEW c \in Calls, SignerRecord(c) PROVE LargeInv'
  BY <1>15 DEF SignerRecord, Answer
<1>16. ASSUME NEW c \in Calls, SignerStops(c) PROVE LargeInv'
  BY <1>16 DEF SignerStops, Answer
<1> QED
  BY StepCases, <1>1, <1>2, <1>3, <1>4, <1>5, <1>6, <1>7, <1>8, <1>9,
     <1>10, <1>11, <1>12, <1>13, <1>14, <1>15, <1>16
     DEF BotStep, SignerStep

\* The invariant holds at first: nothing is released, paid or under way.
LEMMA InitInv == Init => IInv
<1> SUFFICES ASSUME Init PROVE IInv
  OBVIOUS
<1>1. TypeOK
  BY InitType
<1>2. PayInv /\ ReleaseInv
  BY <1>1 DEF Init, TypeOK, PayInv, ReleaseInv, PaidAtMostOnce, Admitted,
              PaidEscrowIsSpent, ReleasedOnly
<1>3. RecordInv /\ DisputeInv /\ LargeInv
  BY <1>1, CallerAssumption
     DEF Init, TypeOK, RecordInv, RecordedPayoutIsReal, DisputeInv, OneDispute,
         LargeInv, LargeIsNeverPaid
<1> QED
  BY <1>1, <1>2, <1>3 DEF IInv

\* IInv is an invariant: it holds at first and every step keeps each part.
THEOREM Invariance == Spec => []IInv
<1>1. IInv /\ [Next]_vars => IInv'
  BY StepType, PayStep, ReleaseStep, RecordStep, DisputeStep, LargeStep
     DEF IInv
<1> QED
  BY InitInv, <1>1, PTL DEF Spec

-----------------------------------------------------------------------------
(* The properties of Payout.                                               *)

\* Every variable stays in its type.
THEOREM TypeCorrectness == Spec => []TypeOK
<1>1. IInv => TypeOK
  BY DEF IInv
<1> QED
  BY Invariance, <1>1, PTL

\* The funds of an escrow leave at most once, with any number of approvals,
\* resubmitted requests, crashes and repairs.
THEOREM AtMostOnePayout == Spec => []PaidAtMostOnce
<1>1. IInv => PaidAtMostOnce
  BY DEF IInv, PayInv
<1> QED
  BY Invariance, <1>1, PTL

\* A broadcast payout leaves its row where no call is admitted any more, even
\* when it was never recorded.
THEOREM PaidRowsAreSpent == Spec => []PaidEscrowIsSpent
<1>1. IInv => PaidEscrowIsSpent
  BY DEF IInv, PayInv
<1> QED
  BY Invariance, <1>1, PTL

\* Money leaves only after two taps of the buyer's own.
THEOREM PayoutNeedsBuyer == Spec => []PaidOnlyOnRelease
<1>1. IInv => PaidOnlyOnRelease
  BY DEF IInv, ReleaseInv, Released, PaidOnlyOnRelease
<1> QED
  BY Invariance, <1>1, PTL

\* A recorded payout hash is that of a broadcast.
THEOREM RecordsAreReal == Spec => []RecordedPayoutIsReal
<1>1. IInv => RecordedPayoutIsReal
  BY DEF IInv, RecordInv
<1> QED
  BY Invariance, <1>1, PTL

\* No escrow gets a second dispute row.
THEOREM DisputedOnce == Spec => []OneDispute
<1>1. IInv => OneDispute
  BY DEF IInv, DisputeInv
<1> QED
  BY Invariance, <1>1, PTL

\* The signer never pays a large escrow, not even one an admin approved, although
\* the bot calls its release "submitted for admin approval" (app/main.py:367).
THEOREM LargeStaysUnpaid == Spec => []LargeIsNeverPaid
<1>1. IInv => LargeIsNeverPaid
  BY DEF IInv, LargeInv
<1> QED
  BY Invariance, <1>1, PTL

-----------------------------------------------------------------------------
(* Large escrows, where operators leave approvals to the admins.           *)

\* An operator's edge neither takes an escrow out of a release request to the
\* payout nor out of a dispute.
LEMMA ApprovedByAdmin ==
  ASSUME ApprovalsAreAdmins, NEW s, NEW t, <<s, t>> \in BackOfficeEdges,
         t \in ReleasedOnly \ {"RELEASE_REQUESTED"}
  PROVE  s \in ReleasedOnly \ {"RELEASE_REQUESTED"}
<1>1. ValidTransition(s, t) /\ ~(s = "DISPUTED" /\ t = "RELEASE_APPROVED")
  BY BackOfficeEdge
<1>2. ~(s = "RELEASE_REQUESTED" /\ t = "RELEASE_APPROVED")
  BY DEF ApprovalsAreAdmins
<1> QED
  BY <1>1, <1>2, EdgesOfRelease DEF ReleasedOnly

LEMMA QueueStep ==
  ASSUME ApprovalsAreAdmins
  PROVE  TypeOK /\ QueueInv /\ [Next]_vars => QueueInv'
<1> SUFFICES ASSUME TypeOK, QueueInv, [Next]_vars
             PROVE  QueueInv'
  OBVIOUS
<1> USE CallerAssumption
    DEF TypeOK, QueueInv, ReleasedOnly, redis, calls, history
<1>1. CASE UNCHANGED core
  BY <1>1 DEF core
<1>2. ASSUME NEW a \in Admins, AdminApprovals(a) PROVE QueueInv'
  BY <1>2 DEF AdminApprovals
<1>3. ASSUME NEW u \in Users, NEW c \in Calls, NEW e \in Escrows,
             ConfirmRelease(u, c, e)
      PROVE  QueueInv'
  BY <1>3 DEF ConfirmRelease, ReleasesAlone, Idle
<1>4. ASSUME NEW a \in Admins, NEW c \in Calls, NEW e \in Escrows,
             AdminApprove(a, c, e)
      PROVE  QueueInv'
  BY <1>4 DEF AdminApprove, Idle
<1>5. ASSUME NEW e \in Escrows, OpenDispute(e) PROVE QueueInv'
  BY <1>5 DEF OpenDispute
<1>6. ASSUME NEW e \in Escrows, NEW s \in EscrowStatus,
             WatcherCredits(e, s)
      PROVE  QueueInv'
  BY <1>6 DEF WatcherCredits, Recorded
<1>7. ASSUME NEW e \in Escrows, NEW s \in EscrowStatus,
             BackOffice(e, s)
      PROVE  QueueInv'
  BY <1>7, ApprovedByAdmin DEF BackOffice
<1>8. ASSUME NEW c \in Calls, NEW e \in Escrows, Resubmit(c, e) PROVE QueueInv'
  BY <1>8 DEF Resubmit, Idle
<1>9. ASSUME NEW c \in Calls, BotApprove(c) PROVE QueueInv'
  BY <1>9 DEF BotApprove
<1>10. ASSUME NEW c \in Calls, BotTimeout(c) \/ BotStops(c) PROVE QueueInv'
  BY <1>10 DEF BotTimeout, BotStops
<1>11. ASSUME NEW c \in Calls, BotRecord(c) PROVE QueueInv'
  BY <1>11 DEF BotRecord
<1>12. ASSUME NEW c \in Calls, SignerCheck(c) \/ SignerLimits(c) PROVE QueueInv'
  BY <1>12 DEF SignerCheck, SignerLimits, Answer
<1>13. ASSUME NEW c \in Calls, SignerLock(c) PROVE QueueInv'
  BY <1>13 DEF SignerLock, Answer
<1>14. ASSUME NEW c \in Calls, SignerSend(c) PROVE QueueInv'
  BY <1>14 DEF SignerSend
<1>15. ASSUME NEW c \in Calls, SignerRecord(c) PROVE QueueInv'
  BY <1>15, EdgesOfRelease DEF SignerRecord, Answer
<1>16. ASSUME NEW c \in Calls, SignerStops(c) PROVE QueueInv'
  BY <1>16 DEF SignerStops, Answer
<1> QED
  BY StepCases, <1>1, <1>2, <1>3, <1>4, <1>5, <1>6, <1>7, <1>8, <1>9,
     <1>10, <1>11, <1>12, <1>13, <1>14, <1>15, <1>16
     DEF BotStep, SignerStep

\* Where operators leave approvals to the admins, a large escrow is put up for
\* payout only after the confirmed tap of an admin.
THEOREM LargeNeedsAdmin ==
  ASSUME ApprovalsAreAdmins
  PROVE  Spec => []LargeWaitsForAdmin
<1>1. Init => QueueInv
  BY CallerAssumption DEF Init, QueueInv, ReleasedOnly
<1>2. TypeOK /\ QueueInv /\ [Next]_vars => QueueInv'
  BY QueueStep
<1>3. QueueInv => LargeWaitsForAdmin
  BY DEF QueueInv, LargeWaitsForAdmin, ReleasedOnly
<1> QED
  BY TypeCorrectness, <1>1, <1>2, <1>3, PTL DEF Spec

\* Where operators approve nothing by hand, no money leaves at all: the bot
\* queues what it approves, and the signer turns away what is queued.
THEOREM NothingLeavesUnaided ==
  ASSUME \A edge \in BackOfficeEdges : edge[2] # "RELEASE_APPROVED"
  PROVE  Spec => [](\A e \in Escrows : paid[e] = 0)
<1> DEFINE Unpaid == /\ status \in [Escrows -> EscrowStatus \ {"RELEASE_APPROVED"}]
                     /\ \A c \in Calls : ~Admitted(c)
                     /\ paid = [e \in Escrows |-> 0]
<1>1. Init => Unpaid
  BY DEF Init, EscrowStatus, Admitted
<1>2. TypeOK /\ Unpaid /\ [Next]_vars => Unpaid'
  <2> SUFFICES ASSUME TypeOK, Unpaid, [Next]_vars PROVE Unpaid'
    OBVIOUS
  <2> USE DEF TypeOK, Admitted, redis, calls, history
  <2>1. CASE UNCHANGED core
    BY <2>1 DEF core
  <2>2. ASSUME NEW a \in Admins, AdminApprovals(a) PROVE Unpaid'
    BY <2>2 DEF AdminApprovals
  <2>3. ASSUME NEW u \in Users, NEW c \in Calls, NEW e \in Escrows,
               ConfirmRelease(u, c, e)
        PROVE  Unpaid'
    BY <2>3, EdgesAreTyped DEF ConfirmRelease
  <2>4. ASSUME NEW a \in Admins, NEW c \in Calls, NEW e \in Escrows,
               AdminApprove(a, c, e)
        PROVE  Unpaid'
    BY <2>4 DEF AdminApprove
  <2>5. ASSUME NEW e \in Escrows, OpenDispute(e) PROVE Unpaid'
    BY <2>5, EdgesAreTyped DEF OpenDispute
  <2>6. ASSUME NEW e \in Escrows, NEW s \in EscrowStatus,
               WatcherCredits(e, s)
        PROVE  Unpaid'
    BY <2>6 DEF WatcherCredits, Recorded
  <2>7. ASSUME NEW e \in Escrows, NEW s \in EscrowStatus, BackOffice(e, s)
        PROVE  Unpaid'
    <3>1. <<status[e], s>>[2] # "RELEASE_APPROVED"
      BY <2>7 DEF BackOffice
    <3> QED
      BY <2>7, <3>1 DEF BackOffice
  <2>8. ASSUME NEW c \in Calls, NEW e \in Escrows, Resubmit(c, e) PROVE Unpaid'
    BY <2>8 DEF Resubmit
  <2>9. ASSUME NEW c \in Calls, BotApprove(c) PROVE Unpaid'
    BY <2>9, EdgesAreTyped DEF BotApprove, ValidTransitions
  <2>10. ASSUME NEW c \in Calls, BotTimeout(c) \/ BotStops(c) PROVE Unpaid'
    BY <2>10 DEF BotTimeout, BotStops
  <2>11. ASSUME NEW c \in Calls, BotRecord(c) PROVE Unpaid'
    BY <2>11, EdgesAreTyped DEF BotRecord, ValidTransitions
  <2>12. ASSUME NEW c \in Calls, SignerCheck(c) \/ SignerLimits(c) PROVE Unpaid'
    BY <2>12 DEF SignerCheck, SignerLimits, Answer
  <2>13. ASSUME NEW c \in Calls, SignerLock(c) PROVE Unpaid'
    <3>1. ~ValidTransition(status[escrowOf[c]], "PAYOUT_QUEUED")
      BY EdgesOfRelease
    <3> QED
      BY <2>13, <3>1 DEF SignerLock, Answer
  <2>14. ASSUME NEW c \in Calls, SignerSend(c) \/ SignerRecord(c) PROVE FALSE
    BY <2>14 DEF SignerSend, SignerRecord
  <2>15. ASSUME NEW c \in Calls, SignerStops(c) PROVE Unpaid'
    BY <2>15 DEF SignerStops, Answer
  <2> QED
    BY StepCases, <2>1, <2>2, <2>3, <2>4, <2>5, <2>6, <2>7, <2>8, <2>9, <2>10,
       <2>11, <2>12, <2>13, <2>14, <2>15
       DEF BotStep, SignerStep
<1>3. Unpaid => \A e \in Escrows : paid[e] = 0
  OBVIOUS
<1> QED
  BY TypeCorrectness, <1>1, <1>2, <1>3, PTL DEF Spec

-----------------------------------------------------------------------------
(* Payout implements Custody.                                              *)

\* A step that moves one row, releases nothing and pays nothing, and does not
\* take a row out of Held, funds the escrow of the row or does not show.
LEMMA MoveMaps ==
  ASSUME TypeOK, NEW e \in Escrows, NEW t \in EscrowStatus,
         status' = [status EXCEPT ![e] = t],
         status[e] \in Held => t \in Held,
         UNCHANGED <<releasedBy, paid>>
  PROVE  [Service!Next]_(Service!vars)
<1> USE DEF TypeOK, custodyOf
<1>1. CASE releasedBy[e] = Nobody /\ status[e] \notin Held /\ t \in Held
  <2>1. /\ custodyOf[e] = "unfunded"
        /\ custodyOf' = [custodyOf EXCEPT ![e] = "held"]
        /\ UNCHANGED paid
    BY <1>1
  <2> QED
    BY <2>1 DEF Service!Next, Service!Fund
<1>2. CASE releasedBy[e] # Nobody \/ (status[e] \in Held <=> t \in Held)
  <2>1. UNCHANGED <<custodyOf, paid>>
    BY <1>2
  <2> QED
    BY <2>1 DEF Service!vars
<1> QED
  BY <1>1, <1>2

\* A step that changes none of status, releasedBy and paid does not show.
LEMMA StutterMaps ==
  ASSUME UNCHANGED <<status, releasedBy, paid>>
  PROVE  [Service!Next]_(Service!vars)
BY DEF custodyOf, Service!vars

\* Every step of Payout is a step of Custody or does not show there.
LEMMA StepMaps == IInv /\ [Next]_vars => [Service!Next]_(Service!vars)
<1> SUFFICES ASSUME IInv, [Next]_vars PROVE [Service!Next]_(Service!vars)
  OBVIOUS
<1> USE DEF IInv, TypeOK, redis, calls, history
<1>1. CASE UNCHANGED core
  BY <1>1, StutterMaps DEF core
<1>2. ASSUME NEW a \in Admins, AdminApprovals(a)
      PROVE  [Service!Next]_(Service!vars)
  BY <1>2, StutterMaps DEF AdminApprovals
<1>3. ASSUME NEW u \in Users, NEW c \in Calls, NEW e \in Escrows,
             ConfirmRelease(u, c, e)
      PROVE  [Service!Next]_(Service!vars)
  <2>1. /\ status[e] = "FUNDS_LOCKED"
        /\ status' = [status EXCEPT ![e] = "RELEASE_REQUESTED"]
        /\ releasedBy' = [releasedBy EXCEPT ![e] = u]
        /\ u # Nobody
        /\ UNCHANGED paid
    BY <1>3, EdgesOfRelease, NobodyAssumption DEF ConfirmRelease
  <2>2. CASE releasedBy[e] = Nobody
    <3>1. /\ custodyOf[e] = "held"
          /\ custodyOf' = [custodyOf EXCEPT ![e] = "authorised"]
      BY <2>1, <2>2 DEF custodyOf, Held
    <3> QED
      BY <2>1, <3>1 DEF Service!Next, Service!Authorise
  <2>3. CASE releasedBy[e] # Nobody
    <3>1. UNCHANGED <<custodyOf, paid>>
      BY <2>1, <2>3 DEF custodyOf
    <3> QED
      BY <3>1 DEF Service!vars
  <2> QED
    BY <2>2, <2>3
<1>4. ASSUME NEW a \in Admins, NEW c \in Calls, NEW e \in Escrows,
             AdminApprove(a, c, e)
      PROVE  [Service!Next]_(Service!vars)
  BY <1>4, StutterMaps DEF AdminApprove
<1>5. ASSUME NEW e \in Escrows, OpenDispute(e)
      PROVE  [Service!Next]_(Service!vars)
  <2>1. "DISPUTED" \in EscrowStatus /\ "DISPUTED" \in Held
    BY DEF EscrowStatus, Held
  <2> QED
    BY <1>5, <2>1, MoveMaps DEF OpenDispute
<1>6. ASSUME NEW e \in Escrows, NEW s \in EscrowStatus, WatcherCredits(e, s)
      PROVE  [Service!Next]_(Service!vars)
  BY <1>6, MoveMaps, EdgesKeep DEF WatcherCredits, Recorded
<1>7. ASSUME NEW e \in Escrows, NEW s \in EscrowStatus, BackOffice(e, s)
      PROVE  [Service!Next]_(Service!vars)
  BY <1>7, MoveMaps, BackOfficeEdge, EdgesKeep DEF BackOffice
<1>8. ASSUME NEW c \in Calls, NEW e \in Escrows, Resubmit(c, e)
      PROVE  [Service!Next]_(Service!vars)
  BY <1>8, StutterMaps DEF Resubmit
<1>9. ASSUME NEW c \in Calls, BotApprove(c)
      PROVE  [Service!Next]_(Service!vars)
  <2>1. "PAYOUT_QUEUED" \in EscrowStatus /\ "PAYOUT_QUEUED" \in Held
    BY DEF EscrowStatus, Held
  <2>2. CASE UNCHANGED status
    BY <1>9, <2>2, StutterMaps DEF BotApprove
  <2>3. CASE status' = [status EXCEPT ![escrowOf[c]] = "PAYOUT_QUEUED"]
    BY <1>9, <2>1, <2>3, MoveMaps DEF BotApprove
  <2> QED
    BY <1>9, <2>2, <2>3 DEF BotApprove
<1>10. ASSUME NEW c \in Calls, BotTimeout(c) \/ BotStops(c)
       PROVE  [Service!Next]_(Service!vars)
  BY <1>10, StutterMaps DEF BotTimeout, BotStops
<1>11. ASSUME NEW c \in Calls, BotRecord(c)
       PROVE  [Service!Next]_(Service!vars)
  <2>1. "COMPLETED" \in EscrowStatus /\ "COMPLETED" \in Held
    BY DEF EscrowStatus, Held
  <2>2. CASE UNCHANGED status
    BY <1>11, <2>2, StutterMaps DEF BotRecord
  <2>3. CASE status' = [status EXCEPT ![escrowOf[c]] = "COMPLETED"]
    BY <1>11, <2>1, <2>3, MoveMaps DEF BotRecord
  <2> QED
    BY <1>11, <2>2, <2>3 DEF BotRecord
<1>12. ASSUME NEW c \in Calls, SignerCheck(c) \/ SignerLimits(c)
       PROVE  [Service!Next]_(Service!vars)
  BY <1>12, StutterMaps DEF SignerCheck, SignerLimits
<1>13. ASSUME NEW c \in Calls, SignerLock(c)
       PROVE  [Service!Next]_(Service!vars)
  <2>1. "PAYOUT_QUEUED" \in EscrowStatus /\ "PAYOUT_QUEUED" \in Held
    BY DEF EscrowStatus, Held
  <2>2. CASE UNCHANGED status
    BY <1>13, <2>2, StutterMaps DEF SignerLock
  <2>3. CASE status' = [status EXCEPT ![escrowOf[c]] = "PAYOUT_QUEUED"]
    BY <1>13, <2>1, <2>3, MoveMaps DEF SignerLock
  <2> QED
    BY <1>13, <2>2, <2>3 DEF SignerLock
<1>14. ASSUME NEW c \in Calls, SignerSend(c)
       PROVE  [Service!Next]_(Service!vars)
  <2>1. /\ escrowOf[c] \in Escrows
        /\ paid[escrowOf[c]] = 0
        /\ paid' = [paid EXCEPT ![escrowOf[c]] = 1]
        /\ UNCHANGED <<status, releasedBy>>
    <3>1. signer[c] = "send" /\ escrowOf[c] \in Escrows
      BY <1>14 DEF SignerSend
    <3>2. paid[escrowOf[c]] = 0
      BY <3>1 DEF PayInv
    <3>3. paid[escrowOf[c]] + 1 = 1
      BY <3>2
    <3> QED
      BY <1>14, <3>1, <3>2, <3>3 DEF SignerSend
  <2>2. releasedBy[escrowOf[c]] # Nobody
    <3>1. Admitted(c) /\ escrowOf[c] \in Escrows
      BY <1>14 DEF SignerSend, Admitted
    <3>2. releasedBy[escrowOf[c]] = Buyer[escrowOf[c]]
      BY <3>1 DEF ReleaseInv, Released
    <3>3. Buyer[escrowOf[c]] \in Users
      BY <3>1, CallerAssumption
    <3> QED
      BY <3>2, <3>3, NobodyAssumption
  <2>3. custodyOf[escrowOf[c]] = "authorised" /\ UNCHANGED custodyOf
    BY <2>1, <2>2 DEF custodyOf
  <2> QED
    BY <2>1, <2>3 DEF Service!Next, Service!Pay
<1>15. ASSUME NEW c \in Calls, SignerRecord(c)
       PROVE  [Service!Next]_(Service!vars)
  <2>1. "PAYOUT_SENT" \in EscrowStatus /\ "PAYOUT_SENT" \in Held
    BY DEF EscrowStatus, Held
  <2>2. CASE UNCHANGED status
    BY <1>15, <2>2, StutterMaps DEF SignerRecord
  <2>3. CASE status' = [status EXCEPT ![escrowOf[c]] = "PAYOUT_SENT"]
    BY <1>15, <2>1, <2>3, MoveMaps DEF SignerRecord
  <2> QED
    BY <1>15, <2>2, <2>3 DEF SignerRecord
<1>16. ASSUME NEW c \in Calls, SignerStops(c)
       PROVE  [Service!Next]_(Service!vars)
  BY <1>16, StutterMaps DEF SignerStops
<1> QED
  BY StepCases, <1>1, <1>2, <1>3, <1>4, <1>5, <1>6, <1>7, <1>8, <1>9, <1>10,
     <1>11, <1>12, <1>13, <1>14, <1>15, <1>16
     DEF BotStep, SignerStep

\* The bot, the signer, the watchers and the operators together implement the
\* abstract service: funded, then authorised by the buyer, then paid out once.
THEOREM Refinement == Spec => ImplementsCustody
<1>1. Init => Service!Init
  BY DEF Init, Service!Init, custodyOf, Held
<1>2. IInv /\ [Next]_vars => [Service!Next]_(Service!vars)
  BY StepMaps
<1> QED
  BY Invariance, <1>1, <1>2, PTL DEF Spec, ImplementsCustody, Service!Spec
=============================================================================
