---------------------------- MODULE EscrowStates ----------------------------
(***************************************************************************)
(* The escrow state machine of trustora/state_machine.py: the statuses of  *)
(* trustora/enums.py and the table that validate_transition consults       *)
(* before any handler of the bot, the watchers or the signer writes the    *)
(* status column of an escrow row.                                         *)
(***************************************************************************)

EscrowStatus ==
  {"CREATED", "AWAITING_DEPOSIT", "DEPOSIT_SEEN", "FUNDS_LOCKED",
   "RELEASE_REQUESTED", "RELEASE_APPROVED", "PAYOUT_QUEUED", "PAYOUT_SENT",
   "COMPLETED", "DISPUTED", "REVIEW", "CANCELLED", "EXPIRED", "UNDERPAID",
   "OVERPAID_REVIEW", "PAYOUT_FAILED"}

\* ALLOWED_TRANSITIONS, as the set of its edges.
AllowedTransitions ==
  ({"CREATED"} \X {"AWAITING_DEPOSIT", "CANCELLED"})
  \cup ({"AWAITING_DEPOSIT"} \X {"DEPOSIT_SEEN", "EXPIRED", "CANCELLED"})
  \cup ({"DEPOSIT_SEEN"} \X {"FUNDS_LOCKED", "UNDERPAID", "OVERPAID_REVIEW"})
  \cup ({"UNDERPAID"} \X {"AWAITING_DEPOSIT", "CANCELLED"})
  \cup ({"OVERPAID_REVIEW"} \X {"REVIEW"})
  \cup ({"FUNDS_LOCKED"} \X {"RELEASE_REQUESTED", "DISPUTED"})
  \cup ({"RELEASE_REQUESTED"} \X {"RELEASE_APPROVED", "DISPUTED"})
  \cup ({"RELEASE_APPROVED"} \X {"PAYOUT_QUEUED"})
  \cup ({"PAYOUT_QUEUED"} \X {"PAYOUT_SENT", "PAYOUT_FAILED"})
  \cup ({"PAYOUT_SENT"} \X {"COMPLETED"})
  \cup ({"COMPLETED"} \X {"REVIEW"})
  \cup ({"DISPUTED"} \X {"REVIEW", "RELEASE_APPROVED"})
  \cup ({"REVIEW"} \X {"COMPLETED"})
  \cup ({"PAYOUT_FAILED"} \X {"RELEASE_APPROVED"})

\* Two slips one could make in the table: an edge that lets the signer admit
\* what the bot queued, and one that lets a queued payout be disputed.
SelfQueueingTransition(current, target) ==
  <<current, target>> \in
    AllowedTransitions \cup {<<"PAYOUT_QUEUED", "PAYOUT_QUEUED">>}

DisputableQueueTransition(current, target) ==
  <<current, target>> \in
    AllowedTransitions \cup {<<"PAYOUT_QUEUED", "DISPUTED">>}

\* validate_transition(current, target) does not raise.
ValidTransition(current, target) == <<current, target>> \in AllowedTransitions

\* Two transition_escrow calls in one database transaction: both are
\* validated, and a ValueError in either rolls the transaction back.
ValidTransitions(current, middle, target) ==
  ValidTransition(current, middle) /\ ValidTransition(middle, target)

\* What one database transaction may do to a row's status.
Moves ==
  AllowedTransitions \cup
    {move \in EscrowStatus \X EscrowStatus :
       \E m \in EscrowStatus : ValidTransitions(move[1], m, move[2])}

\* The statuses that a recorded deposit gives a row, which the watchers ask for.
Recorded == {"UNDERPAID", "OVERPAID_REVIEW", "FUNDS_LOCKED"}
=============================================================================
