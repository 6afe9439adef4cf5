-------------------------- MODULE MCEscrowService ---------------------------
(***************************************************************************)
(* The small instance of EscrowService that TLC checks.                    *)
(***************************************************************************)
EXTENDS EscrowService

CONSTANTS e1, e2, t1, t2, buyer

MCBuyer == [e \in Escrows |-> buyer]

\* The two rows share an address.
MCAddress == [e \in Escrows |-> "a"]
MCExpected == [e \in Escrows |-> 1000]
MCTo == [t \in Transfers |-> "a"]

\* One transaction sends it twice: what is expected, and less.
MCTxOf == [t \in Transfers |-> "x1"]
MCSent == [t \in Transfers |-> IF t = t1 THEN 1000 ELSE 990]

\* Operators put a deposit through, repair a payout, and put a dispute up for
\* review.
MCEdges ==
  {<<"AWAITING_DEPOSIT", "DEPOSIT_SEEN">>, <<"PAYOUT_QUEUED", "PAYOUT_FAILED">>,
   <<"PAYOUT_FAILED", "RELEASE_APPROVED">>, <<"DISPUTED", "REVIEW">>}

\* The state but for what an ended call and an ended scan leave behind, which no
\* later step reads.
LiveState ==
  <<status, payoutTx, disputes, redis, paused, bot, signer, history,
    [c \in Calls |-> IF Idle(c) THEN CHOOSE e \in Escrows : TRUE ELSE escrowOf[c]],
    depositTx, received, height, minedAt, cursor, scan, todo,
    IF scan = "asleep" THEN <<>> ELSE <<latest, from>>,
    IF scan \in {"fetch", "record"} THEN selected ELSE {}>>
=============================================================================
