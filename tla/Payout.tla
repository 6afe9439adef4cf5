------------------------------- MODULE Payout -------------------------------
(***************************************************************************)
(* The release of an escrow: the bot's release, dispute and approval       *)
(* handlers (app/main.py), the signer's POST /payout handler               *)
(* (services/signer/main.py), the Redis keys that make a tap a             *)
(* confirmation, and the escrow row they all lock and write.               *)
(*                                                                         *)
(* A handler is cut where it awaits something outside a transaction: each  *)
(* database transaction, each Redis access that decides a branch and each  *)
(* call to another service is one step.  A call c \in Calls carries one    *)
(* approval: bot[c] is the point approve_and_send_payout has reached, and  *)
(* signer[c] the point handle_payout has reached for the request it sent.  *)
(* Calls bounds how many are under way at once.                            *)
(***************************************************************************)
EXTENDS Naturals, EscrowStates

CONSTANTS
  Escrows,          \* escrow rows
  Users,            \* Telegram users who may tap a release button
  Buyer,            \* Buyer[e]: the buyer_tg_id of e
  Admins,           \* the ids in settings.admin_ids
  Calls,            \* approvals that may be under way at once (bound)
  LargeEscrows,     \* escrows with net_amount > auto_payout_max
  EnvPaused,        \* settings.pause_payouts
  BackOfficeEdges,  \* edges of the table that operators take by hand
  Resubmits,        \* whether operators send POST /payout by hand
  Faults            \* whether handlers may raise and processes crash

ASSUME CallerAssumption ==
  /\ Buyer \in [Escrows -> Users]
  /\ LargeEscrows \subseteq Escrows
  /\ {EnvPaused, Resubmits, Faults} \subseteq BOOLEAN

\* No handler takes these edges, so whoever takes them does so by hand on the
\* row; they neither release nor dispute in a party's place, nor decide a dispute
\* for the seller.
ASSUME BackOfficeAssumption ==
  /\ BackOfficeEdges \subseteq AllowedTransitions
  /\ \A edge \in BackOfficeEdges :
        /\ edge[2] \notin {"RELEASE_REQUESTED", "DISPUTED"}
        /\ edge # <<"DISPUTED", "RELEASE_APPROVED">>

Nobody == "nobody"

ASSUME NobodyAssumption == Nobody \notin Users

VARIABLES
  status,       \* escrows.status
  payoutTx,     \* escrows.payout_tx_hash is set
  disputes,     \* number of rows in disputes, per escrow
  releaseKey,   \* Redis release_confirm:<user>:<escrow> keys
  approveKey,   \* Redis confirm:approve:<admin>:<escrow> keys
  session,      \* Redis admin:<id> keys
  listed,       \* <<a, e>>: a has been sent an Approve button for e
  paused,       \* pause_payouts of the config row
  bot,          \* bot[c]: "off", "approve", "wait" or "record"
  signer,       \* signer[c]: "off", "check", "limits", "lock", "send", "record"
  escrowOf,     \* escrowOf[c]: the escrow of the request of c
  asked,        \* history: <<u, e>>: u tapped Release on e a first time
  releasedBy,   \* history: the user whose confirmation released e
  approved,     \* history: escrows that an admin's confirmed tap approved
  paid          \* the chain: how many payouts of e were broadcast

redis == <<releaseKey, approveKey, session, listed>>
calls == <<bot, signer, escrowOf>>
history == <<asked, releasedBy, approved, paid>>
vars == <<status, payoutTx, disputes, releaseKey, approveKey, session, listed,
          paused, bot, signer, escrowOf, asked, releasedBy, approved, paid>>

BotPoints == {"off", "approve", "wait", "record"}
SignerPoints == {"off", "check", "limits", "lock", "send", "record"}

TypeOK ==
  /\ status \in [Escrows -> EscrowStatus]
  /\ payoutTx \in [Escrows -> BOOLEAN]
  /\ disputes \in [Escrows -> Nat]
  /\ releaseKey \subseteq Users \X Escrows
  /\ approveKey \subseteq Admins \X Escrows
  /\ session \subseteq Admins
  /\ listed \subseteq Admins \X Escrows
  /\ paused \in BOOLEAN
  /\ bot \in [Calls -> BotPoints]
  /\ signer \in [Calls -> SignerPoints]
  /\ escrowOf \in [Calls -> Escrows]
  /\ asked \subseteq Users \X Escrows
  /\ releasedBy \in [Escrows -> Users \cup {Nobody}]
  /\ approved \subseteq Escrows
  /\ paid \in [Escrows -> Nat]

Init ==
  /\ status = [e \in Escrows |-> "AWAITING_DEPOSIT"]
  /\ payoutTx = [e \in Escrows |-> FALSE]
  /\ disputes = [e \in Escrows |-> 0]
  /\ releaseKey = {}
  /\ approveKey = {}
  /\ session = {}
  /\ listed = {}
  /\ paused = FALSE
  /\ bot = [c \in Calls |-> "off"]
  /\ signer = [c \in Calls |-> "off"]
  /\ escrowOf \in [Calls -> Escrows]
  /\ asked = {}
  /\ releasedBy = [e \in Escrows |-> Nobody]
  /\ approved = {}
  /\ paid = [e \in Escrows |-> 0]

Idle(c) == bot[c] = "off" /\ signer[c] = "off"

\* The buyer test of request_release, and a slip that drops it.
AnyoneMayRelease(u, e) == TRUE
MayRelease(u, e) == u = Buyer[e]

\* net_amount <= auto_payout_max, as the bot and as the signer test it, and a
\* slip of the bot that forgets the test.
EveryEscrowIsSmall(e) == TRUE
ReleasesAlone(e) == e \notin LargeEscrows
WithinAutoMax(e) == e \notin LargeEscrows

-----------------------------------------------------------------------------
(* The buyer and the parties: request_release and open_dispute.            *)

\* The first tap: no live release_confirm key, so one is set.
AskRelease(u, e) ==
  /\ <<u, e>> \notin releaseKey
  /\ releaseKey' = releaseKey \cup {<<u, e>>}
  /\ asked' = asked \cup {<<u, e>>}
  /\ UNCHANGED <<status, payoutTx, disputes, approveKey, session, listed,
                 paused, calls, releasedBy, approved, paid>>

\* The key's 120 seconds pass.
ReleaseKeyExpires(u, e) ==
  /\ <<u, e>> \in releaseKey
  /\ releaseKey' = releaseKey \ {<<u, e>>}
  /\ UNCHANGED <<status, payoutTx, disputes, approveKey, session, listed,
                 paused, calls, history>>

\* A tap while the key lives: the buyer's changes the row, and for a small
\* escrow goes on to the payout.  The key is left in place.
ConfirmRelease(u, c, e) ==
  /\ Idle(c)
  /\ <<u, e>> \in releaseKey
  /\ MayRelease(u, e)
  /\ ValidTransition(status[e], "RELEASE_REQUESTED")
  /\ status' = [status EXCEPT ![e] = "RELEASE_REQUESTED"]
  /\ releasedBy' = [releasedBy EXCEPT ![e] = u]
  /\ bot' = IF ReleasesAlone(e) THEN [bot EXCEPT ![c] = "approve"] ELSE bot
  /\ escrowOf' = [escrowOf EXCEPT ![c] = e]
  /\ UNCHANGED <<payoutTx, disputes, redis, paused, signer, asked, approved, paid>>

\* A slip: the early return alone, without the table.
OpenDisputeUnvalidated(e) ==
  /\ status[e] \notin {"CANCELLED", "COMPLETED"}
  /\ status' = [status EXCEPT ![e] = "DISPUTED"]
  /\ disputes' = [disputes EXCEPT ![e] = @ + 1]
  /\ UNCHANGED <<payoutTx, redis, paused, calls, history>>

\* The early return on CANCELLED and COMPLETED is a case of the refusal by
\* the table: neither has an edge to DISPUTED.
OpenDispute(e) ==
  /\ ValidTransition(status[e], "DISPUTED")
  /\ status' = [status EXCEPT ![e] = "DISPUTED"]
  /\ disputes' = [disputes EXCEPT ![e] = @ + 1]
  /\ UNCHANGED <<payoutTx, redis, paused, calls, history>>

-----------------------------------------------------------------------------
(* The admins: the session, the approvals queue and its buttons.           *)

AdminEntry(a) ==
  /\ session' = session \cup {a}
  /\ UNCHANGED <<status, payoutTx, disputes, releaseKey, approveKey, listed,
                 paused, calls, history>>

\* 600 seconds pass.
SessionExpires(a) ==
  /\ a \in session
  /\ session' = session \ {a}
  /\ UNCHANGED <<status, payoutTx, disputes, releaseKey, approveKey, listed,
                 paused, calls, history>>

\* The buttons stay in the admin's chat whatever becomes of the escrows.
AdminApprovals(a) ==
  /\ a \in session
  /\ listed' = listed \cup
                 ({a} \X {e \in Escrows : status[e] = "RELEASE_REQUESTED"})
  /\ UNCHANGED <<status, payoutTx, disputes, releaseKey, approveKey, session,
                 paused, calls, history>>

\* The first tap on an Approve button.
AskApprove(a, e) ==
  /\ a \in session
  /\ <<a, e>> \in listed \ approveKey
  /\ approveKey' = approveKey \cup {<<a, e>>}
  /\ UNCHANGED <<status, payoutTx, disputes, releaseKey, session, listed,
                 paused, calls, history>>

ApproveKeyExpires(a, e) ==
  /\ <<a, e>> \in approveKey
  /\ approveKey' = approveKey \ {<<a, e>>}
  /\ UNCHANGED <<status, payoutTx, disputes, releaseKey, session, listed,
                 paused, calls, history>>

\* A tap while the key lives starts a payout; the key is left in place.
AdminApprove(a, c, e) ==
  /\ Idle(c)
  /\ a \in session
  /\ <<a, e>> \in listed \cap approveKey
  /\ bot' = [bot EXCEPT ![c] = "approve"]
  /\ escrowOf' = [escrowOf EXCEPT ![c] = e]
  /\ approved' = approved \cup {e}
  /\ UNCHANGED <<status, payoutTx, disputes, redis, paused, signer, asked,
                 releasedBy, paid>>

\* The confirmed tap of admin_kill_switch, seen from the payout.
TogglePause(a) ==
  /\ a \in session
  /\ paused' = ~paused
  /\ UNCHANGED <<status, payoutTx, disputes, redis, calls, history>>

-----------------------------------------------------------------------------
(* The bot: approve_and_send_payout.                                       *)

\* The first transaction: both transitions commit together or the handler
\* ends, by its early return or by the table's ValueError.  What follows is
\* the POST, with no row lock held.
BotApprove(c) ==
  LET e == escrowOf[c]
      queued == /\ ~payoutTx[e]
                /\ ValidTransitions(status[e], "RELEASE_APPROVED",
                                    "PAYOUT_QUEUED")
  IN
  /\ bot[c] = "approve"
  /\ bot' = [bot EXCEPT ![c] = IF queued THEN "wait" ELSE "off"]
  /\ signer' = [signer EXCEPT ![c] = IF queued THEN "check" ELSE @]
  /\ status' = IF queued THEN [status EXCEPT ![e] = "PAYOUT_QUEUED"] ELSE status
  /\ UNCHANGED <<payoutTx, disputes, redis, paused, escrowOf, history>>

\* The client's 10 seconds pass; the request stays with the signer.
BotTimeout(c) ==
  /\ bot[c] = "wait"
  /\ bot' = [bot EXCEPT ![c] = "off"]
  /\ UNCHANGED <<status, payoutTx, disputes, redis, paused, signer, escrowOf,
                 history>>

\* The last transaction, after an answer: a refused transition rolls the
\* hash back too.
BotRecord(c) ==
  LET e == escrowOf[c]
      recorded == ValidTransitions(status[e], "PAYOUT_SENT", "COMPLETED")
  IN
  /\ bot[c] = "record"
  /\ bot' = [bot EXCEPT ![c] = "off"]
  /\ payoutTx' = [payoutTx EXCEPT ![e] = @ \/ recorded]
  /\ status' = IF recorded THEN [status EXCEPT ![e] = "COMPLETED"] ELSE status
  /\ UNCHANGED <<disputes, redis, paused, signer, escrowOf, history>>

\* An exception, or a crash of the bot, which ends each of its handlers.
BotStops(c) ==
  /\ Faults
  /\ bot[c] # "off"
  /\ bot' = [bot EXCEPT ![c] = "off"]
  /\ UNCHANGED <<status, payoutTx, disputes, redis, paused, signer, escrowOf,
                 history>>

-----------------------------------------------------------------------------
(* The signer: handle_payout.                                              *)

\* A slip: a bot that does not look at the status of the answer.
AnswerUnchecked(c, succeeded) ==
  /\ succeeded \in BOOLEAN
  /\ signer' = [signer EXCEPT ![c] = "off"]
  /\ bot' = [bot EXCEPT ![c] = IF @ = "wait" THEN "record" ELSE @]

\* The handler answers: a bot still waiting goes on to record the hash, or
\* ends when raise_for_status raises.
Answer(c, succeeded) ==
  /\ signer' = [signer EXCEPT ![c] = "off"]
  /\ bot' = [bot EXCEPT ![c] =
               IF @ # "wait" THEN @ ELSE IF succeeded THEN "record" ELSE "off"]

\* The signature, which the bot's requests and the operators' carry, the chain
\* and the address, then check_kill_switch: the configuration is read in a
\* transaction that ends before the payout.
SignerCheck(c) ==
  /\ signer[c] = "check"
  /\ IF EnvPaused \/ paused
       THEN Answer(c, FALSE)
       ELSE signer' = [signer EXCEPT ![c] = "limits"] /\ UNCHANGED bot
  /\ UNCHANGED <<status, payoutTx, disputes, redis, paused, escrowOf, history>>

\* check_and_track_limits refuses every amount above auto_payout_max.  A
\* request refused by the totals is one of SignerStops.
SignerLimits(c) ==
  /\ signer[c] = "limits"
  /\ IF WithinAutoMax(escrowOf[c])
       THEN signer' = [signer EXCEPT ![c] = "lock"] /\ UNCHANGED bot
       ELSE Answer(c, FALSE)
  /\ UNCHANGED <<status, payoutTx, disputes, redis, paused, escrowOf, history>>

\* The transaction that admits a payout: the status must be one of two, a
\* recorded hash is answered as it is, and the table has the last word.
SignerLock(c) ==
  LET e == escrowOf[c]
      payable == status[e] \in {"RELEASE_APPROVED", "PAYOUT_QUEUED"}
      admitted == /\ payable
                  /\ ~payoutTx[e]
                  /\ ValidTransition(status[e], "PAYOUT_QUEUED")
  IN
  /\ signer[c] = "lock"
  /\ IF admitted
       THEN /\ status' = [status EXCEPT ![e] = "PAYOUT_QUEUED"]
            /\ signer' = [signer EXCEPT ![c] = "send"]
            /\ UNCHANGED bot
       ELSE /\ Answer(c, payable /\ payoutTx[e])
            /\ UNCHANGED status
  /\ UNCHANGED <<payoutTx, disputes, redis, paused, escrowOf, history>>

\* send_tron_usdt or send_bsc_usdt, outside any transaction.
SignerSend(c) ==
  /\ signer[c] = "send"
  /\ paid' = [paid EXCEPT ![escrowOf[c]] = @ + 1]
  /\ signer' = [signer EXCEPT ![c] = "record"]
  /\ UNCHANGED <<status, payoutTx, disputes, redis, paused, bot, escrowOf,
                 asked, releasedBy, approved>>

\* The transaction that records the hash, or rolls back.
SignerRecord(c) ==
  LET e == escrowOf[c]
      recorded == ValidTransition(status[e], "PAYOUT_SENT")
  IN
  /\ signer[c] = "record"
  /\ payoutTx' = [payoutTx EXCEPT ![e] = @ \/ recorded]
  /\ status' = IF recorded THEN [status EXCEPT ![e] = "PAYOUT_SENT"] ELSE status
  /\ Answer(c, recorded)
  /\ UNCHANGED <<disputes, redis, paused, escrowOf, history>>

\* An exception at any point, or a crash of the signer, which ends each of
\* its handlers.  At "send" nothing was broadcast; at "record" the money has
\* left and nothing says so.
SignerStops(c) ==
  /\ Faults
  /\ signer[c] # "off"
  /\ Answer(c, FALSE)
  /\ UNCHANGED <<status, payoutTx, disputes, redis, paused, escrowOf, history>>

-----------------------------------------------------------------------------
(* The other writers of the row.                                           *)

\* update_escrow of a watcher whose scan selected the row before its status
\* moved on: the table decides.
WatcherCredits(e, s) ==
  /\ s \in Recorded
  /\ ValidTransition(status[e], s)
  /\ status' = [status EXCEPT ![e] = s]
  /\ UNCHANGED <<payoutTx, disputes, redis, paused, calls, history>>

\* An operator moves the row by hand.  Before declaring a queued payout
\* failed the operator makes sure that it is: nothing of it on the chain and
\* no call about to put it there.
BackOffice(e, s) ==
  /\ <<status[e], s>> \in BackOfficeEdges
  /\ s = "PAYOUT_FAILED" =>
       /\ paid[e] = 0
       /\ \A c \in Calls :
             escrowOf[c] = e => signer[c] \notin {"send", "record"}
  /\ status' = [status EXCEPT ![e] = s]
  /\ UNCHANGED <<payoutTx, disputes, redis, paused, calls, history>>

\* An operator sends the request again, with the bot's shared secret.
Resubmit(c, e) ==
  /\ Resubmits
  /\ Idle(c)
  /\ signer' = [signer EXCEPT ![c] = "check"]
  /\ escrowOf' = [escrowOf EXCEPT ![c] = e]
  /\ UNCHANGED <<status, payoutTx, disputes, redis, paused, bot, history>>

-----------------------------------------------------------------------------
\* A slip: a client without a timeout.
PatientBotStep(c) == BotApprove(c) \/ BotRecord(c)
BotStep(c) == BotApprove(c) \/ BotTimeout(c) \/ BotRecord(c)

SignerStep(c) ==
  \/ SignerCheck(c)
  \/ SignerLimits(c)
  \/ SignerLock(c)
  \/ SignerSend(c)
  \/ SignerRecord(c)

\* The bot, the signer and whoever uses or operates them.
PayoutNext ==
  \/ \E e \in Escrows :
       \/ \E u \in Users :
            \/ AskRelease(u, e)
            \/ ReleaseKeyExpires(u, e)
            \/ \E c \in Calls : ConfirmRelease(u, c, e)
       \/ OpenDispute(e)
       \/ \E a \in Admins :
            \/ AskApprove(a, e)
            \/ ApproveKeyExpires(a, e)
            \/ \E c \in Calls : AdminApprove(a, c, e)
       \/ \E s \in EscrowStatus : BackOffice(e, s)
       \/ \E c \in Calls : Resubmit(c, e)
  \/ \E a \in Admins :
       \/ AdminEntry(a)
       \/ SessionExpires(a)
       \/ AdminApprovals(a)
       \/ TogglePause(a)
  \/ \E c \in Calls : BotStep(c) \/ BotStops(c) \/ SignerStep(c) \/ SignerStops(c)

Next ==
  \/ PayoutNext
  \/ \E e \in Escrows, s \in EscrowStatus : WatcherCredits(e, s)

Spec == Init /\ [][Next]_vars

\* The event loop runs a ready handler on, and httpx raises when an answer
\* takes more than 10 seconds.  Nothing is assumed of the signer.
BotFairness == \A c \in Calls : WF_vars(BotStep(c))

\* A signer that answers: its handlers run on as well.
SignerFairness == \A c \in Calls : WF_vars(SignerStep(c))

FairSpec == Spec /\ BotFairness
SettledSpec == Spec /\ BotFairness /\ SignerFairness

-----------------------------------------------------------------------------
(* Properties.                                                             *)

\* The funds of an escrow leave at most once, however approvals, retries,
\* crashes and repairs of the row interleave.
PaidAtMostOnce == \A e \in Escrows : paid[e] <= 1

\* The statuses from which no call of the signer is admitted.
Spent == {"PAYOUT_QUEUED", "PAYOUT_SENT", "COMPLETED", "REVIEW"}

\* Once a payout was broadcast, even by a call that died before recording it,
\* the row never again has a status from which the signer pays.
PaidEscrowIsSpent == \A e \in Escrows : paid[e] > 0 => status[e] \in Spent

\* No money leaves an escrow its own buyer did not release with two taps: the
\* one that released it came after another of the buyer's, and another user's
\* first tap is no half of a release.
PaidOnlyOnRelease ==
  \A e \in Escrows :
    paid[e] > 0 => releasedBy[e] = Buyer[e] /\ <<Buyer[e], e>> \in asked

\* A recorded payout hash stands for a broadcast, and only rows whose payout
\* was sent have one: it survives the bot's rolled-back last transaction.
RecordedPayoutIsReal ==
  \A e \in Escrows :
    payoutTx[e] => paid[e] > 0 /\ status[e] \in Spent \ {"PAYOUT_QUEUED"}

\* A disputed escrow has exactly one dispute row, and no escrow gets two,
\* whoever taps and in whatever order.
OneDispute ==
  \A e \in Escrows :
    /\ disputes[e] <= 1
    /\ status[e] = "DISPUTED" => disputes[e] = 1

\* A large escrow is put up for payout only after the confirmed tap of an admin:
\* the buyer's taps alone do not get it there, whatever becomes of the row.
LargeWaitsForAdmin ==
  \A e \in LargeEscrows :
    status[e] \in {"RELEASE_APPROVED", "PAYOUT_QUEUED"} => e \in approved

\* An approval the bot began ends, even when the signer never answers.
CallsEnd == \A c \in Calls : bot[c] # "off" ~> bot[c] = "off"

\* The abstract service: an escrow the buyer released is authorised, and the
\* broadcasts are its outflow.
Held ==
  {"FUNDS_LOCKED", "RELEASE_REQUESTED", "RELEASE_APPROVED", "DISPUTED",
   "OVERPAID_REVIEW", "REVIEW", "COMPLETED", "PAYOUT_QUEUED", "PAYOUT_SENT",
   "PAYOUT_FAILED"}

custodyOf ==
  [e \in Escrows |->
     IF releasedBy[e] # Nobody THEN "authorised"
     ELSE IF status[e] \in Held THEN "held" ELSE "unfunded"]

Service == INSTANCE Custody WITH custody <- custodyOf, outflow <- paid

\* Every behaviour of the bot and the signer is one of the abstract service.
ImplementsCustody == Service!Spec

-----------------------------------------------------------------------------
(* What the repository says and the code does not do.                      *)

\* "Dispute opened. Our team will review." (app/main.py:435): with no admin
\* to act, a disputed escrow is not put up for payout.
DisputeIsReviewed ==
  [][\A e \in Escrows :
       status[e] = "DISPUTED" => status'[e] \in {"DISPUTED", "REVIEW"}]_vars

\* "Approval required" (trustora/limits.py:19) and "Release request submitted
\* for admin approval." (app/main.py:367) promise that a large escrow is paid
\* once an admin approved it.  What holds is the opposite: whoever approves it,
\* and however often operators send the request again, it is not.
LargeIsNeverPaid == \A e \in LargeEscrows : paid[e] = 0

\* The signer "signs & broadcasts payouts" (README.md:9): a queued payout is
\* sent, or declared failed, unless payouts are paused.
QueuedPayoutIsSettled ==
  \A e \in Escrows :
    status[e] = "PAYOUT_QUEUED" ~>
      paused \/ status[e] \in {"PAYOUT_SENT", "COMPLETED", "PAYOUT_FAILED"}
=============================================================================
