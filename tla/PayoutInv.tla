------------------------------ MODULE PayoutInv ------------------------------
(***************************************************************************)
(* The inductive invariant behind the properties of Payout: what they say  *)
(* of the escrow row, strengthened by what must be so at each point of the *)
(* calls under way.  PayoutProofs proves it, MCPayout checks it.           *)
(***************************************************************************)
EXTENDS Payout

\* Statuses from which an escrow may still be disputed for the first time.
Undisputed ==
  {"CREATED", "AWAITING_DEPOSIT", "DEPOSIT_SEEN", "UNDERPAID", "FUNDS_LOCKED",
   "RELEASE_REQUESTED"}

\* Statuses that only a released escrow reaches.
ReleasedOnly ==
  {"RELEASE_REQUESTED", "RELEASE_APPROVED", "PAYOUT_QUEUED", "PAYOUT_SENT",
   "PAYOUT_FAILED"}

\* A call the signer has admitted and that has not ended.
Admitted(c) == signer[c] \in {"send", "record"}

\* One admitted call at a time; it found the escrow unpaid and spent its row.
PayInv ==
  /\ \A c, d \in Calls :
       Admitted(c) /\ Admitted(d) /\ escrowOf[c] = escrowOf[d] => c = d
  /\ \A c \in Calls :
       /\ Admitted(c) => status[escrowOf[c]] \in Spent
       /\ signer[c] = "send" => paid[escrowOf[c]] = 0
       /\ signer[c] = "record" => paid[escrowOf[c]] = 1
  /\ PaidAtMostOnce
  /\ PaidEscrowIsSpent

Released(e) == releasedBy[e] = Buyer[e] /\ <<Buyer[e], e>> \in asked

\* Every trace of an approval goes back to the buyer's confirmation, and that to
\* the buyer's first tap.
ReleaseInv ==
  /\ releaseKey \subseteq asked
  /\ \A e \in Escrows :
       /\ status[e] \in ReleasedOnly => Released(e)
       /\ paid[e] > 0 => Released(e)
  /\ \A pair \in listed : Released(pair[2])
  /\ \A c \in Calls : bot[c] = "approve" \/ Admitted(c) => Released(escrowOf[c])

\* A bot that goes on to record found the hash recorded by the signer.
RecordInv ==
  /\ RecordedPayoutIsReal
  /\ \A c \in Calls : bot[c] = "record" => payoutTx[escrowOf[c]]

DisputeInv ==
  /\ \A e \in Escrows : status[e] \in Undisputed => disputes[e] = 0
  /\ OneDispute

\* No call on a large escrow gets past the signer's limits.
LargeInv ==
  /\ \A c \in Calls :
       signer[c] \in {"lock", "send", "record"} => escrowOf[c] \notin LargeEscrows
  /\ LargeIsNeverPaid

\* A large escrow on its way to a payout, or taken there by a call under way, was
\* approved by an admin: unless operators approve in an admin's place.
QueueInv ==
  /\ \A e \in LargeEscrows :
       status[e] \in ReleasedOnly \ {"RELEASE_REQUESTED"} => e \in approved
  /\ \A c \in Calls :
       bot[c] = "approve" /\ escrowOf[c] \in LargeEscrows => escrowOf[c] \in approved

\* Operators leave approvals to the admins.
ApprovalsAreAdmins == <<"RELEASE_REQUESTED", "RELEASE_APPROVED">> \notin BackOfficeEdges

\* What holds in every reachable state, and is kept by every step.
IInv == TypeOK /\ PayInv /\ ReleaseInv /\ RecordInv /\ DisputeInv /\ LargeInv
=============================================================================
