---------------------------- MODULE RoutingProofs ---------------------------
(***************************************************************************)
(* A proof about Routing, for any users, admins and escrows.               *)
(***************************************************************************)
EXTENDS Routing, TLAPS

\* A message is never taken by a handler registered after relay_message, which
\* has no filter.
LEMMA RelayIsLast ==
  ASSUME NEW u \in Users, Handle(u)
  PROVE  UNCHANGED <<reviews, blocked, confirm, fees>>
<1>1. PICK i \in DOMAIN Handlers :
        /\ Filter(Handlers[i], u, inbox[u])
        /\ \A j \in DOMAIN Handlers : Filter(Handlers[j], u, inbox[u]) => i <= j
        /\ Run(Handlers[i], u, inbox[u])
  BY DEF Handle
<1>2. DOMAIN Handlers = 1..8 /\ Handlers[6] = "relay_message"
  BY DEF Handlers
<1>3. Filter(Handlers[6], u, inbox[u])
  BY <1>2 DEF Filter
<1>4. i \in 1..6
  BY <1>1, <1>2, <1>3
<1>5. Handlers[i] \in {"handle_start", "new_escrow", "list_deals", "admin_entry",
                       "escrow_flow", "relay_message"}
  BY <1>4 DEF Handlers
<1> QED
  BY <1>1, <1>5 DEF Run, HandleStart, NewEscrow, ListDeals, AdminEntry, TakeAnswer,
     RelayMessage, keys, rows

\* Nothing that handle_review_message or admin_action_message would write is
\* ever written: there are no reviews, nobody is blocked, no confirmation is
\* asked for and the fees are never changed.
THEOREM HandlersBehindRelay == Spec => []NothingBehindRelay
<1>1. Init => NothingBehindRelay
  BY DEF Init, NothingBehindRelay
<1>2. NothingBehindRelay /\ [Next]_vars => NothingBehindRelay'
  <2> SUFFICES ASSUME NothingBehindRelay, [Next]_vars PROVE NothingBehindRelay'
    OBVIOUS
  <2>1. ASSUME NEW u \in Users, Handle(u) PROVE NothingBehindRelay'
    BY <2>1, RelayIsLast DEF NothingBehindRelay
  <2>2. ASSUME NEW u \in Users, KeyExpires(u) PROVE NothingBehindRelay'
    BY <2>2 DEF KeyExpires, NothingBehindRelay, rows
  <2>3. ASSUME NEW u \in Users,
               \/ \E x \in Texts : Send(u, x)
               \/ \E e \in Escrows : StartReview(u, e) \/ StartChat(u, e)
               \/ \E act \in Actions : AdminSetAction(u, act)
        PROVE  NothingBehindRelay'
    BY <2>3 DEF Send, StartReview, StartChat, AdminSetAction, NothingBehindRelay, keys, rows
  <2>4. ASSUME NEW e \in Escrows, Complete(e) PROVE NothingBehindRelay'
    BY <2>4 DEF Complete, NothingBehindRelay, keys
  <2>5. CASE UNCHANGED vars
    BY <2>5 DEF vars, NothingBehindRelay
  <2> QED
    BY <2>1, <2>2, <2>3, <2>4, <2>5 DEF Next
<1> QED
  BY <1>1, <1>2, PTL DEF Spec
=============================================================================
