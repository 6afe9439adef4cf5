------------------------------ MODULE Routing -------------------------------
(***************************************************************************)
(* Which handler takes a message (app/main.py, create_app): aiogram asks   *)
(* the filters in the order in which the handlers were registered, and the *)
(* first whose filter holds runs; what it returns does not send the        *)
(* message on.  Buttons leave keys in Redis that say what the next message *)
(* is about: a chat, a review, or an admin's action.                       *)
(*                                                                         *)
(* The dialogue and the chat are in Opening and Chat: here it matters only *)
(* that they take the message.  One message of a user is handled at a time.*)
(***************************************************************************)
EXTENDS Naturals, Sequences

CONSTANTS
  Users,
  Admins,     \* those of them in settings.admin_ids
  Escrows,
  Parties     \* Parties[e]: buyer and seller of e

None == "none"

\* A message is a button of the menu, the admin command, a well-formed review,
\* a well-formed fee configuration, the id of a user, or other words.
Texts == {"/start", "New Escrow", "My Deals", "secret", "rating", "fee config", "words"}
           \cup Users
Actions == {"search", "block", "fees", "broadcast"}

VARIABLES
  inbox,      \* inbox[u]: the message of u that waits to be handled
  dialogue,   \* users in a state of EscrowFlow
  chat,       \* Redis chat:<u>
  review,     \* Redis review:<u>
  session,    \* Redis admin:<u>
  action,     \* Redis admin_action:<u>
  confirm,    \* Redis confirm:<what>:<u>
  completed,  \* escrows that are COMPLETED
  reviews,    \* the reviews table: escrow and reviewer
  blocked,    \* users with is_blocked
  fees        \* the fees in the config row

vars == <<inbox, dialogue, chat, review, session, action, confirm, completed,
          reviews, blocked, fees>>
keys == <<chat, review, session, action, confirm>>
rows == <<completed, reviews, blocked, fees>>

TypeOK ==
  /\ inbox \in [Users -> Texts \cup {None}]
  /\ dialogue \subseteq Users
  /\ {chat, review} \subseteq [Users -> Escrows \cup {None}]
  /\ session \subseteq Admins
  /\ action \in [Users -> Actions \cup {None}]
  /\ confirm \subseteq Users \X (Users \cup {"fees", "broadcast"})
  /\ completed \subseteq Escrows
  /\ reviews \subseteq Escrows \X Users
  /\ blocked \subseteq Users
  /\ fees \in {"default", "changed"}

Init ==
  /\ inbox = [u \in Users |-> None]
  /\ dialogue = {}
  /\ chat = [u \in Users |-> None]
  /\ review = [u \in Users |-> None]
  /\ session = {}
  /\ action = [u \in Users |-> None]
  /\ confirm = {}
  /\ completed = {}
  /\ reviews = {}
  /\ blocked = {}
  /\ fees = "default"

-----------------------------------------------------------------------------
(* Buttons.                                                                *)

\* A user's updates are handled in the order in which they were sent.
Taps(u) == inbox[u] = None

\* The payout completes an escrow, and prompt_reviews sends its parties the
\* button.
Complete(e) ==
  /\ completed' = completed \cup {e}
  /\ UNCHANGED <<inbox, dialogue, keys, reviews, blocked, fees>>

\* start_review, by one who was sent the button.
StartReview(u, e) ==
  /\ Taps(u)
  /\ u \in Parties[e]
  /\ e \in completed
  /\ review' = [review EXCEPT ![u] = e]
  /\ UNCHANGED <<inbox, dialogue, chat, session, action, confirm, rows>>

StartChat(u, e) ==
  /\ Taps(u)
  /\ u \in Parties[e]
  /\ chat' = [chat EXCEPT ![u] = e]
  /\ UNCHANGED <<inbox, dialogue, review, session, action, confirm, rows>>

\* admin_search, admin_block, admin_fees and admin_broadcast.
AdminSetAction(u, act) ==
  /\ Taps(u)
  /\ u \in session
  /\ action' = [action EXCEPT ![u] = act]
  /\ UNCHANGED <<inbox, dialogue, chat, review, session, confirm, rows>>

\* Keys live ten minutes, confirmations two.
KeyExpires(u) ==
  /\ \/ chat' = [chat EXCEPT ![u] = None] /\ UNCHANGED <<review, session, action, confirm>>
     \/ review' = [review EXCEPT ![u] = None] /\ UNCHANGED <<chat, session, action, confirm>>
     \/ session' = session \ {u} /\ UNCHANGED <<chat, review, action, confirm>>
     \/ action' = [action EXCEPT ![u] = None] /\ UNCHANGED <<chat, review, session, confirm>>
     \/ \E c \in confirm : confirm' = confirm \ {c} /\ UNCHANGED <<chat, review, session, action>>
  /\ UNCHANGED <<inbox, dialogue, rows>>

Send(u, x) ==
  /\ inbox[u] = None
  /\ inbox' = [inbox EXCEPT ![u] = x]
  /\ UNCHANGED <<dialogue, keys, rows>>

-----------------------------------------------------------------------------
(* What each handler does with the message x of u.                         *)

HandleStart(u, x) ==
  /\ dialogue' = IF u \in blocked THEN dialogue ELSE dialogue \ {u}
  /\ UNCHANGED <<keys, rows>>

NewEscrow(u, x) ==
  /\ dialogue' = IF u \in blocked THEN dialogue ELSE dialogue \cup {u}
  /\ UNCHANGED <<keys, rows>>

\* list_deals, and the menu's other buttons, only answer.
ListDeals(u, x) == UNCHANGED <<dialogue, keys, rows>>

AdminEntry(u, x) ==
  /\ session' = IF u \in Admins THEN session \cup {u} ELSE session
  /\ UNCHANGED <<dialogue, chat, review, action, confirm, rows>>

\* The five handlers of EscrowFlow, the last of which ends the dialogue.
TakeAnswer(u, x) ==
  /\ dialogue' \in {dialogue, dialogue \ {u}}
  /\ UNCHANGED <<keys, rows>>

\* Without a chat it returns.
RelayMessage(u, x) == UNCHANGED <<dialogue, keys, rows>>

\* The first message leaves a confirmation key, one that finds it acts.
Confirmed(u, what, act) ==
  IF <<u, what>> \in confirm
    THEN act /\ UNCHANGED confirm
    ELSE confirm' = confirm \cup {<<u, what>>} /\ UNCHANGED <<blocked, fees>>

ToggleBlock(v) ==
  /\ blocked' = (blocked \ {v}) \cup ({v} \ blocked)
  /\ UNCHANGED fees

HandleAdminSearch(u, x) == UNCHANGED <<confirm, blocked, fees>>

\* "Enter numeric user ID.", or the id.
HandleAdminBlock(u, x) ==
  \/ x \in Users /\ Confirmed(u, x, ToggleBlock(x))
  \/ x \notin Users /\ UNCHANGED <<confirm, blocked, fees>>

\* "Format: flat,percent,threshold", or a configuration.
HandleAdminFees(u, x) ==
  \/ x = "fee config" /\ Confirmed(u, "fees", fees' = "changed" /\ UNCHANGED blocked)
  \/ x # "fee config" /\ UNCHANGED <<confirm, blocked, fees>>

\* Confirmed or not, what it broadcasts is stored nowhere.
HandleAdminBroadcast(u, x) == Confirmed(u, "broadcast", UNCHANGED <<blocked, fees>>)

\* admin_action_message: the key is gone before the action is confirmed.
AdminActionMessage(u, x) ==
  /\ IF action[u] = None \/ u \notin Admins
       THEN UNCHANGED <<action, confirm, blocked, fees>>
       ELSE /\ action' = [action EXCEPT ![u] = None]
            /\ \/ action[u] = "search" /\ HandleAdminSearch(u, x)
               \/ action[u] = "block" /\ HandleAdminBlock(u, x)
               \/ action[u] = "fees" /\ HandleAdminFees(u, x)
               \/ action[u] = "broadcast" /\ HandleAdminBroadcast(u, x)
  /\ UNCHANGED <<dialogue, chat, review, session, completed, reviews>>

\* handle_review_message: one review of an escrow for each reviewer.
HandleReviewMessage(u, x) ==
  LET e == review[u]
  IN
  /\ review' = [review EXCEPT ![u] = None]
  /\ reviews' = IF e # None /\ x = "rating" THEN reviews \cup {<<e, u>>} ELSE reviews
  /\ UNCHANGED <<dialogue, chat, session, action, confirm, completed, blocked, fees>>

-----------------------------------------------------------------------------
\* create_app's registrations of message handlers, in order.
Handlers ==
  <<"handle_start", "new_escrow", "list_deals", "admin_entry", "escrow_flow",
    "relay_message", "admin_action_message", "handle_review_message">>

\* Their filters; the last three have none.
Filter(h, u, x) ==
  CASE h = "handle_start" -> x = "/start"
    [] h = "new_escrow" -> x = "New Escrow"
    [] h = "list_deals" -> x = "My Deals"
    [] h = "admin_entry" -> x = "secret"
    [] h = "escrow_flow" -> u \in dialogue
    [] OTHER -> TRUE

Run(h, u, x) ==
  \/ h = "handle_start" /\ HandleStart(u, x)
  \/ h = "new_escrow" /\ NewEscrow(u, x)
  \/ h = "list_deals" /\ ListDeals(u, x)
  \/ h = "admin_entry" /\ AdminEntry(u, x)
  \/ h = "escrow_flow" /\ TakeAnswer(u, x)
  \/ h = "relay_message" /\ RelayMessage(u, x)
  \/ h = "admin_action_message" /\ AdminActionMessage(u, x)
  \/ h = "handle_review_message" /\ HandleReviewMessage(u, x)

\* The first handler whose filter holds takes the message.
Handle(u) ==
  LET x == inbox[u]
      takers == {i \in DOMAIN Handlers : Filter(Handlers[i], u, x)}
  IN
  /\ x # None
  /\ \E i \in takers : (\A j \in takers : i <= j) /\ Run(Handlers[i], u, x)
  /\ inbox' = [inbox EXCEPT ![u] = None]

Next ==
  \/ \E u \in Users :
       \/ \E x \in Texts : Send(u, x)
       \/ Handle(u)
       \/ KeyExpires(u)
       \/ \E e \in Escrows : StartReview(u, e) \/ StartChat(u, e)
       \/ \E act \in Actions : AdminSetAction(u, act)
  \/ \E e \in Escrows : Complete(e)

Spec == Init /\ [][Next]_vars

-----------------------------------------------------------------------------
(* Properties.                                                             *)

\* "Send rating (1-5) and comment" (app/main.py:461): the rating of a user who
\* was asked for it, and is in no dialogue, chat or admin action, is taken.
ReviewIsTaken ==
  [][\A u \in Users :
       /\ inbox[u] = "rating" /\ inbox'[u] = None
       /\ review[u] # None
       /\ u \notin dialogue /\ chat[u] = None /\ action[u] = None
       => <<review[u], u>> \in reviews']_vars

\* What the code does: relay_message has no filter, so that nothing that the
\* handlers registered after it would write is ever written.
NothingBehindRelay == reviews = {} /\ blocked = {} /\ confirm = {} /\ fees = "default"
=============================================================================
