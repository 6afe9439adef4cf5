-------------------------------- MODULE Chat --------------------------------
(***************************************************************************)
(* The chat of a deal room: start_chat and relay_message in the bot        *)
(* (app/main.py), the admins' freeze of a disputed room, and the Redis     *)
(* counter that limits what a user relays in a minute.  relay_message is   *)
(* cut at its awaits: it looks at the room, counts, gives a new counter    *)
(* its life, relays, and stores what it relayed.                           *)
(***************************************************************************)
EXTENDS Naturals, FiniteSets

CONSTANTS
  Escrows,      \* deal rooms
  Parties,      \* buyers and sellers, who are shown the Chat button
  Admins,       \* the ids in settings.admin_ids
  Tasks,        \* messages that may be handled at once
  Limit,        \* messages per user and room in 60 seconds (10 in the code)
  MaxMessages,  \* messages handled in all (bound)
  Faults        \* whether handlers raise and the bot crashes

ASSUME ChatAssumption ==
  /\ IsFiniteSet(Tasks)
  /\ Limit \in Nat \ {0}
  /\ MaxMessages \in Nat
  /\ Faults \in BOOLEAN

NoRoom == "no room"

ASSUME NoRoomAssumption == NoRoom \notin Escrows

Keys == Escrows \X Parties

VARIABLES
  dispute,    \* dispute[e]: "none", "open" while the row is DISPUTED, "over"
  frozen,     \* escrows.chat_frozen
  room,       \* Redis chat:<user>
  count,      \* Redis chat_rate:<escrow>:<user>, 0 when absent
  mortal,     \* the chat_rate keys with a time to live
  session,    \* Redis admin:<admin> keys
  freezeKey,  \* Redis confirm:freeze:<admin>:<escrow> keys
  at,         \* at[t]: the point the handler has reached
  msg,        \* msg[t]: its sender, its room, its kind, and whether it saw
              \* the row DISPUTED
  handled,    \* messages handled so far
  relayed,    \* history: messages sent to the other party, per room
  stored,     \* rows in messages, per room
  evidence,   \* those of them that are photos
  lost,       \* history: messages relayed whose handler failed before the row
  looked,     \* history: photos looked at while the row was DISPUTED
  orphaned    \* history: keys whose first counter stopped before giving
              \* them a life

keys == <<room, count, mortal, session, freezeKey>>
traffic == <<relayed, stored, evidence, lost, looked, orphaned>>
vars == <<dispute, frozen, room, count, mortal, session, freezeKey, at, msg,
          handled, relayed, stored, evidence, lost, looked, orphaned>>

Kinds == {"text", "photo"}
Message ==
  [from : Parties, to : Escrows \cup {NoRoom}, kind : Kinds, disputed : BOOLEAN]

TypeOK ==
  /\ dispute \in [Escrows -> {"none", "open", "over"}]
  /\ frozen \in [Escrows -> BOOLEAN]
  /\ room \in [Parties -> Escrows \cup {NoRoom}]
  /\ count \in [Keys -> Nat]
  /\ mortal \subseteq Keys
  /\ session \subseteq Admins
  /\ freezeKey \subseteq Admins \X Escrows
  /\ at \in [Tasks -> {"idle", "count", "expire", "relay", "store"}]
  /\ msg \in [Tasks -> Message]
  /\ \A t \in Tasks : at[t] # "idle" => msg[t].to \in Escrows
  /\ handled \in Nat
  /\ {relayed, stored, evidence, lost, looked} \subseteq [Escrows -> Nat]
  /\ orphaned \subseteq Keys

Init ==
  /\ dispute = [e \in Escrows |-> "none"]
  /\ frozen = [e \in Escrows |-> FALSE]
  /\ room = [u \in Parties |-> NoRoom]
  /\ count = [k \in Keys |-> 0]
  /\ mortal = {}
  /\ session = {}
  /\ freezeKey = {}
  /\ at = [t \in Tasks |-> "idle"]
  /\ msg \in [Tasks -> {[from |-> u, to |-> NoRoom, kind |-> "text",
                         disputed |-> FALSE] : u \in Parties}]
  /\ handled = 0
  /\ relayed = [e \in Escrows |-> 0]
  /\ stored = [e \in Escrows |-> 0]
  /\ evidence = [e \in Escrows |-> 0]
  /\ lost = [e \in Escrows |-> 0]
  /\ looked = [e \in Escrows |-> 0]
  /\ orphaned = {}

Goto(t, point) == at' = [at EXCEPT ![t] = point]
KeyOf(t) == <<msg[t].to, msg[t].from>>

-----------------------------------------------------------------------------
(* The room: disputes, the freeze, the chat keys.                          *)

\* The escrow is disputed once, and may be put up for payout or review later.
MoveDispute(e) ==
  /\ dispute[e] # "over"
  /\ dispute' = [dispute EXCEPT ![e] = IF @ = "none" THEN "open" ELSE "over"]
  /\ UNCHANGED <<frozen, keys, at, msg, handled, traffic>>

\* The secret command of an admin, and the ten minutes it is good for.
AdminEntry(a) ==
  /\ session' = session \cup {a}
  /\ UNCHANGED <<dispute, frozen, room, count, mortal, freezeKey, at, msg, handled,
                 traffic>>

SessionExpires(a) ==
  /\ a \in session
  /\ session' = session \ {a}
  /\ UNCHANGED <<dispute, frozen, room, count, mortal, freezeKey, at, msg, handled,
                 traffic>>

\* The first tap on Toggle Chat, a button shown for every dispute there is.
AskFreeze(a, e) ==
  /\ a \in session
  /\ dispute[e] # "none"
  /\ <<a, e>> \notin freezeKey
  /\ freezeKey' = freezeKey \cup {<<a, e>>}
  /\ UNCHANGED <<dispute, frozen, room, count, mortal, session, at, msg, handled,
                 traffic>>

FreezeKeyExpires(a, e) ==
  /\ <<a, e>> \in freezeKey
  /\ freezeKey' = freezeKey \ {<<a, e>>}
  /\ UNCHANGED <<dispute, frozen, room, count, mortal, session, at, msg, handled,
                 traffic>>

\* A tap while the key lives, under the lock of the row.
AdminFreeze(a, e) ==
  /\ a \in session
  /\ <<a, e>> \in freezeKey
  /\ frozen' = [frozen EXCEPT ![e] = ~@]
  /\ UNCHANGED <<dispute, keys, at, msg, handled, traffic>>

StartChat(u, e) ==
  /\ room' = [room EXCEPT ![u] = e]
  /\ UNCHANGED <<dispute, frozen, count, mortal, session, freezeKey, at, msg,
                 handled, traffic>>

ChatKeyExpires(u) ==
  /\ room[u] # NoRoom
  /\ room' = [room EXCEPT ![u] = NoRoom]
  /\ UNCHANGED <<dispute, frozen, count, mortal, session, freezeKey, at, msg,
                 handled, traffic>>

-----------------------------------------------------------------------------
(* relay_message.                                                          *)

\* The room and its row are read; without a room, or in a frozen one, the
\* handler ends.
Look(t, u, kind) ==
  /\ at[t] = "idle"
  /\ handled < MaxMessages
  /\ room[u] # NoRoom
  /\ ~frozen[room[u]]
  /\ handled' = handled + 1
  /\ msg' = [msg EXCEPT ![t] = [from |-> u, to |-> room[u], kind |-> kind,
                                disputed |-> dispute[room[u]] = "open"]]
  /\ looked' = IF kind = "photo" /\ dispute[room[u]] = "open"
                 THEN [looked EXCEPT ![room[u]] = @ + 1] ELSE looked
  /\ Goto(t, "count")
  /\ UNCHANGED <<dispute, frozen, keys, relayed, stored, evidence, lost, orphaned>>

\* A slip: every counter is given its life by someone else.
NeverFirst(n) == FALSE

\* The increment that creates the key is the one that gives it a life.
First(n) == n = 1

Count(t) ==
  LET n == count[KeyOf(t)] + 1
  IN
  /\ at[t] = "count"
  /\ count' = [count EXCEPT ![KeyOf(t)] = n]
  /\ Goto(t, IF First(n) THEN "expire" ELSE IF n > Limit THEN "idle" ELSE "relay")
  /\ UNCHANGED <<dispute, frozen, room, mortal, session, freezeKey, msg, handled,
                 traffic>>

SetExpire(t) ==
  /\ at[t] = "expire"
  /\ mortal' = mortal \cup {KeyOf(t)}
  /\ Goto(t, "relay")
  /\ UNCHANGED <<dispute, frozen, room, count, session, freezeKey, msg, handled,
                 traffic>>

\* 60 seconds pass for a key that has a life.
RateKeyExpires(k) ==
  /\ k \in mortal
  /\ mortal' = mortal \ {k}
  /\ count' = [count EXCEPT ![k] = 0]
  /\ UNCHANGED <<dispute, frozen, room, session, freezeKey, at, msg, handled, traffic>>

\* A slip: the kind of the message is not looked at.
AnyMayPass(t) == TRUE

\* Photos pass only in a dispute, as the row was when it was read.
MayPass(t) == msg[t].kind = "photo" => msg[t].disputed

Relay(t) ==
  /\ at[t] = "relay"
  /\ MayPass(t)
  /\ relayed' = [relayed EXCEPT ![msg[t].to] = @ + 1]
  /\ Goto(t, "store")
  /\ UNCHANGED <<dispute, frozen, keys, msg, handled, stored, evidence, lost,
                 looked, orphaned>>

\* A photo without a dispute, a link, a photo too large: the message was
\* counted, and goes no further.
Refuse(t) ==
  /\ at[t] = "relay"
  /\ Goto(t, "idle")
  /\ UNCHANGED <<dispute, frozen, keys, msg, handled, traffic>>

\* A slip: a message is stored when it is relayed and once more at the end.
StoreTwice(t) ==
  /\ at[t] = "store"
  /\ stored' = [stored EXCEPT ![msg[t].to] = @ + 2]
  /\ Goto(t, "idle")
  /\ UNCHANGED <<dispute, frozen, keys, msg, handled, relayed, evidence, lost,
                 looked, orphaned>>

Store(t) ==
  /\ at[t] = "store"
  /\ stored' = [stored EXCEPT ![msg[t].to] = @ + 1]
  /\ evidence' = IF msg[t].kind = "photo"
                   THEN [evidence EXCEPT ![msg[t].to] = @ + 1] ELSE evidence
  /\ Goto(t, "idle")
  /\ UNCHANGED <<dispute, frozen, keys, msg, handled, relayed, lost, looked, orphaned>>

\* Redis, Telegram or the database fails, or the bot crashes.
Fails(t) ==
  /\ Faults
  /\ at[t] # "idle"
  /\ Goto(t, "idle")
  /\ orphaned' = IF at[t] = "expire" THEN orphaned \cup {KeyOf(t)} ELSE orphaned
  /\ lost' = IF at[t] = "store" THEN [lost EXCEPT ![msg[t].to] = @ + 1] ELSE lost
  /\ UNCHANGED <<dispute, frozen, keys, msg, handled, relayed, stored, evidence,
                 looked>>

-----------------------------------------------------------------------------
Handle(t) == Count(t) \/ SetExpire(t) \/ Relay(t) \/ Refuse(t) \/ Store(t)

Next ==
  \/ \E e \in Escrows :
       \/ MoveDispute(e)
       \/ \E a \in Admins :
            AskFreeze(a, e) \/ FreezeKeyExpires(a, e) \/ AdminFreeze(a, e)
       \/ \E u \in Parties : StartChat(u, e)
  \/ \E a \in Admins : AdminEntry(a) \/ SessionExpires(a)
  \/ \E u \in Parties : ChatKeyExpires(u)
  \/ \E t \in Tasks, u \in Parties, kind \in Kinds : Look(t, u, kind)
  \/ \E t \in Tasks : Handle(t) \/ Fails(t)
  \/ \E k \in Keys : RateKeyExpires(k)

Spec == Init /\ [][Next]_vars

\* The event loop runs a ready handler on, and Redis drops what has lived.
FairSpec ==
  /\ Spec
  /\ \A t \in Tasks : WF_vars(Handle(t))
  /\ \A k \in Keys : WF_vars(RateKeyExpires(k))

-----------------------------------------------------------------------------
(* Properties.                                                             *)

\* The handlers that have relayed a message to e and not stored it yet.
Storing(e) == {t \in Tasks : at[t] = "store" /\ msg[t].to = e}

\* What the other party was sent is stored once, or is about to be, or its
\* handler failed between the two: nothing else is on record, and nothing else
\* is missing, however messages interleave.
RecordIsOfRelayed ==
  \A e \in Escrows : stored[e] + Cardinality(Storing(e)) + lost[e] = relayed[e]

\* There are no more photos on record for an escrow than were looked at while
\* its row was DISPUTED, even when the dispute ends before they are stored.
EvidenceNeedsDispute == \A e \in Escrows : evidence[e] <= looked[e]

\* The handlers of photos for e that saw a dispute.
Showing(e) == {t \in Tasks : /\ at[t] # "idle"
                             /\ msg[t].to = e
                             /\ msg[t].kind = "photo"
                             /\ msg[t].disputed}

\* A photo that saw a dispute is looked at once, and a handler that stores
\* passed the test.
PhotosSawDispute ==
  /\ \A e \in Escrows : evidence[e] + Cardinality(Showing(e)) <= looked[e]
  /\ \A t \in Tasks : at[t] = "store" => MayPass(t)

\* What holds in every reachable state, and is kept by every step.
IInv == TypeOK /\ PhotosSawDispute /\ RecordIsOfRelayed

\* A user who has used up the limit, and is told to try again later, does get
\* another window, whichever message counted first, unless that handler
\* failed between the two calls that create the counter.
LimitEnds ==
  \A k \in Keys : count[k] >= Limit ~> count[k] = 0 \/ k \in orphaned
=============================================================================
