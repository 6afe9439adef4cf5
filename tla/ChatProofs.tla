----------------------------- MODULE ChatProofs -----------------------------
(***************************************************************************)
(* Proofs about Chat, for any rooms, parties and admins, and any number of *)
(* messages handled at once.                                               *)
(***************************************************************************)
EXTENDS Chat, FiniteSetTheorems, TLAPS

\* Sets of handlers are finite.
LEMMA HandlersAreFinite ==
  ASSUME NEW S, S \subseteq Tasks
  PROVE  IsFiniteSet(S) /\ Cardinality(S) \in Nat
<1>1. IsFiniteSet(Tasks)
  BY ChatAssumption
<1> QED
  BY <1>1, FS_Subset, FS_CardinalityType

\* A handler that joins a set is one more.
LEMMA OneMore ==
  ASSUME NEW S, S \subseteq Tasks, NEW t, t \notin S
  PROVE  Cardinality(S \cup {t}) = Cardinality(S) + 1
BY HandlersAreFinite, FS_AddElement

\* One that leaves it is one less.
LEMMA OneLess ==
  ASSUME NEW S, S \subseteq Tasks, NEW t \in S
  PROVE  Cardinality(S \ {t}) = Cardinality(S) - 1
BY HandlersAreFinite, FS_RemoveElement

\* Without some of its handlers a set is no larger.
LEMMA NoMore ==
  ASSUME NEW S, S \subseteq Tasks, NEW R, R \subseteq S
  PROVE  Cardinality(R) \in Nat /\ Cardinality(R) <= Cardinality(S)
BY HandlersAreFinite, FS_Subset, FS_CardinalityType

\* Both counts are of handlers.
LEMMA Counted ==
  ASSUME NEW e
  PROVE  /\ Storing(e) \subseteq Tasks /\ Showing(e) \subseteq Tasks
         /\ Cardinality(Storing(e)) \in Nat /\ Cardinality(Showing(e)) \in Nat
<1>1. Storing(e) \subseteq Tasks /\ Showing(e) \subseteq Tasks
  BY DEF Storing, Showing
<1> QED
  BY <1>1, HandlersAreFinite

\* Nothing is relayed, stored or under way at first.
LEMMA InitInv == Init => IInv
<1> SUFFICES ASSUME Init PROVE IInv
  OBVIOUS
<1>1. TypeOK
  <2>1. ASSUME NEW t \in Tasks PROVE msg[t] \in Message
    <3>1. PICK u \in Parties : msg[t] = [from |-> u, to |-> NoRoom, kind |-> "text",
                                       disputed |-> FALSE]
      BY DEF Init
    <3>2. NoRoom \in Escrows \cup {NoRoom} /\ "text" \in Kinds /\ FALSE \in BOOLEAN
      BY DEF Kinds
    <3> QED
      BY <3>1, <3>2 DEF Message
  <2>2. msg \in [Tasks -> Message]
    <3>1. PICK M : msg \in [Tasks -> M]
      BY DEF Init
    <3> QED
      BY <2>1, <3>1
  <2>3. /\ dispute \in [Escrows -> {"none", "open", "over"}]
        /\ frozen \in [Escrows -> BOOLEAN]
        /\ room \in [Parties -> Escrows \cup {NoRoom}]
        /\ count \in [Keys -> Nat]
    BY DEF Init
  <2>4. /\ mortal \subseteq Keys /\ orphaned \subseteq Keys
        /\ session \subseteq Admins
        /\ freezeKey \subseteq Admins \X Escrows
        /\ at \in [Tasks -> {"idle", "count", "expire", "relay", "store"}]
        /\ \A t \in Tasks : at[t] # "idle" => msg[t].to \in Escrows
        /\ handled \in Nat
    BY DEF Init
  <2>5. {relayed, stored, evidence, lost, looked} \subseteq [Escrows -> Nat]
    BY DEF Init
  <2> QED
    BY <2>2, <2>3, <2>4, <2>5 DEF TypeOK
<1>2. ASSUME NEW e \in Escrows
      PROVE  Cardinality(Storing(e)) = 0 /\ Cardinality(Showing(e)) = 0
  <2>1. Storing(e) = {} /\ Showing(e) = {}
    BY DEF Init, Storing, Showing
  <2> QED
    BY <2>1, FS_EmptySet
<1>3. RecordIsOfRelayed
  BY <1>2 DEF Init, RecordIsOfRelayed
<1>4. PhotosSawDispute
  BY <1>2 DEF Init, PhotosSawDispute
<1> QED
  BY <1>1, <1>3, <1>4 DEF IInv

-----------------------------------------------------------------------------
(* Every step keeps the invariant.                                         *)

LEMMA TypeStep == TypeOK /\ [Next]_vars => TypeOK'
<1> SUFFICES ASSUME TypeOK, [Next]_vars PROVE TypeOK'
  OBVIOUS
<1> USE DEF TypeOK, Goto, keys, traffic
<1>1. ASSUME NEW e \in Escrows, MoveDispute(e) PROVE TypeOK'
  BY <1>1 DEF MoveDispute
<1>2. ASSUME NEW e \in Escrows, NEW a \in Admins,
             AskFreeze(a, e) \/ FreezeKeyExpires(a, e) \/ AdminFreeze(a, e)
      PROVE  TypeOK'
  <2>1. CASE AskFreeze(a, e) \/ FreezeKeyExpires(a, e)
    <3>1. freezeKey' \subseteq Admins \X Escrows
      BY <2>1 DEF AskFreeze, FreezeKeyExpires
    <3> QED
      BY <2>1, <3>1 DEF AskFreeze, FreezeKeyExpires
  <2>2. CASE AdminFreeze(a, e)
    <3>1. frozen' \in [Escrows -> BOOLEAN]
      BY <2>2 DEF AdminFreeze
    <3> QED
      BY <2>2, <3>1 DEF AdminFreeze
  <2> QED
    BY <1>2, <2>1, <2>2
<1>3. ASSUME NEW e \in Escrows, NEW u \in Parties, StartChat(u, e) PROVE TypeOK'
  BY <1>3 DEF StartChat
<1>4. ASSUME NEW u \in Parties, ChatKeyExpires(u) PROVE TypeOK'
  BY <1>4 DEF ChatKeyExpires
<1>5. ASSUME NEW t \in Tasks, NEW u \in Parties, NEW kind \in Kinds, Look(t, u, kind)
      PROVE  TypeOK'
  <2>1. room[u] \in Escrows
    BY <1>5 DEF Look
  <2>2. [from |-> u, to |-> room[u], kind |-> kind,
         disputed |-> dispute[room[u]] = "open"] \in Message
    BY <2>1 DEF Message
  <2>3. msg' \in [Tasks -> Message]
    BY <1>5, <2>2 DEF Look
  <2>4. \A s \in Tasks : at'[s] # "idle" => msg'[s].to \in Escrows
    BY <1>5, <2>1 DEF Look
  <2> QED
    BY <1>5, <2>3, <2>4 DEF Look
<1>6. ASSUME NEW t \in Tasks, Count(t) PROVE TypeOK'
  <2>1. at[t] = "count" /\ KeyOf(t) \in Keys
    BY <1>6 DEF Count, KeyOf, Keys, Message
  <2>2. count' \in [Keys -> Nat]
    BY <1>6, <2>1 DEF Count
  <2> QED
    BY <1>6, <2>1, <2>2 DEF Count
<1>7. ASSUME NEW t \in Tasks, SetExpire(t) PROVE TypeOK'
  <2>1. KeyOf(t) \in Keys
    BY <1>7 DEF SetExpire, KeyOf, Keys, Message
  <2> QED
    BY <1>7, <2>1 DEF SetExpire
<1>8. ASSUME NEW t \in Tasks, Relay(t) \/ Refuse(t) \/ Store(t) PROVE TypeOK'
  BY <1>8 DEF Relay, Refuse, Store
<1>9. ASSUME NEW t \in Tasks, Fails(t) PROVE TypeOK'
  <2>1. KeyOf(t) \in Keys
    BY <1>9 DEF Fails, KeyOf, Keys, Message
  <2> QED
    BY <1>9, <2>1 DEF Fails
<1>10. ASSUME NEW k \in Keys, RateKeyExpires(k) PROVE TypeOK'
  BY <1>10 DEF RateKeyExpires
<1>11. ASSUME NEW a \in Admins, AdminEntry(a) \/ SessionExpires(a) PROVE TypeOK'
  <2>1. session' \subseteq Admins
    BY <1>11 DEF AdminEntry, SessionExpires
  <2> QED
    BY <1>11, <2>1 DEF AdminEntry, SessionExpires
<1>12. CASE UNCHANGED vars
  BY <1>12 DEF vars
<1> QED
  BY <1>1, <1>2, <1>3, <1>4, <1>5, <1>6, <1>7, <1>8, <1>9, <1>10, <1>11, <1>12
     DEF Next, Handle

\* What the handlers' steps do to what the other parts speak of.
core == <<at, msg, relayed, stored, evidence, lost, looked>>

LEMMA StepCases ==
  ASSUME [Next]_vars
  PROVE  \/ UNCHANGED core
         \/ \E t \in Tasks, u \in Parties, kind \in Kinds : Look(t, u, kind)
         \/ \E t \in Tasks : Handle(t)
         \/ \E t \in Tasks : Fails(t)
<1> USE DEF core, keys, traffic
<1>1. ASSUME NEW e \in Escrows, NEW a \in Admins,
             AskFreeze(a, e) \/ FreezeKeyExpires(a, e) \/ AdminFreeze(a, e)
      PROVE  UNCHANGED core
  BY <1>1 DEF AskFreeze, FreezeKeyExpires, AdminFreeze
<1>2. ASSUME NEW u \in Parties,
             ChatKeyExpires(u) \/ \E e \in Escrows : StartChat(u, e)
      PROVE  UNCHANGED core
  BY <1>2 DEF ChatKeyExpires, StartChat
<1>3. ASSUME NEW k \in Keys, RateKeyExpires(k) PROVE UNCHANGED core
  BY <1>3 DEF RateKeyExpires
<1>4. ASSUME NEW a \in Admins, AdminEntry(a) \/ SessionExpires(a) PROVE UNCHANGED core
  BY <1>4 DEF AdminEntry, SessionExpires
<1>5. ASSUME NEW e \in Escrows, MoveDispute(e) PROVE UNCHANGED core
  BY <1>5 DEF MoveDispute
<1>6. CASE UNCHANGED vars
  BY <1>6 DEF vars
<1> QED
  BY <1>1, <1>2, <1>3, <1>4, <1>5, <1>6 DEF Next

\* A photo that saw a dispute is counted when it is looked at; storing it
\* moves it from the handlers to the record.
LEMMA PhotoStep == TypeOK /\ PhotosSawDispute /\ [Next]_vars => PhotosSawDispute'
<1> SUFFICES ASSUME TypeOK, PhotosSawDispute, [Next]_vars
             PROVE  PhotosSawDispute'
  OBVIOUS
<1> USE DEF Goto, keys, traffic
<1>1. \A t \in Tasks : at'[t] = "store" => MayPass(t)'
  <2>1. CASE UNCHANGED core
    BY <2>1 DEF core, PhotosSawDispute, MayPass
  <2>2. ASSUME NEW t \in Tasks, NEW u \in Parties, NEW kind \in Kinds, Look(t, u, kind)
        PROVE  \A s \in Tasks : at'[s] = "store" => MayPass(s)'
    BY <2>2 DEF Look, TypeOK, PhotosSawDispute, MayPass
  <2>3. ASSUME NEW t \in Tasks, Handle(t) \/ Fails(t)
        PROVE  \A s \in Tasks : at'[s] = "store" => MayPass(s)'
    BY <2>3 DEF Handle, Count, SetExpire, Relay, Refuse, Store, Fails, TypeOK,
                PhotosSawDispute, MayPass
  <2> QED
    BY StepCases, <2>1, <2>2, <2>3
<1>2. ASSUME NEW e \in Escrows
      PROVE  (evidence[e] + Cardinality(Showing(e)) <= looked[e])'
  <2>1. /\ evidence[e] \in Nat /\ looked[e] \in Nat
        /\ Cardinality(Showing(e)) \in Nat
        /\ Showing(e) \subseteq Tasks
        /\ evidence[e] + Cardinality(Showing(e)) <= looked[e]
    BY Counted DEF TypeOK, PhotosSawDispute
  <2>2. CASE evidence' = evidence /\ looked' = looked /\ Showing(e)' \subseteq Showing(e)
    BY <2>1, <2>2, NoMore
  <2>3. CASE UNCHANGED core
    BY <2>2, <2>3 DEF core, Showing
  <2>4. ASSUME NEW t \in Tasks, NEW u \in Parties, NEW kind \in Kinds, Look(t, u, kind)
        PROVE  (evidence[e] + Cardinality(Showing(e)) <= looked[e])'
    <3>1. /\ at[t] = "idle" /\ at' = [at EXCEPT ![t] = "count"] /\ DOMAIN at = Tasks
          /\ DOMAIN msg = Tasks
          /\ msg' = [msg EXCEPT ![t] = [from |-> u, to |-> room[u], kind |-> kind,
                                        disputed |-> dispute[room[u]] = "open"]]
          /\ evidence' = evidence
      BY <2>4 DEF Look, TypeOK
    <3>2. CASE room[u] = e /\ kind = "photo" /\ dispute[e] = "open"
      <4>1. t \notin Showing(e) /\ Showing(e)' = Showing(e) \cup {t}
        BY <3>1, <3>2 DEF Showing
      <4>2. looked'[e] = looked[e] + 1
        BY <2>4, <3>2 DEF Look, TypeOK
      <4> QED
        BY <2>1, <3>1, <4>1, <4>2, OneMore
    <3>3. CASE ~(room[u] = e /\ kind = "photo" /\ dispute[e] = "open")
      <4>1. Showing(e)' = Showing(e)
        BY <3>1, <3>3 DEF Showing
      <4>2. looked'[e] = looked[e]
        BY <2>4, <3>3 DEF Look, TypeOK
      <4> QED
        BY <2>1, <3>1, <4>1, <4>2
    <3> QED
      BY <3>2, <3>3
  <2>5. ASSUME NEW t \in Tasks, Count(t) \/ SetExpire(t) \/ Relay(t) \/ Refuse(t) \/ Fails(t)
        PROVE  (evidence[e] + Cardinality(Showing(e)) <= looked[e])'
    <3>1. evidence' = evidence /\ looked' = looked /\ msg' = msg
      BY <2>5 DEF Count, SetExpire, Relay, Refuse, Fails
    <3>2. Showing(e)' \subseteq Showing(e)
      BY <2>5, <3>1 DEF Count, SetExpire, Relay, Refuse, Fails, Showing, TypeOK
    <3> QED
      BY <2>2, <3>1, <3>2
  <2>6. ASSUME NEW t \in Tasks, Store(t)
        PROVE  (evidence[e] + Cardinality(Showing(e)) <= looked[e])'
    <3>1. /\ at[t] = "store" /\ at' = [at EXCEPT ![t] = "idle"] /\ DOMAIN at = Tasks
          /\ msg' = msg /\ looked' = looked
      BY <2>6 DEF Store, TypeOK
    <3>2. CASE msg[t].to = e /\ msg[t].kind = "photo"
      <4>1. msg[t].disputed
        BY <3>1, <3>2 DEF PhotosSawDispute, MayPass
      <4>2. t \in Showing(e) /\ Showing(e)' = Showing(e) \ {t}
        BY <3>1, <3>2, <4>1 DEF Showing
      <4>3. evidence'[e] = evidence[e] + 1
        BY <2>6, <3>2 DEF Store, TypeOK
      <4> QED
        BY <2>1, <3>1, <4>2, <4>3, OneLess
    <3>3. CASE ~(msg[t].to = e /\ msg[t].kind = "photo")
      <4>1. Showing(e)' \subseteq Showing(e)
        BY <3>1 DEF Showing
      <4>2. evidence'[e] = evidence[e]
        BY <2>6, <3>3 DEF Store, TypeOK
      <4> QED
        BY <2>1, <3>1, <4>1, <4>2, NoMore
    <3> QED
      BY <3>2, <3>3
  <2> QED
    BY StepCases, <2>3, <2>4, <2>5, <2>6 DEF Handle
<1> QED
  BY <1>1, <1>2 DEF PhotosSawDispute

\* A handler that relays joins those that have to store; one that leaves them
\* has stored, or is lost.
LEMMA RecordStep == TypeOK /\ RecordIsOfRelayed /\ [Next]_vars => RecordIsOfRelayed'
<1> DEFINE Sum(e) == stored[e] + Cardinality(Storing(e)) + lost[e]
<1> SUFFICES ASSUME TypeOK, RecordIsOfRelayed, [Next]_vars, NEW e \in Escrows
             PROVE  (Sum(e) = relayed[e])'
  BY DEF RecordIsOfRelayed
<1>1. /\ stored[e] \in Nat /\ relayed[e] \in Nat /\ lost[e] \in Nat
      /\ Cardinality(Storing(e)) \in Nat
      /\ Storing(e) \subseteq Tasks
      /\ Sum(e) = relayed[e]
  BY Counted DEF TypeOK, RecordIsOfRelayed
<1>2. CASE UNCHANGED core
  BY <1>1, <1>2 DEF core, Storing
<1>3. CASE /\ stored' = stored /\ relayed' = relayed /\ lost' = lost
           /\ Storing(e)' = Storing(e)
  BY <1>1, <1>3
<1>4. ASSUME NEW t \in Tasks, NEW u \in Parties, NEW kind \in Kinds, Look(t, u, kind)
      PROVE  (Sum(e) = relayed[e])'
  <2>1. Storing(e)' = Storing(e)
    BY <1>4 DEF Look, Storing, Goto, TypeOK
  <2> QED
    BY <1>3, <1>4, <2>1 DEF Look
<1>5. ASSUME NEW t \in Tasks, Count(t) \/ SetExpire(t) \/ Refuse(t)
      PROVE  (Sum(e) = relayed[e])'
  <2>1. Storing(e)' = Storing(e)
    BY <1>5 DEF Count, SetExpire, Refuse, Storing, Goto, TypeOK
  <2>2. stored' = stored /\ relayed' = relayed /\ lost' = lost
    BY <1>5 DEF Count, SetExpire, Refuse, traffic
  <2> QED
    BY <1>3, <2>1, <2>2
<1>6. ASSUME NEW t \in Tasks, Relay(t)
      PROVE  (Sum(e) = relayed[e])'
  <2>1. /\ at[t] = "relay" /\ at' = [at EXCEPT ![t] = "store"] /\ DOMAIN at = Tasks
        /\ msg' = msg /\ stored' = stored /\ lost' = lost
    BY <1>6 DEF Relay, Goto, TypeOK
  <2>2. CASE msg[t].to = e
    <3>1. t \notin Storing(e) /\ Storing(e)' = Storing(e) \cup {t}
      BY <2>1, <2>2 DEF Storing
    <3>2. relayed'[e] = relayed[e] + 1
      BY <1>6, <2>2 DEF Relay, TypeOK
    <3> QED
      BY <1>1, <2>1, <3>1, <3>2, OneMore
  <2>3. CASE msg[t].to # e
    <3>1. Storing(e)' = Storing(e)
      BY <2>1, <2>3 DEF Storing
    <3>2. relayed'[e] = relayed[e]
      BY <1>6, <2>3 DEF Relay, TypeOK
    <3> QED
      BY <1>1, <2>1, <3>1, <3>2
  <2> QED
    BY <2>2, <2>3
<1>7. ASSUME NEW t \in Tasks, Store(t)
      PROVE  (Sum(e) = relayed[e])'
  <2>1. /\ at[t] = "store" /\ at' = [at EXCEPT ![t] = "idle"] /\ DOMAIN at = Tasks
        /\ msg' = msg /\ relayed' = relayed /\ lost' = lost
    BY <1>7 DEF Store, Goto, TypeOK
  <2>2. CASE msg[t].to = e
    <3>1. t \in Storing(e) /\ Storing(e)' = Storing(e) \ {t}
      BY <2>1, <2>2 DEF Storing
    <3>2. stored'[e] = stored[e] + 1
      BY <1>7, <2>2 DEF Store, TypeOK
    <3> QED
      BY <1>1, <2>1, <3>1, <3>2, OneLess
  <2>3. CASE msg[t].to # e
    <3>1. Storing(e)' = Storing(e)
      BY <2>1, <2>3 DEF Storing
    <3>2. stored'[e] = stored[e]
      BY <1>7, <2>3 DEF Store, TypeOK
    <3> QED
      BY <1>1, <2>1, <3>1, <3>2
  <2> QED
    BY <2>2, <2>3
<1>8. ASSUME NEW t \in Tasks, Fails(t)
      PROVE  (Sum(e) = relayed[e])'
  <2>1. /\ at' = [at EXCEPT ![t] = "idle"] /\ DOMAIN at = Tasks
        /\ msg' = msg /\ relayed' = relayed /\ stored' = stored
        /\ lost' = IF at[t] = "store" THEN [lost EXCEPT ![msg[t].to] = @ + 1] ELSE lost
    BY <1>8 DEF Fails, Goto, TypeOK
  <2>2. CASE at[t] = "store" /\ msg[t].to = e
    <3>1. t \in Storing(e) /\ Storing(e)' = Storing(e) \ {t}
      BY <2>1, <2>2 DEF Storing
    <3>2. lost'[e] = lost[e] + 1
      BY <2>1, <2>2 DEF TypeOK
    <3> QED
      BY <1>1, <2>1, <3>1, <3>2, OneLess
  <2>3. CASE ~(at[t] = "store" /\ msg[t].to = e)
    <3>1. Storing(e)' = Storing(e)
      BY <2>1, <2>3 DEF Storing
    <3>2. lost'[e] = lost[e]
      BY <2>1, <2>3 DEF TypeOK
    <3> QED
      BY <1>1, <2>1, <3>1, <3>2
  <2> QED
    BY <2>2, <2>3
<1> QED
  BY StepCases, <1>2, <1>4, <1>5, <1>6, <1>7, <1>8 DEF Handle

-----------------------------------------------------------------------------
\* The inductive invariant holds throughout.
THEOREM Invariance == Spec => []IInv
<1>1. IInv /\ [Next]_vars => IInv'
  BY TypeStep, PhotoStep, RecordStep DEF IInv
<1> QED
  BY InitInv, <1>1, PTL DEF Spec

\* What the other party was sent is stored once, about to be, or lost with its
\* handler; nothing else is on record.
THEOREM RecordsWereRelayed == Spec => []RecordIsOfRelayed
<1>1. IInv => RecordIsOfRelayed
  BY DEF IInv
<1> QED
  BY Invariance, <1>1, PTL

\* There are no more photos on record for an escrow than were looked at while
\* its row was DISPUTED.
THEOREM EvidenceIsOfDisputes == Spec => []EvidenceNeedsDispute
<1>1. IInv => EvidenceNeedsDispute
  <2> SUFFICES ASSUME IInv, NEW e \in Escrows PROVE evidence[e] <= looked[e]
    BY DEF EvidenceNeedsDispute
  <2>1. /\ evidence[e] \in Nat /\ looked[e] \in Nat
        /\ evidence[e] + Cardinality(Showing(e)) <= looked[e]
    BY DEF IInv, TypeOK, PhotosSawDispute
  <2>2. Cardinality(Showing(e)) \in Nat
    BY Counted
  <2> QED
    BY <2>1, <2>2
<1> QED
  BY Invariance, <1>1, PTL
=============================================================================
