---------------------------- MODULE SignerProofs ----------------------------
(***************************************************************************)
(* The switch is where config_history left it, a request is accepted once  *)
(* for each life of Redis, and the switch stops whoever has not passed it, *)
(* for any number of admins, handlers, requests and deliveries, and any    *)
(* times with Window + Skew + MaxDelay < Life.                             *)
(***************************************************************************)
EXTENDS Signer, TLAPS

-----------------------------------------------------------------------------
(* KillSwitch.                                                             *)

\* The row is absent at first, and nothing was toggled.
LEMMA SwitchInitInv == SwitchInit => SwitchIInv
  BY DEF SwitchInit, SwitchIInv, SwitchTypeOK, CreatesWhenAbsent, SwitchIsLastChange, SwitchIn,
         Rows, Switch, Change

\* The one step that writes both: the row gets what the new last entry says.
LEMMA ToggleInv ==
  ASSUME SwitchIInv, NEW t \in Tasks, CommitToggle(t)
  PROVE  SwitchIInv'
<1> DEFINE new == Flip(SwitchIn(got[t]))
           change == [old |-> SwitchIn(got[t]), new |-> new]
<1>1. change \in Change /\ new \in Rows
  BY DEF SwitchIInv, SwitchTypeOK, Change, Rows, Switch, Flip, SwitchIn
<1>2. at' \in [Tasks -> {"idle", "toggle", "create"}]
  BY DEF SwitchIInv, SwitchTypeOK, CommitToggle
<1>3. CASE WriteSucceeds(t)
  <2>1. row' = new /\ history' = Append(history, change)
    BY <1>3 DEF CommitToggle
  <2>2. SwitchTypeOK'
    BY <1>1, <1>2, <2>1 DEF SwitchIInv, SwitchTypeOK, CommitToggle
  <2>3. /\ history' # <<>>
        /\ history'[Len(history')] = change
    BY <1>1, <2>1 DEF SwitchIInv, SwitchTypeOK
  <2>4. SwitchIsLastChange'
    BY <2>1, <2>3 DEF SwitchIsLastChange
  <2>5. CreatesWhenAbsent'
    BY <1>2 DEF SwitchIInv, SwitchTypeOK, CreatesWhenAbsent, CommitToggle
  <2>6. QED BY <2>2, <2>4, <2>5 DEF SwitchIInv
<1>4. CASE ~WriteSucceeds(t)
  BY <1>2, <1>4 DEF SwitchIInv, SwitchTypeOK, CommitToggle, CreatesWhenAbsent,
                    SwitchIsLastChange
<1>5. QED BY <1>3, <1>4

\* Every step keeps the invariant.
LEMMA SwitchStepInv == SwitchIInv /\ [SwitchNext]_switchVars => SwitchIInv'
<1> SUFFICES ASSUME SwitchIInv, [SwitchNext]_switchVars PROVE SwitchIInv'
  OBVIOUS
<1> USE DEF SwitchIInv, SwitchTypeOK, CreatesWhenAbsent, SwitchIsLastChange
<1>1. ASSUME NEW a \in Admins, AdminEntry(a) PROVE SwitchIInv'
  BY <1>1 DEF AdminEntry
<1>2. ASSUME NEW a \in Admins, SessionExpires(a) PROVE SwitchIInv'
  BY <1>2 DEF SessionExpires
<1>3. ASSUME NEW a \in Admins, AskToggle(a) PROVE SwitchIInv'
  BY <1>3 DEF AskToggle
<1>4. ASSUME NEW a \in Admins, KillKeyExpires(a) PROVE SwitchIInv'
  BY <1>4 DEF KillKeyExpires
<1>5. ASSUME NEW a \in Admins, NEW t \in Tasks, ReadToggle(a, t) PROVE SwitchIInv'
  BY <1>5 DEF ReadToggle
<1>6. ASSUME NEW t \in Tasks, ReadConfig(t) PROVE SwitchIInv'
  BY <1>6 DEF ReadConfig
<1>7. ASSUME NEW t \in Tasks, CommitToggle(t) PROVE SwitchIInv'
  BY <1>7, ToggleInv
<1>8. ASSUME NEW t \in Tasks, CommitConfig(t) PROVE SwitchIInv'
  \* The default is written only while the row is absent, and then nothing
  \* was ever toggled.
  <2>1. got[t] = "absent"
    BY <1>8 DEF CommitConfig
  <2>2. SwitchIn("absent") \in Rows
    BY DEF SwitchIn, Rows, Switch
  <2>3. history # <<>> => row # "absent"
    <3>1. SUFFICES ASSUME history # <<>> PROVE history[Len(history)] \in Change
      BY DEF Change, Switch
    <3>2. Len(history) \in 1..Len(history)
      BY <3>1
    <3>3. QED BY <3>2
  <2>4. CASE row = "absent"
    BY <1>8, <2>1, <2>2, <2>3, <2>4 DEF CommitConfig, WriteSucceeds
  <2>5. CASE row # "absent"
    BY <1>8, <2>1, <2>5 DEF CommitConfig, WriteSucceeds
  <2>6. QED BY <2>4, <2>5
<1>9. ASSUME NEW t \in Tasks, RollBack(t) PROVE SwitchIInv'
  BY <1>9 DEF RollBack
<1>10. CASE KeysLost
  BY <1>10 DEF KeysLost
<1>11. CASE UNCHANGED switchVars
  BY <1>11 DEF switchVars
<1>12. QED
  BY <1>1, <1>2, <1>3, <1>4, <1>5, <1>6, <1>7, <1>8, <1>9, <1>10, <1>11
  DEF SwitchNext

\* The strengthened invariant holds in every behaviour.
THEOREM SwitchInvariance == SwitchSpec => []SwitchIInv
  BY SwitchInitInv, SwitchStepInv, PTL DEF SwitchSpec

\* However admins' toggles and the services that create the missing row
\* interleave, the switch is where the last entry of config_history put it.
THEOREM SwitchFollowsHistory == SwitchSpec => []SwitchIsLastChange
<1>1. SwitchIInv => SwitchIsLastChange
  BY DEF SwitchIInv
<1>2. QED BY <1>1, SwitchInvariance, PTL

-----------------------------------------------------------------------------
(* Signer.                                                                 *)

\* Each step of the signer, the bot, an admin or Redis is one of KillSwitch or
\* leaves its variables alone.
LEMMA StepsAreOfSwitch == [Next]_vars => [SwitchNext]_switchVars
<1> SUFFICES ASSUME [Next]_vars PROVE [SwitchNext]_switchVars
  OBVIOUS
<1> USE SignerAssumption
<1>1. CASE \E r \in Requests : \/ \E t \in (now - Skew)..(now + Skew) : SignRequest(r, t)
                               \/ NonceExpires(r)
                               \/ \E c \in Calls : VerifyTimestamp(c, r)
  BY <1>1 DEF SignRequest, NonceExpires, VerifyTimestamp
<1>2. ASSUME NEW c \in Calls,
             \/ SetNonce(c)
             \/ ExpireNonce(c)
             \/ CheckKillSwitch(c)
      PROVE  UNCHANGED switchVars
  BY <1>2 DEF SetNonce, ExpireNonce, CheckKillSwitch
<1>3. ASSUME NEW c \in Calls, CheckFindsNone(c) PROVE SwitchNext
  BY <1>3 DEF CheckFindsNone, SwitchNext
<1>4. ASSUME NEW c \in Calls, CheckCreates(c) PROVE SwitchNext
  BY <1>4 DEF CheckCreates, SwitchNext
<1>5. ASSUME NEW c \in Calls, Ends(c) PROVE [SwitchNext]_switchVars
  BY <1>5 DEF Ends, SwitchNext
<1>6. ASSUME NEW t \in Tasks, Toggle(t) \/ Bot(t) PROVE SwitchNext
  BY <1>6 DEF Toggle, Bot, SwitchNext
<1>7. ASSUME NEW a \in Admins, Admin(a) PROVE SwitchNext
  BY <1>7 DEF Admin, SwitchNext
<1>8. CASE Tick
  BY <1>8 DEF Tick
<1>9. CASE RedisRestarts
  BY <1>9 DEF RedisRestarts, SwitchNext
<1>10. CASE UNCHANGED vars
  BY <1>10 DEF vars
<1> QED
  BY <1>1, <1>2, <1>3, <1>4, <1>5, <1>6, <1>7, <1>8, <1>9, <1>10 DEF Next

\* The signer is composed with KillSwitch: nothing it does with the row is
\* beyond what that module allows.
THEOREM Composition == Spec => SwitchSpec
<1>1. Init => SwitchInit
  BY DEF Init
<1> QED
  BY <1>1, StepsAreOfSwitch, PTL DEF Spec, SwitchSpec

\* The switch is where the last entry of config_history put it while the
\* signer's own transactions create and read the row.
THEOREM SwitchFollowsHistoryHere == Spec => []SwitchIsLastChange
  BY Composition, SwitchFollowsHistory, PTL

-----------------------------------------------------------------------------
LEMMA InitInv == Init => IInv
<1> SUFFICES ASSUME Init PROVE IInv
  OBVIOUS
<1> USE SignerAssumption
<1>1. SwitchIInv
  BY SwitchInitInv DEF Init
<1>2. TypeOK
  BY <1>1 DEF Init, TypeOK, SwitchIInv
<1>3. StampsAreNear /\ ReadsAreRecent /\ AcceptedOnce /\ SwitchStops
  BY DEF Init, StampsAreNear, ReadsAreRecent, AcceptedOnce, SwitchStops, Past
<1>4. KeysOutlastWindow
  BY DEF Init, KeysOutlastWindow
<1> QED
  BY <1>1, <1>2, <1>3, <1>4 DEF IInv

\* The gate's own part of the invariant: what AcceptedOnce rests on.
GateInv == StampsAreNear /\ ReadsAreRecent /\ KeysOutlastWindow /\ AcceptedOnce

\* Types are kept; for the switch's variables that is KillSwitch's.
LEMMA TypeStep == IInv /\ [Next]_vars => SwitchIInv' /\ TypeOK'
<1> SUFFICES ASSUME IInv, [Next]_vars PROVE SwitchIInv' /\ TypeOK'
  OBVIOUS
<1> USE SignerAssumption
<1>1. SwitchIInv'
  BY StepsAreOfSwitch, SwitchStepInv DEF IInv
<1>2. SwitchTypeOK'
  BY <1>1 DEF SwitchIInv
<1> USE <1>2 DEF IInv, TypeOK
<1>3. ASSUME NEW r \in Requests, NEW t \in (now - Skew)..(now + Skew),
             SignRequest(r, t)
      PROVE  TypeOK'
  BY <1>3 DEF SignRequest
<1>4. ASSUME NEW r \in Requests, NonceExpires(r) PROVE TypeOK'
  BY <1>4 DEF NonceExpires
<1>5. ASSUME NEW r \in Requests, NEW c \in Calls, VerifyTimestamp(c, r) PROVE TypeOK'
  BY <1>5 DEF VerifyTimestamp
<1>6. ASSUME NEW c \in Calls, SetNonce(c) PROVE TypeOK'
  BY <1>6 DEF SetNonce
<1>7. ASSUME NEW c \in Calls, ExpireNonce(c) PROVE TypeOK'
  BY <1>7 DEF ExpireNonce
<1>8. ASSUME NEW c \in Calls,
             \/ CheckKillSwitch(c)
             \/ CheckFindsNone(c)
             \/ CheckCreates(c)
             \/ Ends(c)
      PROVE  TypeOK'
  BY <1>8 DEF CheckKillSwitch, CheckFindsNone, CheckCreates, Ends, Moves
<1>9. ASSUME NEW t \in Tasks, Toggle(t) \/ Bot(t) PROVE TypeOK'
  BY <1>9 DEF Toggle, Bot, gateVars, Past
<1>10. ASSUME NEW a \in Admins, Admin(a) PROVE TypeOK'
  BY <1>10 DEF Admin, gateVars
<1>11. ASSUME Tick PROVE TypeOK'
  BY <1>11 DEF Tick
<1>12. ASSUME RedisRestarts PROVE TypeOK'
  BY <1>12 DEF RedisRestarts
<1>13. ASSUME UNCHANGED vars PROVE TypeOK'
  BY <1>13 DEF vars, gateVars
<1>14. TypeOK'
  BY <1>3, <1>4, <1>5, <1>6, <1>7, <1>8, <1>9, <1>10, <1>11, <1>12, <1>13 DEF Next
<1> QED
  BY <1>1, <1>14

\* The switch stops whoever has not passed it.
LEMMA StopsStep == IInv /\ [Next]_vars => SwitchStops'
<1> SUFFICES ASSUME IInv, [Next]_vars PROVE SwitchStops'
  OBVIOUS
<1> USE SignerAssumption DEF IInv, TypeOK, SwitchStops, Past
<1>1. CASE \E r \in Requests : \/ \E t \in (now - Skew)..(now + Skew) : SignRequest(r, t)
                               \/ NonceExpires(r)
                               \/ \E c \in Calls : VerifyTimestamp(c, r)
  BY <1>1 DEF SignRequest, NonceExpires, VerifyTimestamp, switchVars
<1>2. ASSUME NEW c \in Calls, SetNonce(c) \/ ExpireNonce(c) PROVE SwitchStops'
  BY <1>2 DEF SetNonce, ExpireNonce, switchVars
<1>3. ASSUME NEW c \in Calls, CheckKillSwitch(c) PROVE SwitchStops'
  BY <1>3 DEF CheckKillSwitch, Moves, switchVars
<1>4. ASSUME NEW c \in Calls, CheckFindsNone(c) PROVE SwitchStops'
  BY <1>4 DEF CheckFindsNone, ReadConfig, Moves
<1>5. ASSUME NEW c \in Calls, CheckCreates(c) PROVE SwitchStops'
  \* Whoever passes after an insert has just written that the switch is off.
  <2>1. CASE WriteSucceeds(c)
    BY <1>5, <2>1 DEF CheckCreates, CommitConfig, SwitchIn
  <2>2. CASE ~WriteSucceeds(c)
    BY <1>5, <2>2 DEF CheckCreates, CommitConfig, Moves
  <2> QED
    BY <2>1, <2>2
<1>6. ASSUME NEW c \in Calls, Ends(c) PROVE SwitchStops'
  BY <1>6 DEF Ends, RollBack, Moves, switchVars
<1>7. ASSUME NEW t \in Tasks, Toggle(t) PROVE SwitchStops'
  BY <1>7 DEF Toggle, gateVars
<1>8. ASSUME NEW t \in Tasks, Bot(t) PROVE SwitchStops'
  <2>1. row' = row \/ row' = "off"
    BY <1>8 DEF Bot, ReadConfig, CommitConfig, RollBack, ReadToggle, SwitchIn
  <2> QED
    BY <1>8, <2>1 DEF Bot, gateVars
<1>9. ASSUME NEW a \in Admins, Admin(a) PROVE SwitchStops'
  BY <1>9 DEF Admin, gateVars, AdminEntry, SessionExpires, AskToggle, KillKeyExpires
<1>10. CASE Tick
  BY <1>10 DEF Tick, switchVars
<1>11. CASE RedisRestarts
  BY <1>11 DEF RedisRestarts, KeysLost
<1>12. CASE UNCHANGED vars
  BY <1>12 DEF vars, gateVars, switchVars
<1> QED
  BY <1>1, <1>2, <1>3, <1>4, <1>5, <1>6, <1>7, <1>8, <1>9, <1>10, <1>11, <1>12
  DEF Next

-----------------------------------------------------------------------------
\* What the steps that concern neither a nonce nor the clock leave alone.
nonceVars == <<now, signed, timestamp, nonces, mortal, dies, restarts, accepted>>

LEMMA OtherSteps ==
  ASSUME IInv, UNCHANGED nonceVars,
         \A c \in Calls : stage'[c] \in {"nonce", "expire"} =>
           /\ stage'[c] = stage[c]
           /\ req'[c] = req[c]
           /\ readAt'[c] = readAt[c]
  PROVE  GateInv'
  BY DEF IInv, GateInv, nonceVars, StampsAreNear, ReadsAreRecent, LastChance,
         KeysOutlastWindow, AcceptedOnce

\* No step lets a request be accepted once too often.
LEMMA GateStep == IInv /\ [Next]_vars => GateInv'
<1> SUFFICES ASSUME IInv, [Next]_vars PROVE GateInv'
  OBVIOUS
<1> USE SignerAssumption
<1>t. TypeOK /\ TypeOK'
  BY TypeStep DEF IInv
<1>1. ASSUME NEW r \in Requests, NEW t \in (now - Skew)..(now + Skew),
             SignRequest(r, t)
      PROVE  GateInv'
  \* A request that is signed only now was accepted by nobody.
  <2>1. accepted[r] = 0 /\ r \notin signed
    BY <1>1, <1>t DEF SignRequest, IInv, TypeOK, StampsAreNear
  <2>2. /\ timestamp' = [timestamp EXCEPT ![r] = t]
        /\ signed' = signed \cup {r}
        /\ UNCHANGED <<now, nonces, mortal, dies, stage, req, readAt, restarts, accepted>>
    BY <1>1 DEF SignRequest
  <2>3. \A q \in Requests \ {r} : timestamp'[q] = timestamp[q]
    BY <2>2, <1>t DEF TypeOK
  <2>4. t <= now + Skew /\ timestamp'[r] = t
    BY <2>2, <1>t DEF TypeOK
  <2>5. StampsAreNear'
    BY <2>2, <2>3, <2>4, <1>t DEF IInv, StampsAreNear, TypeOK
  <2>6. ReadsAreRecent'
    BY <2>1, <2>2, <2>3, <1>t DEF IInv, ReadsAreRecent, TypeOK
  <2>7. KeysOutlastWindow' /\ AcceptedOnce'
    <3>1. accepted[r] # restarts + 1
      BY <2>1, <1>t DEF TypeOK
    <3> QED
      BY <2>2, <2>3, <3>1 DEF IInv, KeysOutlastWindow, AcceptedOnce, LastChance
  <2> QED
    BY <2>5, <2>6, <2>7 DEF GateInv
<1>2. ASSUME NEW r \in Requests, NonceExpires(r) PROVE GateInv'
  \* A key that goes has outlasted the window.
  <2>1. /\ r \in mortal /\ dies[r] <= now
        /\ nonces' = nonces \ {r} /\ mortal' = mortal \ {r}
        /\ dies' = [dies EXCEPT ![r] = 0]
        /\ UNCHANGED <<now, signed, timestamp, stage, req, readAt, restarts, accepted>>
    BY <1>2, <1>t DEF NonceExpires, TypeOK
  <2>2. StampsAreNear' /\ ReadsAreRecent' /\ AcceptedOnce'
    BY <2>1 DEF IInv, StampsAreNear, ReadsAreRecent, AcceptedOnce
  <2>3. LastChance(r) \in Int
    BY <1>t DEF LastChance, TypeOK
  <2>4. accepted[r] = restarts + 1 => LastChance(r) < now
    BY <2>1, <2>3, <1>t DEF IInv, KeysOutlastWindow, TypeOK
  <2>5. KeysOutlastWindow'
    BY <2>1, <2>4, <1>t DEF IInv, KeysOutlastWindow, LastChance, TypeOK
  <2> QED
    BY <2>2, <2>5 DEF GateInv
<1>3. ASSUME NEW r \in Requests, NEW c \in Calls, VerifyTimestamp(c, r) PROVE GateInv'
  <2>1. /\ r \in signed /\ timestamp[r] \in (now - Window)..(now + Window)
        /\ stage' = [stage EXCEPT ![c] = "nonce"]
        /\ req' = [req EXCEPT ![c] = r]
        /\ readAt' = [readAt EXCEPT ![c] = now]
        /\ UNCHANGED nonceVars
    BY <1>3 DEF VerifyTimestamp, nonceVars
  <2>2. StampsAreNear' /\ KeysOutlastWindow' /\ AcceptedOnce'
    BY <2>1 DEF IInv, StampsAreNear, KeysOutlastWindow, AcceptedOnce, LastChance,
                nonceVars
  <2>3. now <= timestamp[r] + Window /\ now <= now + MaxDelay
    BY <2>1, <1>t DEF TypeOK
  <2>4. ASSUME NEW d \in Calls
        PROVE  /\ stage'[d] \in {"nonce", "expire"} => req'[d] \in signed
               /\ stage'[d] = "nonce" => /\ readAt'[d] <= timestamp[req'[d]] + Window
                                         /\ now <= readAt'[d] + MaxDelay
    <3>1. CASE d = c
      BY <2>1, <2>3, <3>1, <1>t DEF TypeOK
    <3>2. CASE d # c
      BY <2>1, <3>2, <1>t DEF TypeOK, IInv, ReadsAreRecent
    <3> QED
      BY <3>1, <3>2
  <2> QED
    BY <2>1, <2>2, <2>4 DEF GateInv, ReadsAreRecent, nonceVars
<1>4. ASSUME NEW c \in Calls, SetNonce(c) PROVE GateInv'
  <2> DEFINE r == req[c]
  <2>1. /\ stage[c] = "nonce"
        /\ nonces' = nonces \cup {r}
        /\ accepted' = [accepted EXCEPT ![r] = IF r \notin nonces THEN accepted[r] + 1
                                                               ELSE accepted[r]]
        /\ stage' = [stage EXCEPT ![c] = IF r \notin nonces THEN "expire" ELSE "idle"]
        /\ readAt' = [readAt EXCEPT ![c] = 0]
        /\ UNCHANGED <<now, signed, timestamp, mortal, dies, req, restarts>>
    BY <1>4 DEF SetNonce
  <2>2. /\ r \in Requests /\ r \in signed
        /\ now <= LastChance(r)
    <3>1. /\ r \in signed /\ readAt[c] <= timestamp[r] + Window
          /\ now <= readAt[c] + MaxDelay
      BY <2>1 DEF IInv, ReadsAreRecent
    <3>2. r \in Requests /\ timestamp[r] \in Int /\ readAt[c] \in Int
      BY <1>t DEF TypeOK
    <3> QED
      BY <3>1, <3>2, <1>t DEF LastChance, TypeOK
  <2>3. StampsAreNear'
    BY <2>1, <2>2, <1>t DEF IInv, StampsAreNear, TypeOK
  <2>4. ReadsAreRecent'
    BY <2>1, <2>2, <1>t DEF IInv, ReadsAreRecent, TypeOK
  <2>5. KeysOutlastWindow' /\ AcceptedOnce'
    <3>1. CASE r \in nonces
      <4>1. accepted' = accepted /\ nonces' = nonces
        BY <2>1, <3>1, <1>t DEF TypeOK
      <4> QED
        BY <2>1, <4>1 DEF IInv, KeysOutlastWindow, AcceptedOnce, LastChance
    <3>2. CASE r \notin nonces
      <4>1. accepted[r] # restarts + 1
        BY <2>2, <3>2, <1>t DEF IInv, KeysOutlastWindow, TypeOK, LastChance
      <4>2. /\ accepted'[r] = accepted[r] + 1
            /\ accepted[r] <= restarts + 1
            /\ accepted[r] \in Nat /\ restarts \in Nat
        BY <2>1, <2>2, <3>2, <1>t DEF IInv, AcceptedOnce, TypeOK
      <4>3. r \in nonces' /\ r \notin mortal'
        BY <2>1, <3>2, <1>t DEF TypeOK
      <4>4. \A q \in Requests \ {r} : accepted'[q] = accepted[q]
        BY <2>1, <1>t DEF TypeOK
      <4>5. KeysOutlastWindow'
        BY <2>1, <4>3, <4>4 DEF IInv, KeysOutlastWindow, LastChance
      <4>6. AcceptedOnce'
        BY <2>1, <4>1, <4>2, <4>4 DEF IInv, AcceptedOnce
      <4> QED
        BY <4>5, <4>6
    <3> QED
      BY <3>1, <3>2
  <2> QED
    BY <2>3, <2>4, <2>5 DEF GateInv
<1>5. ASSUME NEW c \in Calls, ExpireNonce(c) PROVE GateInv'
  <2> DEFINE r == req[c]
  <2>1. /\ stage[c] = "expire"
        /\ mortal' = IF r \in nonces THEN mortal \cup {r} ELSE mortal
        /\ dies' = [dies EXCEPT ![r] = IF r \in nonces THEN now + Life ELSE dies[r]]
        /\ stage' = [stage EXCEPT ![c] = "switch"]
        /\ UNCHANGED <<now, signed, timestamp, nonces, req, readAt, restarts, accepted>>
    BY <1>5 DEF ExpireNonce
  <2>2. r \in Requests /\ LastChance(r) < now + Life
    <3>1. r \in signed /\ r \in Requests
      BY <2>1, <1>t DEF IInv, ReadsAreRecent, TypeOK
    <3>2. timestamp[r] <= now + Skew /\ timestamp[r] \in Int
      BY <3>1, <1>t DEF IInv, StampsAreNear, TypeOK
    <3> QED
      BY <3>1, <3>2, <1>t DEF LastChance, TypeOK
  <2>3. StampsAreNear' /\ AcceptedOnce'
    BY <2>1 DEF IInv, StampsAreNear, AcceptedOnce
  <2>4. ReadsAreRecent'
    BY <2>1, <1>t DEF IInv, ReadsAreRecent, TypeOK
  <2>5. ASSUME NEW q \in Requests, accepted'[q] = restarts' + 1
        PROVE  \/ q \in nonces' /\ (q \in mortal' => LastChance(q) < dies'[q])
               \/ LastChance(q) < now
    <3>1. \/ q \in nonces /\ (q \in mortal => LastChance(q) < dies[q])
          \/ LastChance(q) < now
      BY <2>1, <2>5 DEF IInv, KeysOutlastWindow
    <3>2. CASE q = r
      BY <2>1, <2>2, <3>1, <3>2, <1>t DEF TypeOK
    <3>3. CASE q # r
      BY <2>1, <3>1, <3>3, <1>t DEF TypeOK
    <3> QED
      BY <3>2, <3>3
  <2>6. KeysOutlastWindow'
    BY <2>1, <2>5 DEF KeysOutlastWindow, LastChance
  <2> QED
    BY <2>3, <2>4, <2>6 DEF GateInv
<1>6. ASSUME NEW c \in Calls,
             \/ CheckKillSwitch(c)
             \/ CheckFindsNone(c)
             \/ CheckCreates(c)
             \/ Ends(c)
      PROVE  GateInv'
  <2>1. PICK point \in {"idle", "create", "passed"} : Moves(c, point)
    BY <1>6 DEF CheckKillSwitch, CheckFindsNone, CheckCreates, Ends
  <2>2. UNCHANGED nonceVars
    BY <2>1 DEF Moves, nonceVars
  <2>3. \A d \in Calls : stage'[d] \in {"nonce", "expire"} =>
           stage'[d] = stage[d] /\ req'[d] = req[d] /\ readAt'[d] = readAt[d]
    BY <2>1, <1>t DEF Moves, TypeOK
  <2> QED
    BY <2>2, <2>3, OtherSteps
<1>7. CASE \/ \E t \in Tasks : Toggle(t) \/ Bot(t)
           \/ \E a \in Admins : Admin(a)
           \/ UNCHANGED vars
  <2>1. UNCHANGED gateVars
    BY <1>7 DEF Toggle, Bot, Admin, vars
  <2> QED
    BY <2>1, OtherSteps DEF gateVars, nonceVars
<1>8. CASE Tick
  <2>1. /\ now' = now + 1
        /\ \A c \in Calls : stage[c] = "nonce" => now < readAt[c] + MaxDelay
        /\ UNCHANGED <<signed, timestamp, nonces, mortal, dies, stage, req, readAt,
                       restarts, accepted>>
    BY <1>8 DEF Tick
  <2>2. StampsAreNear'
    BY <2>1, <1>t DEF IInv, StampsAreNear, TypeOK
  <2>3. ReadsAreRecent'
    BY <2>1, <1>t DEF IInv, ReadsAreRecent, TypeOK
  <2>4. ASSUME NEW r \in Requests, LastChance(r) < now PROVE LastChance(r) < now'
    BY <2>1, <2>4, <1>t DEF LastChance, TypeOK
  <2>5. KeysOutlastWindow' /\ AcceptedOnce'
    BY <2>1, <2>4 DEF IInv, KeysOutlastWindow, AcceptedOnce, LastChance
  <2> QED
    BY <2>2, <2>3, <2>5 DEF GateInv
<1>9. CASE RedisRestarts
  \* A new life allows every request once more.
  <2>1. /\ restarts' = restarts + 1
        /\ UNCHANGED <<now, signed, timestamp, stage, req, readAt, accepted>>
    BY <1>9 DEF RedisRestarts
  <2>2. StampsAreNear' /\ ReadsAreRecent'
    BY <2>1 DEF IInv, StampsAreNear, ReadsAreRecent
  <2>3. \A r \in Requests : accepted'[r] <= restarts' /\ accepted'[r] # restarts' + 1
    BY <2>1, <1>t DEF IInv, AcceptedOnce, TypeOK
  <2>4. KeysOutlastWindow' /\ AcceptedOnce'
    BY <2>1, <2>3, <1>t DEF KeysOutlastWindow, AcceptedOnce, TypeOK
  <2> QED
    BY <2>2, <2>4 DEF GateInv
<1> QED
  BY <1>1, <1>2, <1>3, <1>4, <1>5, <1>6, <1>7, <1>8, <1>9 DEF Next

\* The inductive invariant holds in every behaviour.
THEOREM Invariance == Spec => []IInv
<1>1. IInv /\ [Next]_vars => IInv'
  BY TypeStep, StopsStep, GateStep DEF IInv, GateInv
<1> QED
  BY InitInv, <1>1, PTL DEF Spec

\* A request is accepted once for each life of Redis: the margins of the
\* window, the clocks and the life of a key suffice.
THEOREM NoReplay == Spec => []AcceptedOnce
<1>1. IInv => AcceptedOnce
  BY DEF IInv
<1> QED
  BY Invariance, <1>1, PTL

\* Once the switch is on, only handlers that were past it then go on to pay.
THEOREM SwitchHolds == Spec => []SwitchStops
<1>1. IInv => SwitchStops
  BY DEF IInv
<1> QED
  BY Invariance, <1>1, PTL
=============================================================================
