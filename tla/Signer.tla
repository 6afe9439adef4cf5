------------------------------- MODULE Signer -------------------------------
(***************************************************************************)
(* What a signed request passes in the signer before anything is paid:     *)
(* verify_timestamp and verify_nonce (trustora/signer_security.py), which  *)
(* both of its handlers call, and check_kill_switch, which handle_payout   *)
(* calls next (services/signer/main.py).  The switch is KillSwitch's; here *)
(* its transactions are those of the bot's handlers and of the signer's.   *)
(*                                                                         *)
(* The clock counts seconds, as int(time.time()) does.  A request may be   *)
(* delivered late and more than once, to handlers that interleave; the     *)
(* bot's clock may be off.  A signature is taken to be the bot's.          *)
(***************************************************************************)
EXTENDS KillSwitch, Integers

CONSTANTS
  Calls,        \* those of the Tasks that run in the signer
  EnvPaused,    \* settings.pause_payouts, which no tap changes
  Requests,     \* requests the bot signs, each with a nonce of its own
  Window,       \* 60: how far a timestamp may be from the clock
  Life,         \* 120: the life of a nonce key
  Skew,         \* how far the bot's clock is from the signer's
  MaxDelay,     \* how long a handler takes from the clock to its nonce key
  MaxNow,       \* the clock stops here (bound)
  MaxRestarts   \* restarts of Redis (bound)

\* The margins that make a life of 120 seconds enough for a window of 60.
ASSUME SignerAssumption ==
  /\ Calls \subseteq Tasks
  /\ EnvPaused \in BOOLEAN
  /\ {Window, Life, Skew, MaxDelay, MaxNow, MaxRestarts} \subseteq Nat
  /\ Window + Skew + MaxDelay < Life

VARIABLES
  now,        \* the signer's clock
  signed,     \* requests signed so far
  timestamp,  \* timestamp[r]: what the bot's clock said then
  nonces,     \* Redis nonce:<nonce> keys
  mortal,     \* those of them that were given a life
  dies,       \* dies[r]: when the key of such a request goes, 0 without one
  stage,      \* stage[c]: what handler c does next
  req,        \* req[c]: its request
  readAt,     \* readAt[c]: when it compared the timestamp, 0 once it is past that
  restarts,   \* restarts of Redis
  accepted,   \* history: how often each request got past its nonce
  inside      \* history: handlers past the check when the switch was turned on

gateVars == <<now, signed, timestamp, nonces, mortal, dies, stage, req, readAt,
              restarts, accepted>>
vars == <<switchVars, gateVars, inside>>

TypeOK ==
  /\ SwitchTypeOK
  /\ now \in Nat
  /\ signed \subseteq Requests
  /\ timestamp \in [Requests -> Int]
  /\ nonces \subseteq Requests
  /\ mortal \subseteq nonces
  /\ dies \in [Requests -> Nat]
  /\ stage \in [Calls -> {"idle", "nonce", "expire", "switch", "create", "passed"}]
  /\ req \in [Calls -> Requests]
  /\ readAt \in [Calls -> Nat]
  /\ restarts \in Nat
  /\ accepted \in [Requests -> Nat]
  /\ inside \subseteq Calls

Init ==
  /\ SwitchInit
  /\ now = 0
  /\ signed = {}
  /\ timestamp = [r \in Requests |-> 0]
  /\ nonces = {}
  /\ mortal = {}
  /\ dies = [r \in Requests |-> 0]
  /\ stage = [c \in Calls |-> "idle"]
  /\ req \in [Calls -> Requests]
  /\ readAt = [c \in Calls |-> 0]
  /\ restarts = 0
  /\ accepted = [r \in Requests |-> 0]
  /\ inside = {}

-----------------------------------------------------------------------------
(* The requests and the nonces.                                            *)

\* approve_and_send_payout and request_deposit_address sign with the bot's
\* clock.
SignRequest(r, t) ==
  /\ r \notin signed
  /\ t \in (now - Skew)..(now + Skew)
  /\ signed' = signed \cup {r}
  /\ timestamp' = [timestamp EXCEPT ![r] = t]
  /\ UNCHANGED <<switchVars, now, nonces, mortal, dies, stage, req, readAt,
                 restarts, accepted, inside>>

\* Delivered, for the first time or again: verify_timestamp lets it pass.
VerifyTimestamp(c, r) ==
  /\ stage[c] = "idle"
  /\ r \in signed
  /\ timestamp[r] \in (now - Window)..(now + Window)
  /\ stage' = [stage EXCEPT ![c] = "nonce"]
  /\ req' = [req EXCEPT ![c] = r]
  /\ readAt' = [readAt EXCEPT ![c] = now]
  /\ UNCHANGED <<switchVars, now, signed, timestamp, nonces, mortal, dies,
                 restarts, accepted, inside>>

\* setnx: "Replay detected" where the key exists.
SetNonce(c) ==
  LET r == req[c]
      new == r \notin nonces
  IN
  /\ stage[c] = "nonce"
  /\ nonces' = nonces \cup {r}
  /\ accepted' = [accepted EXCEPT ![r] = IF new THEN @ + 1 ELSE @]
  /\ stage' = [stage EXCEPT ![c] = IF new THEN "expire" ELSE "idle"]
  /\ readAt' = [readAt EXCEPT ![c] = 0]
  /\ UNCHANGED <<switchVars, now, signed, timestamp, mortal, dies, req, restarts,
                 inside>>

\* A slip: the key lives as long as the window.
ExpireNonceSoon(c) ==
  LET r == req[c]
  IN
  /\ stage[c] = "expire"
  /\ mortal' = IF r \in nonces THEN mortal \cup {r} ELSE mortal
  /\ dies' = [dies EXCEPT ![r] = IF r \in nonces THEN now + Window ELSE @]
  /\ stage' = [stage EXCEPT ![c] = "switch"]
  /\ UNCHANGED <<switchVars, now, signed, timestamp, nonces, req, readAt,
                 restarts, accepted, inside>>

\* expire, a call of its own, which finds nothing when Redis lost the key.
ExpireNonce(c) ==
  LET r == req[c]
  IN
  /\ stage[c] = "expire"
  /\ mortal' = IF r \in nonces THEN mortal \cup {r} ELSE mortal
  /\ dies' = [dies EXCEPT ![r] = IF r \in nonces THEN now + Life ELSE @]
  /\ stage' = [stage EXCEPT ![c] = "switch"]
  /\ UNCHANGED <<switchVars, now, signed, timestamp, nonces, req, readAt,
                 restarts, accepted, inside>>

NonceExpires(r) ==
  /\ r \in mortal
  /\ now >= dies[r]
  /\ nonces' = nonces \ {r}
  /\ mortal' = mortal \ {r}
  /\ dies' = [dies EXCEPT ![r] = 0]
  /\ UNCHANGED <<switchVars, now, signed, timestamp, stage, req, readAt, restarts,
                 accepted, inside>>

Tick ==
  /\ now < MaxNow
  /\ \A c \in Calls : stage[c] = "nonce" => now < readAt[c] + MaxDelay
  /\ now' = now + 1
  /\ UNCHANGED <<switchVars, signed, timestamp, nonces, mortal, dies, stage, req,
                 readAt, restarts, accepted, inside>>

RedisRestarts ==
  /\ restarts < MaxRestarts
  /\ restarts' = restarts + 1
  /\ nonces' = {}
  /\ mortal' = {}
  /\ dies' = [r \in Requests |-> 0]
  /\ KeysLost
  /\ UNCHANGED <<now, signed, timestamp, stage, req, readAt, accepted, inside>>

-----------------------------------------------------------------------------
(* The switch.                                                             *)

Moves(c, point) ==
  /\ stage' = [stage EXCEPT ![c] = point]
  /\ inside' = IF point = "idle" THEN inside \ {c} ELSE inside
  /\ readAt' = [readAt EXCEPT ![c] = 0]
  /\ UNCHANGED <<now, signed, timestamp, nonces, mortal, dies, req, restarts,
                 accepted>>

\* check_kill_switch is told by the settings or finds the row: "Payouts
\* paused", or on to the limits.
CheckKillSwitch(c) ==
  /\ stage[c] = "switch"
  /\ EnvPaused \/ row # "absent"
  /\ Moves(c, IF EnvPaused \/ row = "on" THEN "idle" ELSE "passed")
  /\ UNCHANGED switchVars

\* It finds none, and reads the default it is about to insert.
CheckFindsNone(c) ==
  /\ stage[c] = "switch"
  /\ ~EnvPaused
  /\ ReadConfig(c)
  /\ Moves(c, "create")

\* A slip: a failed insert is passed over.
CheckCreatesAnyway(c) ==
  /\ stage[c] = "create"
  /\ CommitConfig(c)
  /\ Moves(c, "passed")

\* Its transaction commits; a failed insert is answered as 500.
CheckCreates(c) ==
  /\ stage[c] = "create"
  /\ CommitConfig(c)
  /\ Moves(c, IF WriteSucceeds(c) THEN "passed" ELSE "idle")

\* The limits, the row and the broadcast, which Payout has; or the handler
\* raises or dies.
Ends(c) ==
  /\ stage[c] # "idle"
  /\ IF stage[c] = "create" THEN RollBack(c) ELSE UNCHANGED switchVars
  /\ Moves(c, "idle")

Past == {c \in Calls : stage[c] = "passed"}

\* The commit of a toggle in the bot.
Toggle(t) ==
  /\ CommitToggle(t)
  /\ inside' = IF row # "on" /\ row' = "on" THEN Past ELSE inside
  /\ UNCHANGED gateVars

Bot(t) ==
  /\ \/ ReadConfig(t)
     \/ CommitConfig(t)
     \/ RollBack(t)
     \/ \E a \in Admins : ReadToggle(a, t)
  /\ UNCHANGED <<gateVars, inside>>

Admin(a) ==
  /\ \/ AdminEntry(a)
     \/ SessionExpires(a)
     \/ AskToggle(a)
     \/ KillKeyExpires(a)
  /\ UNCHANGED <<gateVars, inside>>

Next ==
  \/ \E r \in Requests :
       \/ \E t \in (now - Skew)..(now + Skew) : SignRequest(r, t)
       \/ NonceExpires(r)
       \/ \E c \in Calls : VerifyTimestamp(c, r)
  \/ \E c \in Calls :
       \/ SetNonce(c)
       \/ ExpireNonce(c)
       \/ CheckKillSwitch(c)
       \/ CheckFindsNone(c)
       \/ CheckCreates(c)
       \/ Ends(c)
  \/ \E t \in Tasks \ Calls : Toggle(t) \/ Bot(t)
  \/ \E a \in Admins : Admin(a)
  \/ Tick
  \/ RedisRestarts

Spec == Init /\ [][Next]_vars

-----------------------------------------------------------------------------
(* Properties.                                                             *)

\* A request is accepted once for each life of Redis, however late and often
\* it is delivered: no key goes while its timestamp still passes.
AcceptedOnce == \A r \in Requests : accepted[r] <= restarts + 1

\* While the switch is on, the handlers on their way to a payout are among
\* those that were past the check when it was turned on, whoever created or
\* toggled the row meanwhile.
SwitchStops == row = "on" => Past \subseteq inside

-----------------------------------------------------------------------------
(* The inductive invariant behind them.                                    *)

\* A timestamp is no further ahead of the clock than the bot's clock was.
StampsAreNear ==
  /\ \A r \in signed : timestamp[r] <= now + Skew
  /\ \A r \in Requests : accepted[r] > 0 => r \in signed

\* A handler that is about to set its nonce key compared the timestamp at most
\* MaxDelay ago.
ReadsAreRecent ==
  \A c \in Calls :
    /\ stage[c] \in {"nonce", "expire"} => req[c] \in signed
    /\ stage[c] = "nonce" => /\ readAt[c] <= timestamp[req[c]] + Window
                             /\ now <= readAt[c] + MaxDelay

\* The last moment at which some handler may set the nonce key of r.
LastChance(r) == timestamp[r] + Window + MaxDelay

\* Once a request was accepted as often as it may be, its key is there until
\* nobody can set it again.
KeysOutlastWindow ==
  \A r \in Requests :
    accepted[r] = restarts + 1 =>
      \/ r \in nonces /\ (r \in mortal => LastChance(r) < dies[r])
      \/ LastChance(r) < now

\* What holds in every reachable state, and is kept by every step.
IInv ==
  /\ TypeOK
  /\ SwitchIInv
  /\ StampsAreNear
  /\ ReadsAreRecent
  /\ KeysOutlastWindow
  /\ AcceptedOnce
  /\ SwitchStops
=============================================================================
