----------------------------- MODULE KillSwitch -----------------------------
(***************************************************************************)
(* The config row and the kill switch in it: admin_kill_switch in the bot  *)
(* (app/main.py), get_config and update_config (trustora/config_service.py)*)
(* and the two other readers of the row, confirm_network in the bot and    *)
(* check_kill_switch in the signer, which create it when it is missing.    *)
(*                                                                         *)
(* A transaction reads the row without a lock and writes it when it        *)
(* commits; a handler is cut between the two.  Of the row only the switch  *)
(* matters: no reachable handler changes the fees in it.                   *)
(***************************************************************************)
EXTENDS Naturals, Sequences

CONSTANTS
  Admins,    \* the ids in settings.admin_ids
  Tasks,     \* handlers that may be under way at once
  MaxTaps    \* taps on the Kill Switch button in all (bound)

ASSUME TapsAssumption == MaxTaps \in Nat

VARIABLES
  row,       \* pause_payouts of the config row, or "absent"
  history,   \* config_history: the switch before and after, in commit order
  session,   \* Redis admin:<id> keys
  killKey,   \* Redis confirm:kill:<id> keys
  at,        \* at[t]: "idle", "toggle" or "create"
  got,       \* got[t]: the row as the transaction of t read it
  taps       \* taps on the button so far, which MaxTaps bounds

switchVars == <<row, history, session, killKey, at, got, taps>>

Switch == {"on", "off"}
Rows == Switch \cup {"absent"}
Change == [old : Switch, new : Switch]

SwitchTypeOK ==
  /\ row \in Rows
  /\ history \in Seq(Change)
  /\ session \subseteq Admins
  /\ killKey \subseteq Admins
  /\ at \in [Tasks -> {"idle", "toggle", "create"}]
  /\ got \in [Tasks -> Rows]
  /\ taps \in Nat

SwitchInit ==
  /\ row = "absent"
  /\ history = <<>>
  /\ session = {}
  /\ killKey = {}
  /\ at = [t \in Tasks |-> "idle"]
  /\ got = [t \in Tasks |-> "absent"]
  /\ taps = 0

\* DEFAULT_CONFIG stands for a missing row.
SwitchIn(r) == IF r = "absent" THEN "off" ELSE r

Flip(s) == IF s = "on" THEN "off" ELSE "on"

-----------------------------------------------------------------------------
AdminEntry(a) ==
  /\ session' = session \cup {a}
  /\ UNCHANGED <<row, history, killKey, at, got, taps>>

SessionExpires(a) ==
  /\ a \in session
  /\ session' = session \ {a}
  /\ UNCHANGED <<row, history, killKey, at, got, taps>>

\* admin_kill_switch, the tap that asks for another one.
AskToggle(a) ==
  /\ a \in session \ killKey
  /\ taps < MaxTaps
  /\ taps' = taps + 1
  /\ killKey' = killKey \cup {a}
  /\ UNCHANGED <<row, history, session, at, got>>

\* 120 seconds pass.
KillKeyExpires(a) ==
  /\ a \in killKey
  /\ killKey' = killKey \ {a}
  /\ UNCHANGED <<row, history, session, at, got, taps>>

\* A tap while the key lives, as far as the read of the row.
ReadToggle(a, t) ==
  /\ at[t] = "idle"
  /\ a \in session \cap killKey
  /\ taps < MaxTaps
  /\ taps' = taps + 1
  /\ at' = [at EXCEPT ![t] = "toggle"]
  /\ got' = [got EXCEPT ![t] = row]
  /\ UNCHANGED <<row, history, session, killKey>>

\* Redis restarts and comes back without its keys.
KeysLost ==
  /\ session' = {}
  /\ killKey' = {}
  /\ UNCHANGED <<row, history, at, got, taps>>

\* get_config in confirm_network or in check_kill_switch: it has something to
\* write only when the row is missing.
ReadConfig(t) ==
  /\ at[t] = "idle"
  /\ row = "absent"
  /\ at' = [at EXCEPT ![t] = "create"]
  /\ got' = [got EXCEPT ![t] = row]
  /\ UNCHANGED <<row, history, session, killKey, taps>>

\* A slip: the default row is merged into the table instead of inserted.
Merges(t) == TRUE

\* The insert of a second row with id 1 fails; an update finds its row.
WriteSucceeds(t) == got[t] = "absent" => row = "absent"

\* The commit of update_config: what was read, flipped, with its history.
CommitToggle(t) ==
  LET new == Flip(SwitchIn(got[t]))
      change == [old |-> SwitchIn(got[t]), new |-> new]
  IN
  /\ at[t] = "toggle"
  /\ at' = [at EXCEPT ![t] = "idle"]
  /\ row' = IF WriteSucceeds(t) THEN new ELSE row
  /\ history' = IF WriteSucceeds(t) THEN Append(history, change) ELSE history
  /\ UNCHANGED <<session, killKey, got, taps>>

\* The commit of a transaction that found no row.
CommitConfig(t) ==
  /\ at[t] = "create"
  /\ at' = [at EXCEPT ![t] = "idle"]
  /\ row' = IF WriteSucceeds(t) THEN SwitchIn("absent") ELSE row
  /\ UNCHANGED <<history, session, killKey, got, taps>>

\* The transaction is rolled back, by an exception or a crash.
RollBack(t) ==
  /\ at[t] # "idle"
  /\ at' = [at EXCEPT ![t] = "idle"]
  /\ UNCHANGED <<row, history, session, killKey, got, taps>>

SwitchNext ==
  \/ \E a \in Admins :
       \/ AdminEntry(a)
       \/ SessionExpires(a)
       \/ AskToggle(a)
       \/ KillKeyExpires(a)
       \/ \E t \in Tasks : ReadToggle(a, t)
  \/ \E t \in Tasks :
       \/ ReadConfig(t)
       \/ CommitToggle(t)
       \/ CommitConfig(t)
       \/ RollBack(t)
  \/ KeysLost

SwitchSpec == SwitchInit /\ [][SwitchNext]_switchVars

-----------------------------------------------------------------------------
(* Properties.                                                             *)

\* The switch is where the last change in config_history left it: a service
\* that creates the missing row never undoes a toggle that got there first.
SwitchIsLastChange ==
  IF history = <<>> THEN row \in {"absent", SwitchIn("absent")}
  ELSE row = history[Len(history)].new

\* Only a transaction that found no row creates one.
CreatesWhenAbsent == \A t \in Tasks : at[t] = "create" => got[t] = "absent"

\* What holds in every reachable state, and is kept by every step.
SwitchIInv == SwitchTypeOK /\ CreatesWhenAbsent /\ SwitchIsLastChange
=============================================================================
