------------------------------ MODULE Opening -------------------------------
(***************************************************************************)
(* How an escrow is opened: the dialogue of EscrowFlow in the bot          *)
(* (app/main.py), the deposit address its last handler asks the signer for *)
(* (handle_address and pick_address, services/signer/main.py), and the row *)
(* that joins the two.                                                     *)
(*                                                                         *)
(* aiogram runs a task per message and keeps the state and the data of a   *)
(* dialogue in Redis: the state is read when a message is dispatched, and  *)
(* the handler it selects awaits each of its reads and writes, so that     *)
(* messages interleave and a crash leaves a dialogue where it was.  Its    *)
(* update_data is two of them, a read of all the data and a write of all   *)
(* of it.  In the signer, deposit_used keys in Redis keep an address from  *)
(* being handed out again for 24 hours.                                    *)
(*                                                                         *)
(* Of the data only the chain and the payout address matter, the latter    *)
(* told by the chain it is valid for; the other answers are taken to be    *)
(* there.  Answers refused for their form change nothing and are left out. *)
(***************************************************************************)
EXTENDS Naturals

CONSTANTS
  Users,     \* those who open escrows
  Tasks,     \* messages that may be handled at once
  Of,        \* Of[m]: whose message m is
  Keys,      \* Keys[c]: the length of the signer's key list for chain c
  Rows,      \* places for escrows that wait for money at once (bound)
  MaxStops   \* handlers that raise, time out or die with their process (bound)

Chains == {"TRC20", "BEP20"}

ASSUME OpeningAssumption ==
  /\ Of \in [Tasks -> Users]
  /\ Keys \in [Chains -> Nat]
  /\ MaxStops \in Nat

None == "none"
NoAddress == <<None, 0>>
Addresses == UNION {{c} \X (1..Keys[c]) : c \in Chains}

Answers == {"seller_id", "amount", "chain", "payout_address"}

\* The state that follows each answer.
After == [seller_id |-> "amount", amount |-> "chain", chain |-> "payout_address",
          payout_address |-> "confirm_network"]

States == Answers \cup {"confirm_network"}
Points == States \cup {"idle", "waiting", "answered", "row inserted", "state cleared"}

VARIABLES
  state,     \* state[u]: the FSM state, None outside a dialogue
  data,      \* data[u]: the chain and the payout address stored
  task,      \* task[m]: the state that selected the handler of m, or the point it
             \* has reached; the steps taken for an answer; what m names and the
             \* data it has read; and the address the signer answered
  signer,    \* signer[m]: the signer's handler for m: its point, chain, position
  used,      \* Redis deposit_used:<chain>:<address> keys
  row,       \* row[k]: the k-th of the escrow rows that wait for money
  stops,     \* handlers stopped so far, which MaxStops bounds
  crossed,   \* history: users who sent a message while another was handled
  lapsed,    \* history: addresses whose key went while they were held
  contested  \* history: addresses held by one that marked them while another
             \* handler stood between its read and its write of their key

vars == <<state, data, task, signer, used, row, stops, crossed,
          lapsed, contested>>
dialogue == <<state, data>>
past == <<stops, crossed, lapsed, contested>>

Data == [chain : Chains \cup {None}, payout : Chains \cup {None}]
Handler == [at : Points, step : {"start", "valid", "read", "written"},
            chain : Chains \cup {None}, payout : Chains \cup {None},
            address : Addresses \cup {NoAddress}]
SignerHandler == [at : {"off", "get", "set", "fund"}, chain : Chains, key : Nat \ {0}]
Escrow == [buyer : Users, chain : Chains, payout : Chains, address : Addresses]
NoData == [chain |-> None, payout |-> None]
Idle == [at |-> "idle", step |-> "start", chain |-> None, payout |-> None,
         address |-> NoAddress]
NoRow == [buyer |-> None, chain |-> None, payout |-> None, address |-> NoAddress]
Off == [at |-> "off", chain |-> "TRC20", key |-> 1]

TypeOK ==
  /\ state \in [Users -> States \cup {None}]
  /\ data \in [Users -> Data]
  /\ task \in [Tasks -> Handler]
  /\ signer \in [Tasks -> SignerHandler]
  /\ used \subseteq Addresses
  /\ row \in [Rows -> Escrow \cup {NoRow}]
  /\ stops \in 0..MaxStops
  /\ crossed \subseteq Users
  /\ lapsed \subseteq Addresses
  /\ contested \subseteq Addresses

Init ==
  /\ state = [u \in Users |-> None]
  /\ data = [u \in Users |-> NoData]
  /\ task = [m \in Tasks |-> Idle]
  /\ signer = [m \in Tasks |-> Off]
  /\ used = {}
  /\ row = [k \in Rows |-> NoRow]
  /\ stops = 0
  /\ crossed = {}
  /\ lapsed = {}
  /\ contested = {}

Goto(m, point) == task' = [task EXCEPT ![m] = [Idle EXCEPT !.at = point]]

\* A message of m's user arrives, perhaps while another is handled.
Arrives(m) ==
  /\ task[m].at = "idle"
  /\ crossed' = IF \E n \in Tasks : Of[n] = Of[m] /\ task[n].at # "idle"
                  THEN crossed \cup {Of[m]} ELSE crossed

-----------------------------------------------------------------------------
(* The dialogue.                                                           *)

\* /start, and the end of a dialogue: state.clear() drops the state, then the
\* data.
HandleStart(m) ==
  /\ Arrives(m)
  /\ state' = [state EXCEPT ![Of[m]] = None]
  /\ Goto(m, "state cleared")
  /\ UNCHANGED <<data, signer, used, row, stops, lapsed, contested>>

DropData(m) ==
  /\ task[m].at = "state cleared"
  /\ data' = [data EXCEPT ![Of[m]] = NoData]
  /\ Goto(m, "idle")
  /\ UNCHANGED <<state, signer, used, row, past>>

\* "New Escrow": the state starts over, the data of an earlier dialogue stays.
NewEscrow(m) ==
  /\ Arrives(m)
  /\ state' = [state EXCEPT ![Of[m]] = "seller_id"]
  /\ UNCHANGED <<data, task, signer, used, row, stops, lapsed, contested>>

\* The filters of create_app: the state selects the handler of any other
\* message, which names a chain or an address valid for one.
Dispatch(m, x) ==
  LET s == state[Of[m]]
  IN
  /\ Arrives(m)
  /\ s # None
  /\ task' = [task EXCEPT ![m] =
                [Idle EXCEPT !.at = s,
                             !.chain = IF s = "chain" THEN x ELSE None,
                             !.payout = IF s = "payout_address" THEN x ELSE None]]
  /\ UNCHANGED <<dialogue, signer, used, row, stops, lapsed, contested>>

\* A slip: an address of either chain is taken.
AnyAddress(m) == data[Of[m]].chain # None

\* validate_address(chain, address), for the chain stored by now; without one
\* the handler raises.
AddressFits(m) == task[m].payout = data[Of[m]].chain

\* set_payout_address: "Invalid address for selected chain.", or on.
ValidateAddress(m) ==
  /\ task[m].at = "payout_address"
  /\ task[m].step = "start"
  /\ task' = [task EXCEPT ![m] = IF AddressFits(m) THEN [@ EXCEPT !.step = "valid"]
                                 ELSE Idle]
  /\ UNCHANGED <<dialogue, signer, used, row, past>>

\* update_data, in each of the four answers: the data are read,
ReadData(m) ==
  LET t == task[m]
      d == data[Of[m]]
  IN
  /\ t.at \in Answers
  /\ t.step = IF t.at = "payout_address" THEN "valid" ELSE "start"
  /\ task' = [task EXCEPT ![m] =
                [t EXCEPT !.step = "read",
                          !.chain = IF t.at = "chain" THEN @ ELSE d.chain,
                          !.payout = IF t.at = "payout_address" THEN @ ELSE d.payout]]
  /\ UNCHANGED <<dialogue, signer, used, row, past>>

\* and written with the answer among them.
WriteData(m) ==
  /\ task[m].step = "read"
  /\ data' = [data EXCEPT ![Of[m]] =
                [chain |-> task[m].chain, payout |-> task[m].payout]]
  /\ task' = [task EXCEPT ![m] = [Idle EXCEPT !.at = task[m].at, !.step = "written"]]
  /\ UNCHANGED <<state, signer, used, row, past>>

\* set_state, the handler's last write.
SetState(m) ==
  /\ task[m].step = "written"
  /\ state' = [state EXCEPT ![Of[m]] = After[task[m].at]]
  /\ Goto(m, "idle")
  /\ UNCHANGED <<data, signer, used, row, past>>

\* confirm_network reads the data and asks the signer for an address of its
\* chain; without a chain it raises.
RequestAddress(m) ==
  LET d == data[Of[m]]
  IN
  /\ task[m].at = "confirm_network"
  /\ signer[m].at = "off"
  /\ IF d.chain = None
       THEN Goto(m, "idle") /\ UNCHANGED signer
       ELSE /\ task' = [task EXCEPT ![m] =
                          [Idle EXCEPT !.at = "waiting", !.chain = d.chain,
                                       !.payout = d.payout]]
            /\ signer' = [signer EXCEPT ![m] =
                            [at |-> "get", chain |-> d.chain, key |-> 1]]
  /\ UNCHANGED <<dialogue, used, row, past>>

\* The row is inserted from what was read; without a payout address the
\* handler raises.
InsertRow(m, k) ==
  /\ task[m].at = "answered"
  /\ row[k] = NoRow
  /\ IF task[m].payout = None
       THEN Goto(m, "idle") /\ UNCHANGED row
       ELSE /\ row' = [row EXCEPT ![k] =
                         [buyer |-> Of[m], chain |-> task[m].chain,
                          payout |-> task[m].payout, address |-> task[m].address]]
            /\ Goto(m, "row inserted")
  /\ UNCHANGED <<dialogue, signer, used, past>>

\* state.clear(), whatever dialogue the user is in by now.
ClearState(m) ==
  /\ task[m].at = "row inserted"
  /\ state' = [state EXCEPT ![Of[m]] = None]
  /\ Goto(m, "state cleared")
  /\ UNCHANGED <<data, signer, used, row, past>>

Stop ==
  /\ stops < MaxStops
  /\ stops' = stops + 1
  /\ UNCHANGED <<crossed, lapsed, contested>>

\* The 10 seconds for the answer pass, the handler raises or the bot dies: the
\* dialogue is still in Redis.
BotStops(m) ==
  /\ Stop
  /\ task[m].at # "idle"
  /\ Goto(m, "idle")
  /\ UNCHANGED <<dialogue, signer, used, row>>

-----------------------------------------------------------------------------
(* The signer.                                                             *)

Asked(m) == <<signer[m].chain, signer[m].key>>

\* The handler has found a's key free and has not written it yet.
AboutToMark(m, a) == signer[m].at = "set" /\ Asked(m) = a

SignerGoto(m, point) == signer' = [signer EXCEPT ![m].at = point]

\* The handler ends, with an address or none; a bot that has given up does not
\* hear of it.
Answer(m, a) ==
  /\ signer' = [signer EXCEPT ![m] = Off]
  /\ IF task[m].at = "waiting"
       THEN task' = [task EXCEPT ![m] =
                       IF a = NoAddress THEN Idle
                       ELSE [@ EXCEPT !.at = "answered", !.address = a]]
       ELSE UNCHANGED task
  /\ UNCHANGED <<dialogue, row>>

\* A slip: the key's mark is not looked at.
TakeKey(m) ==
  /\ signer[m].at = "get"
  /\ signer[m].key <= Keys[signer[m].chain]
  /\ SignerGoto(m, "set")
  /\ UNCHANGED <<dialogue, task, used, row, past>>

\* pick_address: the read of deposit_used for the next key of the list.
ReadKey(m) ==
  /\ signer[m].at = "get"
  /\ signer[m].key <= Keys[signer[m].chain]
  /\ IF Asked(m) \in used
       THEN signer' = [signer EXCEPT ![m].key = @ + 1]
       ELSE SignerGoto(m, "set")
  /\ UNCHANGED <<dialogue, task, used, row, past>>

\* "No deposit addresses available".
NoKeyLeft(m) ==
  /\ signer[m].at = "get"
  /\ signer[m].key > Keys[signer[m].chain]
  /\ Answer(m, NoAddress)
  /\ UNCHANGED <<used, past>>

\* The signer has marked a for m, and it is on its way into a row.
Holds(m, a) ==
  \/ signer[m].at = "fund" /\ Asked(m) = a
  \/ task[m].at = "answered" /\ task[m].address = a

Held(a) == (\E m \in Tasks : Holds(m, a)) \/ (\E k \in Rows : row[k].address = a)

\* The write of deposit_used, for 24 hours, though the key may have been written
\* since it was read.
MarkKey(m) ==
  LET a == Asked(m)
  IN
  /\ signer[m].at = "set"
  /\ SignerGoto(m, "fund")
  /\ used' = used \cup {a}
  /\ lapsed' = IF Held(a) THEN lapsed ELSE lapsed \ {a}
  /\ contested' = IF \E n \in Tasks \ {m} : AboutToMark(n, a) THEN contested \cup {a}
                  ELSE IF Held(a) THEN contested ELSE contested \ {a}
  /\ UNCHANGED <<dialogue, task, row, stops, crossed>>

\* The address gets its gas and is answered.
FundGas(m) ==
  /\ signer[m].at = "fund"
  /\ Answer(m, Asked(m))
  /\ UNCHANGED <<used, past>>

\* An exception or a crash: a marked address stays marked.
SignerStops(m) ==
  /\ Stop
  /\ signer[m].at # "off"
  /\ Answer(m, NoAddress)
  /\ UNCHANGED used

\* 24 hours pass since the address was picked, whatever its escrow waits for.
KeyExpires(a) ==
  /\ a \in used
  /\ used' = used \ {a}
  /\ lapsed' = IF Held(a) THEN lapsed \cup {a} ELSE lapsed
  /\ UNCHANGED <<dialogue, task, signer, row, stops, crossed,
                 contested>>

\* The escrow no longer waits for money: its row is of no more interest here.
\* Nothing frees its address.
CloseRow(k) ==
  /\ row[k] # NoRow
  /\ row' = [row EXCEPT ![k] = NoRow]
  /\ UNCHANGED <<dialogue, task, signer, used, past>>

BotStep(m) ==
  \/ HandleStart(m)
  \/ DropData(m)
  \/ NewEscrow(m)
  \/ \E x \in Chains : Dispatch(m, x)
  \/ ValidateAddress(m)
  \/ ReadData(m)
  \/ WriteData(m)
  \/ SetState(m)
  \/ RequestAddress(m)
  \/ \E k \in Rows : InsertRow(m, k)
  \/ ClearState(m)
  \/ BotStops(m)

SignerStep(m) ==
  \/ ReadKey(m)
  \/ NoKeyLeft(m)
  \/ MarkKey(m)
  \/ FundGas(m)
  \/ SignerStops(m)

Next ==
  \/ \E m \in Tasks : BotStep(m) \/ SignerStep(m)
  \/ \E a \in used : KeyExpires(a)
  \/ \E k \in Rows : CloseRow(k)

Spec == Init /\ [][Next]_vars

-----------------------------------------------------------------------------
(* Properties.                                                             *)

\* The payout address of a row is one of the row's chain, though the two come
\* from different messages, crashes fall between the writes and a dialogue may
\* start over old data; unless the user's own messages overlapped.  The
\* handler says as much: "Invalid address for selected chain."
\* (app/main.py:168).
PayoutMatchesChain ==
  \A k \in Rows :
    row[k] # NoRow /\ row[k].buyer \notin crossed => row[k].payout = row[k].chain

\* Two open escrows share a deposit address only if its key went while one of
\* them had it, or one wrote the key while another stood between its read and
\* its write of it: the watchers credit the first row they find with the
\* address (services/watcher_tron/main.py:68).
AddressesAreDistinct ==
  \A j, k \in Rows :
    row[j] # NoRow /\ row[j].address = row[k].address =>
      j = k \/ row[j].address \in lapsed \cup contested

-----------------------------------------------------------------------------
(* The inductive invariant behind them.                                    *)

\* An address in a row, or on its way into one, is marked until its key
\* goes.
AddressesAreMarked == \A a \in Addresses : Held(a) => a \in used \cup lapsed

\* Nobody is about to mark an address that is held, but for the two causes.
MarksAreFirst ==
  \A a \in Addresses \ (lapsed \cup contested) :
    Held(a) => \A n \in Tasks : ~ AboutToMark(n, a)

\* Nobody else holds an address that is held, but for the same two causes.
HoldersAreDistinct ==
  \A m \in Tasks : \A a \in Addresses \ (lapsed \cup contested) :
    Holds(m, a) =>
      /\ \A n \in Tasks : Holds(n, a) => n = m
      /\ \A k \in Rows : row[k].address # a

\* A bot that has its answer is served by no other handler.
AnswersAreFinal ==
  \A m \in Tasks :
    /\ task[m].at = "answered" => signer[m].at = "off"
    /\ task[m].at \in {"waiting", "answered"} => task[m].chain # None
    /\ task[m].at = "answered" => task[m].address \in Addresses
    /\ signer[m].at \in {"set", "fund"} => Asked(m) \in Addresses

\* Only the handler of an answer takes the steps of one.
AnswersTakeSteps == \A m \in Tasks : task[m].step # "start" => task[m].at \in Answers

\* A handler t of a user whose messages never overlapped has found, or left,
\* the state s and the data d.
Follows(t, s, d) ==
  /\ t.at \in States => s = t.at
  /\ t.at = "payout_address" =>
       /\ t.step = "valid" => t.payout = d.chain
       /\ t.step = "read" => t.payout = t.chain
       /\ t.step = "written" => d.payout = d.chain
  /\ t.at \in {"waiting", "answered"} => t.payout = t.chain
  /\ t.at = "state cleared" => s = None

Checked(s, d) == s = "confirm_network" => d.payout = d.chain

Alone(m) == \A n \in Tasks \ {m} : Of[n] = Of[m] => task[n].at = "idle"

SerialDialogue ==
  \A m \in Tasks :
    LET u == Of[m]
    IN  u \notin crossed =>
          /\ task[m].at # "idle" => Alone(m)
          /\ Follows(task[m], state[u], data[u])
          /\ Checked(state[u], data[u])

\* What holds in every reachable state, and is kept by every step.
IInv ==
  /\ TypeOK
  /\ PayoutMatchesChain
  /\ AddressesAreDistinct
  /\ AddressesAreMarked
  /\ MarksAreFirst
  /\ HoldersAreDistinct
  /\ AnswersAreFinal
  /\ AnswersTakeSteps
  /\ SerialDialogue
=============================================================================
