---------------------------- MODULE OpeningProofs ---------------------------
(***************************************************************************)
(* Proofs about Opening, for any users, messages handled at once, key      *)
(* lists and rows.                                                         *)
(***************************************************************************)
EXTENDS Opening, TLAPS

LEMMA InAddresses ==
  ASSUME NEW c \in Chains, NEW k \in 1..Keys[c]
  PROVE  <<c, k>> \in Addresses
BY DEF Addresses

LEMMA NoAddressIsNone == NoAddress \notin Addresses
BY DEF NoAddress, Addresses, Chains, None

-----------------------------------------------------------------------------
(* Types.                                                                  *)

LEMMA InitInv == Init => IInv
<1> SUFFICES ASSUME Init PROVE IInv
  OBVIOUS
<1>1. TypeOK
  BY OpeningAssumption DEF Init, TypeOK, Data, NoData, Idle, Off, Chains, Points, NoRow, Handler, SignerHandler
<1>2. PayoutMatchesChain /\ AddressesAreDistinct
  BY DEF Init, PayoutMatchesChain, AddressesAreDistinct, NoRow
<1>3. \A m \in Tasks : task[m].at = "idle" /\ signer[m].at = "off"
  BY DEF Init, Idle, Off
<1>4. AddressesAreMarked /\ MarksAreFirst /\ HoldersAreDistinct /\ AnswersAreFinal
      /\ AnswersTakeSteps
  <2>1. \A a \in Addresses : \A k \in Rows : row[k].address # a
    BY NoAddressIsNone DEF Init, NoRow
  <2> QED
    BY <1>3, <2>1 DEF Init, AddressesAreMarked, MarksAreFirst, HoldersAreDistinct,
       AnswersAreFinal, AnswersTakeSteps, Held, Holds, AboutToMark, Idle
<1>5. SerialDialogue
  BY <1>3, OpeningAssumption DEF Init, SerialDialogue, None, States, Answers, Alone, Follows, Checked
<1> QED
  BY <1>1, <1>2, <1>4, <1>5 DEF IInv

\* The bot's handlers keep the types.
LEMMA GotoTypes ==
  ASSUME task \in [Tasks -> Handler], NEW m \in Tasks, NEW p \in Points, Goto(m, p)
  PROVE  task' \in [Tasks -> Handler]
<1>1. [Idle EXCEPT !.at = p] \in Handler
  BY DEF Idle, Handler
<1> QED
  BY <1>1 DEF Goto

LEMMA BotTypes ==
  ASSUME TypeOK, AnswersAreFinal, AnswersTakeSteps, NEW m \in Tasks, BotStep(m)
  PROVE  TypeOK'
<1> DEFINE u == Of[m]
<1>u. u \in Users
  BY OpeningAssumption
<1>t. /\ state \in [Users -> States \cup {None}] /\ data \in [Users -> Data]
      /\ task \in [Tasks -> Handler] /\ task[m] \in Handler
      /\ data[u] \in Data /\ state[u] \in States \cup {None}
  BY <1>u DEF TypeOK
<1>i. Idle \in Handler
  BY DEF Idle, Handler, Points
<1>p. States \subseteq Points
  BY DEF Points
<1>1. CASE HandleStart(m)
  <2>1. task' \in [Tasks -> Handler]
    BY <1>1, <1>t, GotoTypes DEF HandleStart, Points
  <2>2. state' \in [Users -> States \cup {None}] /\ crossed' \subseteq Users
    BY <1>1, <1>t, <1>u DEF HandleStart, Arrives, TypeOK
  <2> QED
    BY <1>1, <2>1, <2>2 DEF HandleStart, TypeOK
<1>2. CASE DropData(m)
  <2>1. task' \in [Tasks -> Handler]
    BY <1>2, <1>t, GotoTypes DEF DropData, Points
  <2>2. NoData \in Data
    BY DEF NoData, Data
  <2> QED
    BY <1>2, <2>1, <2>2 DEF DropData, TypeOK, past
<1>3. CASE NewEscrow(m)
  <2>1. state' \in [Users -> States \cup {None}] /\ crossed' \subseteq Users
    BY <1>3, <1>t, <1>u DEF NewEscrow, Arrives, States, Answers, TypeOK
  <2> QED
    BY <1>3, <2>1 DEF NewEscrow, TypeOK
<1>4. ASSUME NEW x \in Chains, Dispatch(m, x) PROVE TypeOK'
  <2> DEFINE s == state[u]
             h == [Idle EXCEPT !.at = s, !.chain = IF s = "chain" THEN x ELSE None,
                               !.payout = IF s = "payout_address" THEN x ELSE None]
  <2>1. s \in Points
    BY <1>4, <1>t, <1>p DEF Dispatch
  <2>2. h \in Handler
    BY <2>1 DEF Idle, Handler
  <2>3. task' = [task EXCEPT ![m] = h]
    BY <1>4 DEF Dispatch
  <2>4. task' \in [Tasks -> Handler]
    BY <2>2, <2>3, <1>t
  <2> QED
    BY <1>4, <2>4, <1>u DEF Dispatch, Arrives, TypeOK, dialogue
<1>5. CASE SetState(m)
  <2>1. task[m].at \in Answers
    BY <1>5 DEF SetState, AnswersTakeSteps
  <2>2. After[task[m].at] \in States
    BY <2>1 DEF After, States, Answers
  <2>3. task' \in [Tasks -> Handler]
    BY <1>5, <1>t, GotoTypes DEF SetState, Points
  <2> QED
    BY <1>5, <2>2, <2>3, <1>t, <1>u DEF SetState, TypeOK, past
<1>6. CASE WriteData(m)
  <2> DEFINE h == [Idle EXCEPT !.at = task[m].at, !.step = "written"]
             d == [chain |-> task[m].chain, payout |-> task[m].payout]
  <2>1. h \in Handler /\ d \in Data
    BY <1>6, <1>t DEF WriteData, Idle, Handler, Data
  <2>2. task' = [task EXCEPT ![m] = h] /\ data' = [data EXCEPT ![u] = d]
    BY <1>6 DEF WriteData
  <2> HIDE DEF h, d
  <2>3. task' \in [Tasks -> Handler] /\ data' \in [Users -> Data]
    BY <2>1, <2>2, <1>t, <1>u
  <2> QED
    BY <1>6, <2>3 DEF WriteData, TypeOK, past
<1>7. CASE ValidateAddress(m)
  <2>1. [task[m] EXCEPT !.step = "valid"] \in Handler
    BY <1>7, <1>t DEF ValidateAddress, Handler, Answers, After
  <2>2. task' \in [Tasks -> Handler]
    BY <1>7, <2>1, <1>i, <1>t DEF ValidateAddress
  <2> QED
    BY <1>7, <2>2 DEF ValidateAddress, TypeOK, past, dialogue
<1>8. CASE ReadData(m)
  <2> DEFINE t == task[m]
             d == data[u]
             h == [t EXCEPT !.step = "read",
                            !.chain = IF t.at = "chain" THEN t.chain ELSE d.chain,
                            !.payout = IF t.at = "payout_address" THEN t.payout ELSE d.payout]
  <2>1. h \in Handler
    BY <1>8, <1>t DEF ReadData, Handler, Data
  <2>2. task' = [task EXCEPT ![m] = h]
    BY <1>8 DEF ReadData
  <2> HIDE DEF h
  <2>3. task' \in [Tasks -> Handler]
    BY <2>1, <2>2, <1>t
  <2> QED
    BY <1>8, <2>3 DEF ReadData, TypeOK, past, dialogue
<1>9. CASE RequestAddress(m)
  <2> DEFINE d == data[u]
             h == [Idle EXCEPT !.at = "waiting", !.chain = d.chain, !.payout = d.payout]
             g == [at |-> "get", chain |-> d.chain, key |-> 1]
  <2>1. h \in Handler
    BY <1>t DEF Idle, Handler, Points, Data
  <2>2. CASE d.chain = None
    <3>1. Goto(m, "idle") /\ UNCHANGED signer
      BY <1>9, <2>2 DEF RequestAddress
    <3>2. task' \in [Tasks -> Handler]
      BY <3>1, <1>t, GotoTypes DEF Points
    <3> QED
      BY <1>9, <3>1, <3>2 DEF RequestAddress, TypeOK, past, dialogue
  <2>3. CASE d.chain # None
    <3>1. g \in SignerHandler
      BY <2>3, <1>t DEF SignerHandler, Data
    <3>2. task' = [task EXCEPT ![m] = h] /\ signer' = [signer EXCEPT ![m] = g]
      BY <1>9, <2>3 DEF RequestAddress
    <3> HIDE DEF h, g
    <3>3. task' \in [Tasks -> Handler] /\ signer' \in [Tasks -> SignerHandler]
      BY <3>1, <3>2, <2>1, <1>t DEF TypeOK
    <3> QED
      BY <1>9, <3>3 DEF RequestAddress, TypeOK, past, dialogue
  <2> QED
    BY <2>2, <2>3
<1>10. ASSUME NEW k \in Rows, InsertRow(m, k) PROVE TypeOK'
  <2>1. task' \in [Tasks -> Handler]
    BY <1>10, <1>t, GotoTypes DEF InsertRow, Points
  <2>2. row' \in [Rows -> Escrow \cup {NoRow}]
    <3>1. CASE task[m].payout = None
      BY <1>10, <3>1 DEF InsertRow, TypeOK
    <3>2. CASE task[m].payout # None
      <4>1. task[m].chain \in Chains /\ task[m].payout \in Chains
            /\ task[m].address \in Addresses
        BY <1>10, <3>2, <1>t DEF InsertRow, AnswersAreFinal, Handler
      <4>2. [buyer |-> u, chain |-> task[m].chain, payout |-> task[m].payout,
             address |-> task[m].address] \in Escrow
        BY <4>1, <1>u DEF Escrow
      <4> QED
        BY <1>10, <3>2, <4>2 DEF InsertRow, TypeOK
    <3> QED
      BY <3>1, <3>2
  <2> QED
    BY <1>10, <2>1, <2>2 DEF InsertRow, TypeOK, past, dialogue
<1>11. CASE ClearState(m)
  <2>1. task' \in [Tasks -> Handler]
    BY <1>11, <1>t, GotoTypes DEF ClearState, Points
  <2> QED
    BY <1>11, <2>1, <1>t, <1>u DEF ClearState, TypeOK, past
<1>12. CASE BotStops(m)
  <2>1. task' \in [Tasks -> Handler]
    BY <1>12, <1>t, GotoTypes DEF BotStops, Points
  <2> QED
    BY <1>12, <2>1, OpeningAssumption DEF BotStops, Stop, TypeOK, dialogue
<1> QED
  BY <1>1, <1>2, <1>3, <1>4, <1>5, <1>6, <1>7, <1>8, <1>9, <1>10, <1>11, <1>12 DEF BotStep

\* An address that is waited for is answered.
LEMMA AnswerArrives ==
  ASSUME task \in [Tasks -> Handler], NEW m \in Tasks, NEW a, a # NoAddress,
         task[m].at = "waiting", Answer(m, a)
  PROVE  /\ \A n \in Tasks \ {m} : task'[n] = task[n]
         /\ task'[m].at = "answered" /\ task'[m].address = a
         /\ task'[m].step = task[m].step
         /\ task'[m].chain = task[m].chain /\ task'[m].payout = task[m].payout
<1> DEFINE h == [task[m] EXCEPT !.at = "answered", !.address = a]
<1>1. task' = [task EXCEPT ![m] = h]
  BY DEF Answer
<1>2. /\ h.at = "answered" /\ h.address = a /\ h.step = task[m].step
      /\ h.chain = task[m].chain /\ h.payout = task[m].payout
  BY DEF Handler
<1> QED
  BY <1>1, <1>2

\* So do the signer's, whatever answer they give.
LEMMA AnswerTypes ==
  ASSUME TypeOK, NEW m \in Tasks, NEW a \in Addresses \cup {NoAddress}, Answer(m, a)
  PROVE  /\ task' \in [Tasks -> Handler]
         /\ signer' \in [Tasks -> SignerHandler]
         /\ UNCHANGED <<state, data, row>>
<1>1. task \in [Tasks -> Handler] /\ signer \in [Tasks -> SignerHandler]
  BY DEF TypeOK
<1>2. Idle \in Handler
  BY DEF Idle, Handler, Points
<1>3. [task[m] EXCEPT !.at = "answered", !.address = a] \in Handler
  BY <1>1 DEF Handler, Points
<1>4. Off \in SignerHandler
  BY DEF Off, SignerHandler, Chains
<1> QED
  BY <1>1, <1>2, <1>3, <1>4 DEF Answer, dialogue

LEMMA SignerTypes ==
  ASSUME TypeOK, AnswersAreFinal, NEW m \in Tasks, SignerStep(m)
  PROVE  TypeOK'
<1>t. signer \in [Tasks -> SignerHandler] /\ signer[m] \in SignerHandler
  BY DEF TypeOK
<1>g. /\ \A p \in {"set", "fund"} : [signer[m] EXCEPT !.at = p] \in SignerHandler
      /\ [signer[m] EXCEPT !.key = signer[m].key + 1] \in SignerHandler
  BY <1>t DEF SignerHandler
<1>1. CASE ReadKey(m)
  <2>1. signer' \in [Tasks -> SignerHandler]
    BY <1>1, <1>t, <1>g DEF ReadKey, SignerGoto
  <2> QED
    BY <1>1, <2>1 DEF ReadKey, TypeOK, dialogue, past
<1>2. CASE NoKeyLeft(m)
  BY <1>2, AnswerTypes DEF NoKeyLeft, TypeOK, past
<1>3. CASE MarkKey(m)
  <2>1. Asked(m) \in Addresses
    BY <1>3 DEF MarkKey, AnswersAreFinal
  <2>2. signer' \in [Tasks -> SignerHandler]
    BY <1>3, <1>t, <1>g DEF MarkKey, SignerGoto
  <2> QED
    BY <1>3, <2>1, <2>2 DEF MarkKey, TypeOK, dialogue
<1>4. CASE FundGas(m)
  <2>1. Asked(m) \in Addresses
    BY <1>4 DEF FundGas, AnswersAreFinal
  <2> QED
    BY <1>4, <2>1, AnswerTypes DEF FundGas, TypeOK, past
<1>5. CASE SignerStops(m)
  BY <1>5, AnswerTypes, OpeningAssumption DEF SignerStops, Stop, TypeOK
<1> QED
  BY <1>1, <1>2, <1>3, <1>4, <1>5 DEF SignerStep

LEMMA OtherTypes ==
  ASSUME TypeOK, (\E a \in used : KeyExpires(a)) \/ (\E k \in Rows : CloseRow(k))
  PROVE  TypeOK'
BY DEF KeyExpires, CloseRow, TypeOK, dialogue, past

\* The steps of an answer are taken by the handlers of the answers.
LEMMA StepsKept ==
  ASSUME TypeOK, AnswersTakeSteps, [Next]_vars
  PROVE  AnswersTakeSteps'
<1>t. task \in [Tasks -> Handler]
  BY DEF TypeOK
<1>i. Idle.step = "start"
  BY DEF Idle
<1>k. ASSUME NEW m \in Tasks, \A n \in Tasks \ {m} : task'[n] = task[n],
             task'[m].step # "start" => task'[m].at \in Answers
      PROVE  AnswersTakeSteps'
  BY <1>k DEF AnswersTakeSteps
<1>g. ASSUME NEW m \in Tasks, NEW p, Goto(m, p) PROVE AnswersTakeSteps'
  <2>1. (\A n \in Tasks \ {m} : task'[n] = task[n]) /\ task'[m].step = "start"
    BY <1>g, <1>t DEF Goto, Idle
  <2> QED
    BY <2>1, <1>k
<1>1. ASSUME NEW m \in Tasks, ValidateAddress(m) \/ ReadData(m) \/ WriteData(m)
      PROVE  AnswersTakeSteps'
  <2>1. task[m] \in Handler /\ task[m].at \in Answers
    BY <1>1, <1>t DEF ValidateAddress, ReadData, WriteData, AnswersTakeSteps, Answers
  <2>2. \A n \in Tasks \ {m} : task'[n] = task[n]
    BY <1>1, <1>t DEF ValidateAddress, ReadData, WriteData
  <2>3. CASE ValidateAddress(m)
    BY <1>t, <1>i, <1>k, <2>1, <2>2, <2>3 DEF ValidateAddress, Handler
  <2>4. CASE ReadData(m)
    <3>1. task'[m].at = task[m].at
      BY <1>t, <2>1, <2>4 DEF ReadData, Handler
    <3> QED
      BY <1>k, <2>1, <2>2, <3>1
  <2>5. CASE WriteData(m)
    <3>1. task'[m].at = task[m].at
      BY <1>t, <2>1, <2>5 DEF WriteData, Idle
    <3> QED
      BY <1>k, <2>1, <2>2, <3>1
  <2> QED
    BY <1>1, <2>3, <2>4, <2>5
<1>2. ASSUME NEW m \in Tasks, (\E x \in Chains : Dispatch(m, x)) \/ RequestAddress(m)
      PROVE  AnswersTakeSteps'
  <2>1. CASE RequestAddress(m) /\ data[Of[m]].chain = None
    BY <2>1, <1>g DEF RequestAddress
  <2>2. CASE \/ RequestAddress(m) /\ data[Of[m]].chain # None
             \/ \E x \in Chains : Dispatch(m, x)
    <3>1. ASSUME NEW p, NEW c, NEW q,
                 task' = [task EXCEPT ![m] = [Idle EXCEPT !.at = p, !.chain = c, !.payout = q]]
          PROVE  AnswersTakeSteps'
      <4>1. (\A n \in Tasks \ {m} : task'[n] = task[n]) /\ task'[m].step = "start"
        BY <3>1, <1>t DEF Idle
      <4> QED
        BY <4>1, <1>k
    <3>2. CASE RequestAddress(m) /\ data[Of[m]].chain # None
      <4> DEFINE p == "waiting"
                 c == data[Of[m]].chain
                 q == data[Of[m]].payout
      <4>1. task' = [task EXCEPT ![m] = [Idle EXCEPT !.at = p, !.chain = c, !.payout = q]]
        BY <3>2 DEF RequestAddress
      <4> HIDE DEF p, c, q
      <4> QED
        BY <3>1, <4>1
    <3>3. ASSUME NEW x \in Chains, Dispatch(m, x)
          PROVE  AnswersTakeSteps'
      <4> DEFINE v == state[Of[m]]
                 c == IF v = "chain" THEN x ELSE None
                 q == IF v = "payout_address" THEN x ELSE None
      <4>1. task' = [task EXCEPT ![m] = [Idle EXCEPT !.at = v, !.chain = c, !.payout = q]]
        BY <3>3 DEF Dispatch
      <4> HIDE DEF v, c, q
      <4> QED
        BY <3>1, <4>1
    <3> QED
      BY <2>2, <3>2, <3>3
  <2> QED
    BY <1>2, <2>1, <2>2
<1>3. ASSUME NEW m \in Tasks, NEW a, Answer(m, a)
      PROVE  AnswersTakeSteps'
  <2>1. task[m] \in Handler /\ \A n \in Tasks \ {m} : task'[n] = task[n]
    BY <1>3, <1>t DEF Answer
  <2>2. task'[m].step = "start" \/ (task'[m].step = task[m].step /\ task[m].at \notin Answers)
        \/ task'[m] = task[m]
    BY <1>3, <1>t, <1>i, <2>1 DEF Answer, Handler, Answers
  <2> QED
    BY <2>1, <2>2, <1>k DEF AnswersTakeSteps
<1>4. ASSUME NEW m \in Tasks, BotStep(m) PROVE AnswersTakeSteps'
  <2>1. CASE \/ HandleStart(m) \/ DropData(m) \/ SetState(m) \/ ClearState(m) \/ BotStops(m)
             \/ \E k \in Rows : InsertRow(m, k)
    BY <2>1, <1>g DEF HandleStart, DropData, SetState, ClearState, BotStops, InsertRow
  <2>2. CASE NewEscrow(m)
    BY <2>2 DEF NewEscrow, AnswersTakeSteps
  <2> QED
    BY <1>1, <1>2, <1>4, <2>1, <2>2 DEF BotStep
<1>5. ASSUME NEW m \in Tasks, SignerStep(m) PROVE AnswersTakeSteps'
  <2>1. CASE ReadKey(m) \/ MarkKey(m)
    BY <2>1 DEF ReadKey, MarkKey, AnswersTakeSteps
  <2>2. CASE NoKeyLeft(m) \/ FundGas(m) \/ SignerStops(m)
    BY <2>2, <1>3 DEF NoKeyLeft, FundGas, SignerStops
  <2> QED
    BY <1>5, <2>1, <2>2 DEF SignerStep
<1>6. CASE \/ \E a \in used : KeyExpires(a)
           \/ \E k \in Rows : CloseRow(k)
           \/ UNCHANGED vars
  BY <1>6 DEF KeyExpires, CloseRow, vars, AnswersTakeSteps
<1> QED
  BY <1>4, <1>5, <1>6 DEF Next

-----------------------------------------------------------------------------
(* The dialogue.                                                           *)

\* A step of one handler keeps the invariant of the dialogues when what its
\* own user has stored follows.
LEMMA SerialStep ==
  ASSUME SerialDialogue, NEW m \in Tasks, crossed \subseteq crossed',
         \A v \in Users \ {Of[m]} : state'[v] = state[v] /\ data'[v] = data[v],
         \A n \in Tasks \ {m} : task'[n] = task[n],
         Of[m] \notin crossed' =>
           /\ Alone(m)
           /\ Follows(task'[m], state'[Of[m]], data'[Of[m]])
           /\ Checked(state'[Of[m]], data'[Of[m]])
  PROVE  SerialDialogue'
<1> SUFFICES ASSUME NEW n \in Tasks, Of[n] \notin crossed'
             PROVE  /\ task'[n].at # "idle" => Alone(n)'
                    /\ Follows(task'[n], state'[Of[n]], data'[Of[n]])
                    /\ Checked(state'[Of[n]], data'[Of[n]])
  BY DEF SerialDialogue, Follows, Checked
<1>1. CASE Of[n] # Of[m]
  <2>1. Alone(n) => Alone(n)'
    BY <1>1 DEF Alone
  <2> QED
    BY <1>1, <2>1, OpeningAssumption DEF SerialDialogue
<1>2. CASE n = m
  BY <1>2 DEF Alone
<1>3. CASE n # m /\ Of[n] = Of[m]
  BY <1>3 DEF Alone, Follows, States, Answers
<1> QED
  BY <1>1, <1>2, <1>3

\* Every handler of the bot takes such a step.
LEMMA BotSerial ==
  ASSUME TypeOK, AnswersAreFinal, AnswersTakeSteps, SerialDialogue, NEW m \in Tasks, BotStep(m)
  PROVE  SerialDialogue'
<1> DEFINE u == Of[m]
<1>u. u \in Users
  BY OpeningAssumption
<1>t. /\ state \in [Users -> States \cup {None}] /\ data \in [Users -> Data]
      /\ task \in [Tasks -> Handler] /\ data[u] \in Data
  BY <1>u DEF TypeOK
<1>g. ASSUME NEW p, Goto(m, p)
      PROVE  /\ \A n \in Tasks \ {m} : task'[n] = task[n]
             /\ task'[m].at = p
  BY <1>g, <1>t DEF Goto, Idle
<1>b. u \notin crossed /\ task[m].at # "idle" =>
        Alone(m) /\ Follows(task[m], state[u], data[u]) /\ Checked(state[u], data[u])
  BY DEF SerialDialogue
<1>i. u \notin crossed => Follows(task[m], state[u], data[u]) /\ Checked(state[u], data[u])
  BY DEF SerialDialogue
<1>a. Arrives(m) => crossed \subseteq crossed' /\ (u \notin crossed' => Alone(m) /\ u \notin crossed)
  BY <1>u DEF Arrives, Alone
<1> HIDE DEF u
<1>1. CASE HandleStart(m)
  <2>1. /\ \A n \in Tasks \ {m} : task'[n] = task[n]
        /\ task'[m].at = "state cleared"
    BY <1>1, <1>g DEF HandleStart
  <2>2. /\ state'[u] = None /\ data' = data
        /\ \A v \in Users \ {u} : state'[v] = state[v]
    BY <1>1, <1>t, <1>u DEF HandleStart, u
  <2>3. Follows(task'[m], state'[u], data'[u]) /\ Checked(state'[u], data'[u])
    BY <2>1, <2>2 DEF Follows, Checked, None, States, Answers
  <2> QED
    BY <1>1, <1>a, <2>1, <2>2, <2>3, SerialStep DEF HandleStart, u
<1>2. CASE DropData(m)
  <2>1. /\ \A n \in Tasks \ {m} : task'[n] = task[n]
        /\ task'[m].at = "idle"
    BY <1>2, <1>g DEF DropData
  <2>2. /\ data'[u] = NoData /\ state' = state /\ crossed' = crossed
        /\ \A v \in Users \ {u} : data'[v] = data[v]
    BY <1>2, <1>t, <1>u DEF DropData, u, past
  <2>3. Follows(task'[m], state'[u], data'[u]) /\ Checked(state'[u], data'[u])
    BY <2>1, <2>2 DEF Follows, Checked, NoData, States, Answers
  <2> QED
    BY <1>2, <1>b, <2>1, <2>2, <2>3, SerialStep DEF DropData, u
<1>3. CASE NewEscrow(m)
  <2>1. /\ state'[u] = "seller_id" /\ data' = data /\ task' = task
        /\ \A v \in Users \ {u} : state'[v] = state[v]
        /\ task[m].at = "idle"
    BY <1>3, <1>t, <1>u DEF NewEscrow, Arrives, u
  <2>2. Follows(task'[m], state'[u], data'[u]) /\ Checked(state'[u], data'[u])
    BY <2>1 DEF Follows, Checked, States, Answers
  <2> QED
    BY <1>3, <1>a, <2>1, <2>2, SerialStep DEF NewEscrow, u
<1>4. ASSUME NEW x \in Chains, Dispatch(m, x) PROVE SerialDialogue'
  <2>1. /\ \A n \in Tasks \ {m} : task'[n] = task[n]
        /\ task'[m].at = state[u] /\ task'[m].step = "start"
    BY <1>4, <1>t DEF Dispatch, Idle, u
  <2>2. state' = state /\ data' = data /\ state[u] \in States
    BY <1>4, <1>t, <1>u DEF Dispatch, dialogue, u
  <2>3. Follows(task'[m], state'[u], data'[u])
    BY <2>1, <2>2 DEF Follows, States, Answers
  <2> QED
    BY <1>4, <1>a, <1>i, <2>1, <2>2, <2>3, SerialStep DEF Dispatch, u
<1>5. CASE SetState(m)
  <2>1. task[m].at \in Answers /\ task[m].step = "written"
    BY <1>5 DEF SetState, AnswersTakeSteps
  <2>2. /\ \A n \in Tasks \ {m} : task'[n] = task[n]
        /\ task'[m].at = "idle"
    BY <1>5, <1>g DEF SetState
  <2>3. /\ state'[u] = After[task[m].at] /\ data' = data /\ crossed' = crossed
        /\ \A v \in Users \ {u} : state'[v] = state[v]
    BY <1>5, <1>t, <1>u DEF SetState, u, past
  <2>4. Follows(task'[m], state'[u], data'[u])
    BY <2>2 DEF Follows, States, Answers
  <2>5. task[m].at # "idle"
    BY <2>1 DEF Answers
  <2>6. u \notin crossed => Checked(state'[u], data'[u])
    <3>1. state'[u] = "confirm_network" => task[m].at = "payout_address"
      BY <2>1, <2>3 DEF Answers, After
    <3> QED
      BY <2>1, <2>3, <2>5, <3>1, <1>b DEF Follows, Checked
  <2> QED
    BY <1>b, <2>2, <2>3, <2>4, <2>5, <2>6, SerialStep DEF u
<1>6. CASE WriteData(m)
  <2>1. task[m].at \in Answers /\ task[m].step = "read" /\ task[m].at # "idle"
    BY <1>6 DEF WriteData, AnswersTakeSteps, Answers
  <2>2. /\ \A n \in Tasks \ {m} : task'[n] = task[n]
        /\ task'[m].at = task[m].at /\ task'[m].step = "written"
    BY <1>6, <1>t DEF WriteData, Idle
  <2>3. /\ state' = state /\ crossed' = crossed
        /\ \A v \in Users \ {u} : data'[v] = data[v]
        /\ data'[u] = [chain |-> task[m].chain, payout |-> task[m].payout]
    BY <1>6, <1>t, <1>u DEF WriteData, u, past
  <2>4. u \notin crossed => Follows(task'[m], state'[u], data'[u]) /\ Checked(state'[u], data'[u])
    <3>1. data'[u].payout = task[m].payout /\ data'[u].chain = task[m].chain
      BY <2>3
    <3>2. u \notin crossed => state[u] = task[m].at /\ state[u] # "confirm_network"
      BY <2>1, <1>b DEF Follows, States, Answers
    <3> QED
      BY <2>1, <2>2, <2>3, <3>1, <3>2, <1>b DEF Follows, Checked, States, Answers
  <2> QED
    BY <1>b, <2>1, <2>2, <2>3, <2>4, SerialStep DEF u
<1>7. CASE ValidateAddress(m)
  <2>1. /\ \A n \in Tasks \ {m} : task'[n] = task[n]
        /\ \/ task'[m].at = "idle"
           \/ /\ task'[m].at = "payout_address" /\ task'[m].step = "valid"
              /\ task'[m].payout = data[u].chain
    BY <1>7, <1>t DEF ValidateAddress, AddressFits, Idle, Handler, u
  <2>2. state' = state /\ data' = data /\ crossed' = crossed /\ task[m].at = "payout_address"
    BY <1>7 DEF ValidateAddress, dialogue, past
  <2>3. u \notin crossed => Follows(task'[m], state'[u], data'[u])
    BY <2>1, <2>2, <1>b DEF Follows, States, Answers
  <2> QED
    BY <1>b, <2>1, <2>2, <2>3, SerialStep DEF u
<1>8. CASE ReadData(m)
  <2>1. /\ \A n \in Tasks \ {m} : task'[n] = task[n]
        /\ task'[m].at = task[m].at /\ task'[m].step = "read"
        /\ task[m].at \in Answers
        /\ task[m].at = "payout_address" =>
             /\ task[m].step = "valid"
             /\ task'[m].chain = data[u].chain /\ task'[m].payout = task[m].payout
    BY <1>8, <1>t DEF ReadData, Handler, u
  <2>2. state' = state /\ data' = data /\ crossed' = crossed /\ task[m].at # "idle"
    BY <1>8 DEF ReadData, dialogue, past, Answers, After
  <2>3. u \notin crossed => Follows(task'[m], state'[u], data'[u])
    BY <2>1, <2>2, <1>b DEF Follows, States, Answers
  <2> QED
    BY <1>b, <2>1, <2>2, <2>3, SerialStep DEF u
<1>9. CASE RequestAddress(m)
  <2>1. /\ \A n \in Tasks \ {m} : task'[n] = task[n]
        /\ \/ task'[m].at = "idle"
           \/ /\ task'[m].at = "waiting"
              /\ task'[m].chain = data[u].chain /\ task'[m].payout = data[u].payout
    <3>1. CASE data[u].chain = None
      BY <1>9, <1>g, <3>1 DEF RequestAddress, u
    <3>2. CASE data[u].chain # None
      <4>1. task' = [task EXCEPT ![m] = [Idle EXCEPT !.at = "waiting",
                       !.chain = data[u].chain, !.payout = data[u].payout]]
        BY <1>9, <3>2 DEF RequestAddress, u
      <4> QED
        BY <4>1, <1>t DEF Idle
    <3> QED
      BY <3>1, <3>2
  <2>2. state' = state /\ data' = data /\ crossed' = crossed /\ task[m].at = "confirm_network"
    BY <1>9 DEF RequestAddress, dialogue, past
  <2>3. u \notin crossed => Follows(task'[m], state'[u], data'[u])
    BY <2>1, <2>2, <1>b DEF Follows, Checked, States, Answers
  <2> QED
    BY <1>b, <2>1, <2>2, <2>3, SerialStep DEF u
<1>10. CASE \/ \E k \in Rows : InsertRow(m, k)
            \/ BotStops(m)
  <2>1. PICK p \in {"idle", "row inserted"} : Goto(m, p) /\ task[m].at # "idle"
    BY <1>10 DEF InsertRow, BotStops
  <2>2. /\ \A n \in Tasks \ {m} : task'[n] = task[n]
        /\ task'[m].at = p
    BY <2>1, <1>g
  <2>3. state' = state /\ data' = data /\ crossed' = crossed
    BY <1>10 DEF InsertRow, BotStops, Stop, dialogue, past
  <2>4. Follows(task'[m], state'[u], data'[u])
    BY <2>2 DEF Follows, States, Answers
  <2> QED
    BY <1>b, <2>1, <2>2, <2>3, <2>4, SerialStep DEF u
<1>11. CASE ClearState(m)
  <2>1. /\ \A n \in Tasks \ {m} : task'[n] = task[n]
        /\ task'[m].at = "state cleared"
    BY <1>11, <1>g DEF ClearState
  <2>2. /\ state'[u] = None /\ data' = data /\ crossed' = crossed
        /\ \A v \in Users \ {u} : state'[v] = state[v]
    BY <1>11, <1>t, <1>u DEF ClearState, u, past
  <2>3. Follows(task'[m], state'[u], data'[u]) /\ Checked(state'[u], data'[u])
    BY <2>1, <2>2 DEF Follows, Checked, None, States, Answers
  <2> QED
    BY <1>11, <1>b, <2>1, <2>2, <2>3, SerialStep DEF ClearState, u
<1> QED
  BY <1>1, <1>2, <1>3, <1>4, <1>5, <1>6, <1>7, <1>8, <1>9, <1>10, <1>11 DEF BotStep

\* An answer of the signer ends a wait or carries on with what was read.
LEMMA SignerSerial ==
  ASSUME TypeOK, SerialDialogue, NEW m \in Tasks, SignerStep(m)
  PROVE  SerialDialogue'
<1>1. task \in [Tasks -> Handler]
  BY DEF TypeOK
<1> DEFINE Moved ==
      /\ state' = state /\ data' = data
      /\ \A n \in Tasks \ {m} : task'[n] = task[n]
      /\ \/ task' = task
         \/ task[m].at = "waiting" /\ task'[m].at = "idle"
         \/ /\ task[m].at = "waiting" /\ task'[m].at = "answered"
            /\ task'[m].payout = task[m].payout /\ task'[m].chain = task[m].chain
<1>a. ASSUME NEW a, Answer(m, a) PROVE Moved
  <2>1. task[m] \in Handler
    BY <1>1
  <2>2. CASE task[m].at = "waiting" /\ a = NoAddress
    BY <1>a, <1>1, <2>2 DEF Answer, Idle, dialogue
  <2>3. CASE task[m].at = "waiting" /\ a # NoAddress
    BY <1>a, <1>1, <2>3, AnswerArrives DEF Answer, dialogue
  <2>4. CASE task[m].at # "waiting"
    BY <1>a, <2>4 DEF Answer, dialogue
  <2> QED
    BY <2>2, <2>3, <2>4
<1>2. Moved /\ crossed' = crossed
  <2>1. CASE ReadKey(m) \/ MarkKey(m)
    BY <2>1 DEF ReadKey, MarkKey, dialogue, past
  <2>2. CASE NoKeyLeft(m) \/ FundGas(m) \/ SignerStops(m)
    <3>1. PICK a : Answer(m, a)
      BY <2>2 DEF NoKeyLeft, FundGas, SignerStops
    <3>2. crossed' = crossed
      BY <2>2 DEF NoKeyLeft, FundGas, SignerStops, Stop, past
    <3> QED
      BY <3>1, <3>2, <1>a
  <2> QED
    BY <2>1, <2>2 DEF SignerStep
<1>3. CASE task' = task
  BY <1>2, <1>3 DEF SerialDialogue, Alone
<1>4. CASE task' # task
  <2>1. Of[m] \notin crossed => Alone(m) /\ Follows(task[m], state[Of[m]], data[Of[m]])
                                /\ Checked(state[Of[m]], data[Of[m]])
    BY <1>2, <1>4 DEF SerialDialogue
  <2>2. Of[m] \notin crossed => Follows(task'[m], state'[Of[m]], data'[Of[m]])
    BY <1>2, <1>4, <2>1 DEF Follows, States, Answers
  <2> QED
    BY <1>2, <2>1, <2>2, SerialStep
<1> QED
  BY <1>3, <1>4

\* The rows: a row is filed from what an answered handler has read.
LEMMA RowsMatch ==
  ASSUME TypeOK, SerialDialogue, PayoutMatchesChain, [Next]_vars
  PROVE  PayoutMatchesChain'
<1>1. ASSUME NEW m \in Tasks, NEW k \in Rows, InsertRow(m, k)
      PROVE  PayoutMatchesChain'
  <2>1. CASE task[m].payout = None
    BY <1>1, <2>1 DEF InsertRow, past, PayoutMatchesChain
  <2>2. CASE task[m].payout # None
    <3>1. /\ row'[k].buyer = Of[m]
          /\ row'[k].payout = task[m].payout /\ row'[k].chain = task[m].chain
          /\ \A j \in Rows \ {k} : row'[j] = row[j]
          /\ crossed' = crossed
      <4>1. row \in [Rows -> Escrow \cup {NoRow}]
        BY DEF TypeOK
      <4>2. /\ crossed' = crossed
            /\ row' = [row EXCEPT ![k] =
                         [buyer |-> Of[m], chain |-> task[m].chain,
                          payout |-> task[m].payout, address |-> task[m].address]]
        BY <1>1, <2>2 DEF InsertRow, past
      <4> QED
        BY <4>1, <4>2
    <3>2. Of[m] \notin crossed => task[m].payout = task[m].chain
      BY <1>1 DEF InsertRow, SerialDialogue, Follows
    <3> QED
      BY <3>1, <3>2 DEF PayoutMatchesChain
  <2> QED
    BY <2>1, <2>2
<1>2. ASSUME row' = row, crossed \subseteq crossed'
      PROVE  PayoutMatchesChain'
  BY <1>2 DEF PayoutMatchesChain
<1>3. ASSUME NEW m \in Tasks, BotStep(m), \A k \in Rows : ~ InsertRow(m, k)
      PROVE  row' = row /\ crossed \subseteq crossed'
  BY <1>3 DEF BotStep, HandleStart, DropData, NewEscrow, Dispatch, ValidateAddress,
     ReadData, WriteData, SetState, RequestAddress, ClearState, BotStops, Stop, Arrives, past
<1>4. ASSUME NEW m \in Tasks, SignerStep(m)
      PROVE  row' = row /\ crossed \subseteq crossed'
  BY <1>4 DEF SignerStep, ReadKey, NoKeyLeft, MarkKey, FundGas, SignerStops, Stop, Answer,
     past
<1>5. CASE (\E a \in used : KeyExpires(a)) \/ UNCHANGED vars
  BY <1>2, <1>5 DEF KeyExpires, vars
<1>6. ASSUME NEW k \in Rows, CloseRow(k)
      PROVE  PayoutMatchesChain'
  <2>1. \A j \in Rows : row'[j] = row[j] \/ row'[j] = NoRow
    BY <1>6 DEF CloseRow, TypeOK
  <2> QED
    BY <1>6, <2>1 DEF CloseRow, past, PayoutMatchesChain
<1> QED
  BY <1>1, <1>2, <1>3, <1>4, <1>5, <1>6 DEF Next

-----------------------------------------------------------------------------
(* The addresses.                                                          *)

Addressing ==
  AddressesAreDistinct /\ AddressesAreMarked /\ MarksAreFirst /\ HoldersAreDistinct

\* Where nobody gains an address, or goes on to mark one that is held, the invariant of the addresses is kept.
LEMMA FewerHolders ==
  ASSUME TypeOK, Addressing,
         \A n \in Tasks : \A a \in Addresses : Holds(n, a)' => Holds(n, a),
         \A k \in Rows : row'[k] = row[k] \/ row'[k] = NoRow,
         lapsed \subseteq lapsed', contested' = contested,
         \A a \in Addresses : a \in used /\ Held(a) => a \in used' \cup lapsed',
         \A n \in Tasks : \A a \in Addresses :
           AboutToMark(n, a)' => AboutToMark(n, a) \/ a \notin used
  PROVE  Addressing'
<1>1. AddressesAreDistinct'
  <2> SUFFICES ASSUME NEW j \in Rows, NEW k \in Rows, row'[j] # NoRow, j # k,
                      row'[j].address = row'[k].address
               PROVE  row[j].address \in lapsed \cup contested /\ row'[j] = row[j]
    BY DEF AddressesAreDistinct
  <2>1. row'[j] = row[j] /\ row[j] \in Escrow
    BY DEF TypeOK
  <2>2. row[j].address \in Addresses
    BY <2>1 DEF Escrow
  <2>3. row'[k] = row[k]
    BY <2>1, <2>2, NoAddressIsNone DEF NoRow
  <2> QED
    BY <2>1, <2>3 DEF Addressing, AddressesAreDistinct
<1>2. \A a \in Addresses : NoRow.address # a
  BY NoAddressIsNone DEF NoRow
<1>3. \A a \in Addresses : Held(a)' => Held(a)
  BY <1>2 DEF Held
<1>4. AddressesAreMarked'
  BY <1>3 DEF Addressing, AddressesAreMarked
<1>5. HoldersAreDistinct'
  BY <1>2 DEF Addressing, HoldersAreDistinct
<1>6. MarksAreFirst'
  BY <1>3 DEF Addressing, AddressesAreMarked, MarksAreFirst
<1> QED
  BY <1>1, <1>4, <1>5, <1>6 DEF Addressing

\* A bot's handler gains nothing, and loses its address at most, unless it
\* files a row.
LEMMA BotAddresses ==
  ASSUME TypeOK, Addressing, AnswersAreFinal, AnswersTakeSteps, NEW m \in Tasks, BotStep(m)
  PROVE  Addressing' /\ AnswersAreFinal'
<1>t. task \in [Tasks -> Handler] /\ signer \in [Tasks -> SignerHandler]
  BY DEF TypeOK
<1>g. ASSUME NEW p, Goto(m, p)
      PROVE  (\A n \in Tasks \ {m} : task'[n] = task[n]) /\ task'[m].at = p
  BY <1>g, <1>t DEF Goto, Idle
<1>q. ASSUME \A n \in Tasks \ {m} : task'[n] = task[n],
             task'[m].at \notin {"waiting", "answered"},
             UNCHANGED <<signer, used, row, lapsed, contested>>
      PROVE  Addressing' /\ AnswersAreFinal'
  <2>1. \A n \in Tasks : \A a \in Addresses :
          /\ Holds(n, a)' => Holds(n, a)
          /\ AboutToMark(n, a)' => AboutToMark(n, a)
    BY <1>q DEF Holds, AboutToMark, Asked
  <2>2. AnswersAreFinal'
    BY <1>q DEF AnswersAreFinal, Asked
  <2> QED
    BY <1>q, <2>1, <2>2, FewerHolders
<1>1. CASE HandleStart(m) \/ DropData(m) \/ SetState(m) \/ ClearState(m) \/ BotStops(m)
  <2>1. PICK p \in Points \ {"waiting", "answered"} : Goto(m, p)
    BY <1>1 DEF HandleStart, DropData, SetState, ClearState, BotStops, Points
  <2>2. UNCHANGED <<signer, used, row, lapsed, contested>>
    BY <1>1 DEF HandleStart, DropData, SetState, ClearState, BotStops, Stop, past
  <2> QED
    BY <2>1, <2>2, <1>g, <1>q
<1>2. CASE NewEscrow(m)
  BY <1>2, <1>q DEF NewEscrow, Arrives
<1>3. ASSUME NEW x \in Chains, Dispatch(m, x) PROVE Addressing' /\ AnswersAreFinal'
  <2>1. /\ \A n \in Tasks \ {m} : task'[n] = task[n]
        /\ task'[m].at = state[Of[m]]
    BY <1>3, <1>t DEF Dispatch, Idle
  <2>2. state[Of[m]] \in States
    BY <1>3, OpeningAssumption DEF Dispatch, TypeOK
  <2> QED
    BY <1>3, <1>q, <2>1, <2>2 DEF Dispatch, States, Answers
<1>4. CASE ValidateAddress(m) \/ ReadData(m) \/ WriteData(m)
  <2>1. task[m] \in Handler /\ task[m].at \in Answers
    BY <1>4, <1>t DEF ValidateAddress, ReadData, WriteData, AnswersTakeSteps, Answers
  <2>2. \A n \in Tasks \ {m} : task'[n] = task[n]
    BY <1>4, <1>t DEF ValidateAddress, ReadData, WriteData
  <2>3. task'[m].at \in {"idle", task[m].at}
    <3>1. CASE ValidateAddress(m)
      BY <1>t, <2>1, <3>1 DEF ValidateAddress, Idle, Handler
    <3>2. CASE ReadData(m)
      BY <1>t, <2>1, <3>2 DEF ReadData, Handler
    <3>3. CASE WriteData(m)
      BY <1>t, <3>3 DEF WriteData, Idle
    <3> QED
      BY <1>4, <3>1, <3>2, <3>3
  <2>4. task'[m].at \notin {"waiting", "answered"}
    BY <2>1, <2>3 DEF Answers
  <2> QED
    BY <1>4, <1>q, <2>2, <2>4 DEF ValidateAddress, ReadData, WriteData, past
<1>5. CASE RequestAddress(m)
  <2>1. CASE data[Of[m]].chain = None
    BY <1>5, <2>1, <1>g, <1>q DEF RequestAddress, past
  <2>2. CASE data[Of[m]].chain # None
    <3>1. /\ \A n \in Tasks \ {m} : task'[n] = task[n] /\ signer'[n] = signer[n]
          /\ task'[m].at = "waiting" /\ task'[m].chain = data[Of[m]].chain
          /\ signer'[m].at = "get"
          /\ UNCHANGED <<used, row, lapsed, contested>>
      <4> DEFINE d == data[Of[m]]
      <4>1. /\ task' = [task EXCEPT ![m] =
                          [Idle EXCEPT !.at = "waiting", !.chain = d.chain,
                                       !.payout = d.payout]]
            /\ signer' = [signer EXCEPT ![m] =
                            [at |-> "get", chain |-> d.chain, key |-> 1]]
            /\ UNCHANGED <<used, row, lapsed, contested>>
        BY <1>5, <2>2 DEF RequestAddress, past
      <4> QED
        BY <4>1, <1>t DEF Idle
    <3>2. \A n \in Tasks : \A a \in Addresses :
            /\ Holds(n, a)' => Holds(n, a)
            /\ AboutToMark(n, a)' => AboutToMark(n, a)
      BY <3>1 DEF Holds, AboutToMark, Asked
    <3>3. AnswersAreFinal'
      BY <2>2, <3>1 DEF AnswersAreFinal, Asked
    <3> QED
      BY <3>1, <3>2, <3>3, FewerHolders
  <2> QED
    BY <2>1, <2>2
<1>6. ASSUME NEW k \in Rows, InsertRow(m, k) PROVE Addressing' /\ AnswersAreFinal'
  <2>1. CASE task[m].payout = None
    BY <1>6, <2>1, <1>g, <1>q DEF InsertRow, past
  <2>2. CASE task[m].payout # None
    <3> DEFINE b == task[m].address
    <3>1. /\ \A n \in Tasks \ {m} : task'[n] = task[n]
          /\ task'[m].at = "row inserted"
          /\ UNCHANGED <<signer, used, lapsed, contested>>
          /\ row'[k].address = b /\ (\A j \in Rows \ {k} : row'[j] = row[j])
      <4>1. row \in [Rows -> Escrow \cup {NoRow}]
        BY DEF TypeOK
      <4>2. /\ UNCHANGED <<signer, used, lapsed, contested>>
            /\ row' = [row EXCEPT ![k] =
                         [buyer |-> Of[m], chain |-> task[m].chain,
                          payout |-> task[m].payout, address |-> b]]
            /\ Goto(m, "row inserted")
        BY <1>6, <2>2 DEF InsertRow, past
      <4> QED
        BY <4>1, <4>2, <1>g
    <3>2. b \in Addresses /\ Holds(m, b) /\ signer[m].at = "off"
      BY <1>6 DEF InsertRow, AnswersAreFinal, Holds
    <3> HIDE DEF b
    <3>3. \A n \in Tasks : \A a \in Addresses : Holds(n, a)' => Holds(n, a) /\ n # m
      BY <3>1, <3>2 DEF Holds, Asked
    <3>4. AnswersAreFinal'
      BY <3>1 DEF AnswersAreFinal, Asked
    <3>5. AddressesAreDistinct'
      <4>1. b \in lapsed \cup contested \/ \A j \in Rows : row[j].address # b
        BY <3>2 DEF Addressing, HoldersAreDistinct
      <4>2. SUFFICES ASSUME NEW i \in Rows, NEW j \in Rows, i # j, row'[i] # NoRow,
                            row'[i].address = row'[j].address
                     PROVE  row'[i].address \in lapsed \cup contested
        BY <3>1 DEF AddressesAreDistinct
      <4>3. CASE i = k
        BY <3>1, <4>1, <4>2, <4>3
      <4>4. CASE j = k
        BY <3>1, <4>1, <4>2, <4>4
      <4>5. CASE i # k /\ j # k
        BY <3>1, <4>2, <4>5 DEF Addressing, AddressesAreDistinct
      <4> QED
        BY <4>3, <4>4, <4>5
    <3>6. AddressesAreMarked'
      <4>1. \A a \in Addresses : Held(a)' => Held(a)
        BY <3>1, <3>2, <3>3 DEF Held
      <4> QED
        BY <3>1, <4>1 DEF Addressing, AddressesAreMarked
    <3>7. HoldersAreDistinct'
      <4> SUFFICES ASSUME NEW n \in Tasks, NEW a \in Addresses, a \notin lapsed \cup contested,
                          Holds(n, a)'
                   PROVE  /\ \A l \in Tasks : Holds(l, a)' => l = n
                          /\ \A j \in Rows : row'[j].address # a
        BY <3>1 DEF HoldersAreDistinct
      <4>1. /\ Holds(n, a) /\ n # m
            /\ \A l \in Tasks : Holds(l, a) => l = n
            /\ \A j \in Rows : row[j].address # a
        BY <3>3 DEF Addressing, HoldersAreDistinct
      <4>2. a # b
        BY <3>2, <4>1
      <4>3. \A j \in Rows : row'[j].address # a
        BY <3>1, <4>1, <4>2
      <4> QED
        BY <3>3, <4>1, <4>3
    <3>8. MarksAreFirst'
      <4>1. \A a \in Addresses : Held(a)' => Held(a)
        BY <3>1, <3>2, <3>3 DEF Held
      <4> QED
        BY <3>1, <4>1 DEF Addressing, MarksAreFirst, AboutToMark, Asked
    <3> QED
      BY <3>4, <3>5, <3>6, <3>7, <3>8 DEF Addressing
  <2> QED
    BY <2>1, <2>2
<1> QED
  BY <1>1, <1>2, <1>3, <1>4, <1>5, <1>6 DEF BotStep

\* A signer's handler gains an address when it marks it.
LEMMA SignerAddresses ==
  ASSUME TypeOK, Addressing, AnswersAreFinal, NEW m \in Tasks, SignerStep(m)
  PROVE  Addressing' /\ AnswersAreFinal'
<1>t. task \in [Tasks -> Handler] /\ signer \in [Tasks -> SignerHandler]
  BY DEF TypeOK
<1>a. ASSUME NEW a \in Addresses \cup {NoAddress}, Answer(m, a),
             a # NoAddress => signer[m].at = "fund" /\ Asked(m) = a,
             UNCHANGED <<used, lapsed, contested>>
      PROVE  Addressing' /\ AnswersAreFinal'
  <2>1. /\ \A n \in Tasks \ {m} : task'[n] = task[n] /\ signer'[n] = signer[n]
        /\ signer'[m].at = "off"
        /\ row' = row
    BY <1>a, <1>t DEF Answer, Off
  <2>2. \/ task' = task
        \/ task'[m].at = "idle"
        \/ /\ task'[m].at = "answered" /\ task'[m].address = a /\ a # NoAddress
           /\ task'[m].chain = task[m].chain /\ task[m].at = "waiting"
    <3>1. task[m] \in Handler
      BY <1>t
    <3>2. CASE task[m].at = "waiting" /\ a = NoAddress
      BY <1>a, <1>t, <3>2 DEF Answer, Idle
    <3>3. CASE task[m].at = "waiting" /\ a # NoAddress
      BY <1>a, <1>t, <3>3, AnswerArrives
    <3>4. CASE task[m].at # "waiting"
      BY <1>a, <3>4 DEF Answer
    <3> QED
      BY <3>2, <3>3, <3>4
  <2>3. \A n \in Tasks : \A c \in Addresses :
          /\ Holds(n, c)' => Holds(n, c)
          /\ AboutToMark(n, c)' => AboutToMark(n, c)
    BY <1>a, <2>1, <2>2 DEF Holds, AboutToMark, Asked
  <2>4. AnswersAreFinal'
    BY <1>a, <2>1, <2>2 DEF AnswersAreFinal, Asked
  <2> QED
    BY <1>a, <2>1, <2>3, <2>4, FewerHolders
<1>1. CASE ReadKey(m)
  <2>1. /\ \A n \in Tasks \ {m} : signer'[n] = signer[n]
        /\ signer'[m].at \in {"get", "set"} /\ signer[m].at = "get"
        /\ signer'[m].at = "set" => signer'[m].key = signer[m].key /\ Asked(m) \notin used
        /\ signer'[m].chain = signer[m].chain
        /\ UNCHANGED <<task, used, row, lapsed, contested>>
    BY <1>1, <1>t DEF ReadKey, SignerGoto, SignerHandler, dialogue, past
  <2>2. \A n \in Tasks : \A c \in Addresses :
          /\ Holds(n, c)' => Holds(n, c)
          /\ AboutToMark(n, c)' => AboutToMark(n, c) \/ c \notin used
    BY <2>1 DEF Holds, AboutToMark, Asked
  <2>3. signer'[m].at = "set" => Asked(m)' \in Addresses'
    <3>1. ASSUME signer'[m].at = "set"
          PROVE  signer[m].key \in 1..Keys[signer[m].chain] /\ signer[m].chain \in Chains
      <4>1. signer[m] \in SignerHandler
        BY <1>t
      <4>2. signer[m].key \in Nat \ {0} /\ signer[m].chain \in Chains
        BY <4>1 DEF SignerHandler
      <4>3. signer[m].key <= Keys[signer[m].chain]
        BY <1>1 DEF ReadKey
      <4> QED
        BY <4>2, <4>3, OpeningAssumption
    <3> QED
      BY <2>1, <3>1, InAddresses DEF Asked, Addresses
  <2>4. AnswersAreFinal'
    BY <2>1, <2>3 DEF AnswersAreFinal, Asked, Addresses
  <2> QED
    BY <2>1, <2>2, <2>4, FewerHolders
<1>2. CASE NoKeyLeft(m)
  BY <1>2, <1>a DEF NoKeyLeft, past
<1>3. CASE MarkKey(m)
  <2> DEFINE b == Asked(m)
  <2>1. /\ \A n \in Tasks \ {m} : signer'[n] = signer[n]
        /\ signer[m].at = "set" /\ signer'[m].at = "fund"
        /\ signer'[m].key = signer[m].key /\ signer'[m].chain = signer[m].chain
        /\ used' = used \cup {b}
        /\ UNCHANGED <<task, row>>
    BY <1>3, <1>t DEF MarkKey, SignerGoto, SignerHandler, dialogue
  <2>2. b \in Addresses /\ Asked(m)' = b
    BY <2>1 DEF AnswersAreFinal, Asked
  <2>3. /\ lapsed' = IF Held(b) THEN lapsed ELSE lapsed \ {b}
        /\ Held(b) => b \in lapsed' \cup contested'
        /\ \A a \in Addresses \ {b} : a \in contested <=> a \in contested'
        /\ Held(b) => contested \subseteq contested'
        /\ b \notin contested' => \A n \in Tasks \ {m} : ~ AboutToMark(n, b)
    BY <1>3, <2>1, <2>2 DEF MarkKey, Addressing, MarksAreFirst, AboutToMark
  <2> HIDE DEF b
  <2>4. \A n \in Tasks : \A a \in Addresses :
          Holds(n, a)' => Holds(n, a) \/ (n = m /\ a = b)
    BY <2>1, <2>2 DEF Holds, Asked
  <2>5. AnswersAreFinal'
    BY <2>1, <2>2 DEF AnswersAreFinal, Asked
  <2>6. AddressesAreDistinct'
    BY <2>1, <2>2, <2>3 DEF Addressing, AddressesAreDistinct, Held, TypeOK
  <2>7. AddressesAreMarked'
    <3>1. \A a \in Addresses \ {b} : Held(a)' => Held(a)
      BY <2>1, <2>4 DEF Held
    <3> QED
      BY <2>1, <2>3, <3>1 DEF Addressing, AddressesAreMarked
  <2>8. MarksAreFirst'
    <3> SUFFICES ASSUME NEW n \in Tasks, NEW a \in Addresses, a \notin lapsed' \cup contested',
                        Held(a)'
                 PROVE  ~ AboutToMark(n, a)'
      BY DEF MarksAreFirst
    <3>1. n # m => (AboutToMark(n, a)' <=> AboutToMark(n, a))
      BY <2>1 DEF AboutToMark, Asked
    <3>2. ~ AboutToMark(m, a)'
      BY <2>1 DEF AboutToMark
    <3>3. CASE a = b
      BY <2>3, <3>1, <3>2, <3>3
    <3>4. CASE a # b
      <4>1. Held(a) /\ a \notin lapsed \cup contested
        BY <2>1, <2>3, <2>4, <3>4 DEF Held
      <4> QED
        BY <3>1, <3>2, <4>1 DEF Addressing, MarksAreFirst
    <3> QED
      BY <3>3, <3>4
  <2>9. HoldersAreDistinct'
    <3> SUFFICES ASSUME NEW n \in Tasks, NEW a \in Addresses, a \notin lapsed' \cup contested',
                        Holds(n, a)'
                 PROVE  /\ \A l \in Tasks : Holds(l, a)' => l = n
                        /\ \A k \in Rows : row'[k].address # a
      BY DEF HoldersAreDistinct
    <3>1. CASE a = b
      <4>1. ~ Held(b)
        BY <2>3, <3>1
      <4> QED
        BY <2>1, <2>4, <3>1, <4>1 DEF Held
    <3>2. CASE a # b
      <4>1. a \notin lapsed \cup contested
        BY <2>3, <3>2
      <4> QED
        BY <2>1, <2>4, <3>2, <4>1 DEF Addressing, HoldersAreDistinct
    <3> QED
      BY <3>1, <3>2
  <2> QED
    BY <2>5, <2>6, <2>7, <2>8, <2>9 DEF Addressing
<1>4. CASE FundGas(m)
  <2>1. Asked(m) \in Addresses
    BY <1>4 DEF FundGas, AnswersAreFinal
  <2> QED
    BY <1>4, <1>a, <2>1 DEF FundGas, past
<1>5. CASE SignerStops(m)
  BY <1>5, <1>a DEF SignerStops, Stop
<1> QED
  BY <1>1, <1>2, <1>3, <1>4, <1>5 DEF SignerStep

\* Time and the end of an escrow take addresses away.
LEMMA OtherAddresses ==
  ASSUME TypeOK, Addressing, AnswersAreFinal,
         (\E a \in used : KeyExpires(a)) \/ (\E k \in Rows : CloseRow(k))
  PROVE  Addressing' /\ AnswersAreFinal'
<1>1. UNCHANGED <<task, signer, contested>> /\ lapsed \subseteq lapsed'
  BY DEF KeyExpires, CloseRow, dialogue, past
<1>2. \A a \in Addresses : a \in used /\ Held(a) => a \in used' \cup lapsed'
  BY DEF KeyExpires, CloseRow, past
<1>3. \A k \in Rows : row'[k] = row[k] \/ row'[k] = NoRow
  BY DEF KeyExpires, CloseRow, TypeOK
<1>4. \A n \in Tasks : \A a \in Addresses :
        /\ Holds(n, a)' => Holds(n, a)
        /\ AboutToMark(n, a)' => AboutToMark(n, a)
  BY <1>1 DEF Holds, AboutToMark, Asked
<1>5. AnswersAreFinal'
  BY <1>1 DEF AnswersAreFinal, Asked
<1> QED
  BY <1>1, <1>2, <1>3, <1>4, <1>5, FewerHolders

-----------------------------------------------------------------------------
(* The theorems.                                                           *)

LEMMA StepInv == IInv /\ [Next]_vars => IInv'
<1> SUFFICES ASSUME IInv, [Next]_vars PROVE IInv'
  OBVIOUS
<1>1. ASSUME NEW m \in Tasks, BotStep(m) \/ SignerStep(m)
      PROVE  TypeOK' /\ SerialDialogue' /\ Addressing' /\ AnswersAreFinal'
  BY <1>1, BotTypes, SignerTypes, BotSerial, SignerSerial, BotAddresses, SignerAddresses
     DEF IInv, Addressing
<1>2. ASSUME (\E a \in used : KeyExpires(a)) \/ (\E k \in Rows : CloseRow(k))
      PROVE  TypeOK' /\ SerialDialogue' /\ Addressing' /\ AnswersAreFinal'
  <2>1. UNCHANGED <<state, data, task, crossed>>
    BY <1>2 DEF KeyExpires, CloseRow, dialogue, past
  <2>2. SerialDialogue'
    BY <2>1 DEF IInv, SerialDialogue, Alone
  <2> QED
    BY <1>2, <2>2, OtherTypes, OtherAddresses DEF IInv, Addressing
<1>3. CASE UNCHANGED vars
  BY <1>3 DEF vars, IInv, TypeOK, PayoutMatchesChain, AddressesAreDistinct,
     AddressesAreMarked, MarksAreFirst, HoldersAreDistinct, AnswersAreFinal,
     AnswersTakeSteps, SerialDialogue,
     Alone, Held, Holds, AboutToMark, Asked
<1>4. PayoutMatchesChain' /\ AnswersTakeSteps'
  BY RowsMatch, StepsKept DEF IInv
<1> QED
  BY <1>1, <1>2, <1>3, <1>4 DEF Next, IInv, Addressing

\* The invariant holds in every reachable state.
THEOREM Invariance == Spec => []IInv
BY InitInv, StepInv, PTL DEF Spec

\* A row's payout address is one of its chain, for any number of users, unless
\* the buyer's own messages overlapped.
THEOREM PayoutFitsChain == Spec => []PayoutMatchesChain
<1>1. IInv => PayoutMatchesChain
  BY DEF IInv
<1> QED
  BY Invariance, <1>1, PTL

\* Open escrows have different deposit addresses, for any number of requests
\* and any key lists, unless the key of an address went while it was held, or
\* one handler wrote it while another stood between its read and its write.
THEOREM DistinctAddresses == Spec => []AddressesAreDistinct
<1>1. IInv => AddressesAreDistinct
  BY DEF IInv
<1> QED
  BY Invariance, <1>1, PTL
=============================================================================
