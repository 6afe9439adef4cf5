---------------------------- MODULE PayoutLimits ----------------------------
(***************************************************************************)
(* The signer's payout limits: check_and_track_limits (trustora/limits.py) *)
(* run by concurrent POST /payout handlers.  Each handler reads the clock  *)
(* once and then increments the key of that day and the key of that hour;  *)
(* an increment is atomic in Redis, the handler as a whole is not, so a    *)
(* handler may increment the key of an hour that is over.                  *)
(*                                                                         *)
(* What is asked for is the net amount of an escrow, which trustora/fees.py*)
(* makes zero or negative when the escrow is not above the flat fee: such  *)
(* a request lowers the day's key, and no transfer can follow it.          *)
(***************************************************************************)
EXTENDS Fees

CONSTANTS
  Calls,         \* handlers that may be under way at once (bound)
  Received,      \* amounts of escrows, whose net amounts are asked for
  AutoMax,       \* auto_payout_max
  HardMax,       \* hard_max_payout
  DailyMax,      \* daily_payout_max
  HourlyMax,     \* payouts_per_hour_max
  Day,           \* Day[h]: the day of hour h
  MaxHour,       \* the clock stops here (bound)
  MaxAttempts,   \* requests made in all (bound)
  MaxRestarts    \* restarts of Redis (bound)

ASSUME LimitsAssumption ==
  /\ Received \subseteq Nat
  /\ {AutoMax, HardMax, DailyMax, HourlyMax, MaxHour, MaxAttempts, MaxRestarts}
       \subseteq Nat

Hours == 0..MaxHour
Days == {Day[h] : h \in Hours}

ASSUME DayAssumption ==
  /\ \A h \in Hours : Day[h] \in Nat
  /\ \A g, h \in Hours : g <= h => Day[g] <= Day[h]

VARIABLES
  hour,       \* the hour it is, counted from the first
  dayTotal,   \* Redis payouts:day:<day>, 0 when absent
  hourCount,  \* Redis payouts:hour:<hour>, 0 when absent
  at,         \* at[c]: the point handler c has reached
  now,        \* now[c]: the hour it read
  amount,     \* amount[c]: what it was asked to pay
  attempts,   \* requests made
  restarts,   \* restarts of Redis
  passed,     \* history: passed[d], what the daily limit let through for day d
              \* and can be sent, requests counted after the day included
  lowered,    \* history: lowered[d], what non-positive amounts that it let
              \* through took off the key of day d
  admitted,   \* history: admitted[h], the requests admitted for hour h, those
              \* counted after the hour included
  dayLost,    \* history: how often the key of day d has gone with what it had
  hourLost    \* history: how often the key of hour h has

keys == <<dayTotal, hourCount, dayLost, hourLost>>
handlers == <<at, now, amount>>
counted == <<passed, lowered, admitted>>
vars == <<hour, keys, handlers, attempts, restarts, counted>>

TypeOK ==
  /\ hour \in Hours
  /\ dayTotal \in [Days -> Int]
  /\ hourCount \in [Hours -> Nat]
  /\ at \in [Calls -> {"idle", "day", "hour"}]
  /\ now \in [Calls -> Hours]
  /\ amount \in [Calls -> Int]
  /\ attempts \in Nat
  /\ restarts \in 0..MaxRestarts
  /\ {passed, lowered, dayLost} \subseteq [Days -> Nat]
  /\ {admitted, hourLost} \subseteq [Hours -> Nat]

Init ==
  /\ hour = 0
  /\ dayTotal = [d \in Days |-> 0]
  /\ hourCount = [h \in Hours |-> 0]
  /\ at = [c \in Calls |-> "idle"]
  /\ now = [c \in Calls |-> 0]
  /\ amount = [c \in Calls |-> 0]
  /\ attempts = 0
  /\ restarts = 0
  /\ passed = [d \in Days |-> 0]
  /\ lowered = [d \in Days |-> 0]
  /\ admitted = [h \in Hours |-> 0]
  /\ dayLost = [d \in Days |-> 0]
  /\ hourLost = [h \in Hours |-> 0]

\* The two tests on the amount, then the one reading of the clock.  A refused
\* amount leaves no trace.
Begin(c, x) ==
  /\ at[c] = "idle"
  /\ attempts < MaxAttempts
  /\ x <= HardMax
  /\ x <= AutoMax
  /\ at' = [at EXCEPT ![c] = "day"]
  /\ now' = [now EXCEPT ![c] = hour]
  /\ amount' = [amount EXCEPT ![c] = x]
  /\ attempts' = attempts + 1
  /\ UNCHANGED <<hour, keys, restarts, counted>>

\* A slip: the total is compared before the amount is in it.
DayTotalBefore(c) == dayTotal[Day[now[c]]]

DayTotalWith(c) == dayTotal[Day[now[c]]] + amount[c]

\* incrbyfloat on the day's key: the amount stays in it when it is refused.
CountDay(c) ==
  LET d == Day[now[c]]
      ok == DayTotalWith(c) <= DailyMax
  IN
  /\ at[c] = "day"
  /\ dayTotal' = [dayTotal EXCEPT ![d] = @ + amount[c]]
  /\ at' = [at EXCEPT ![c] = IF ok THEN "hour" ELSE "idle"]
  /\ passed' = IF ok /\ amount[c] > 0
                 THEN [passed EXCEPT ![d] = @ + amount[c]] ELSE passed
  /\ lowered' = IF ok /\ amount[c] <= 0
                  THEN [lowered EXCEPT ![d] = @ - amount[c]] ELSE lowered
  /\ UNCHANGED <<hour, hourCount, now, amount, attempts, restarts, admitted,
                 dayLost, hourLost>>

\* A slip: the count is compared before the request is in it.
HourCountBefore(c) == hourCount[now[c]]

HourCountWith(c) == hourCount[now[c]] + 1

\* incr on the hour's key: a refused request stays counted.
CountHour(c) ==
  LET h == now[c]
      ok == HourCountWith(c) <= HourlyMax
  IN
  /\ at[c] = "hour"
  /\ hourCount' = [hourCount EXCEPT ![h] = @ + 1]
  /\ at' = [at EXCEPT ![c] = "idle"]
  /\ admitted' = IF ok THEN [admitted EXCEPT ![h] = @ + 1] ELSE admitted
  /\ UNCHANGED <<hour, dayTotal, now, amount, attempts, restarts, passed,
                 lowered, dayLost, hourLost>>

\* Redis fails or the signer crashes: what was counted stays counted.
Fails(c) ==
  /\ at[c] # "idle"
  /\ at' = [at EXCEPT ![c] = "idle"]
  /\ UNCHANGED <<hour, keys, now, amount, attempts, restarts, counted>>

Tick ==
  /\ hour < MaxHour
  /\ hour' = hour + 1
  /\ UNCHANGED <<keys, handlers, attempts, restarts, counted>>

\* A key lives 86400 seconds from the increment that created it: its day is
\* over when it goes.  A handler that is late may create it once more.
DayKeyExpires(d) ==
  /\ d < Day[hour]
  /\ dayTotal[d] # 0
  /\ dayTotal' = [dayTotal EXCEPT ![d] = 0]
  /\ dayLost' = [dayLost EXCEPT ![d] = @ + 1]
  /\ UNCHANGED <<hour, hourCount, hourLost, handlers, attempts, restarts, counted>>

\* A key lives 3600 seconds: its hour is over when it goes.
HourKeyExpires(h) ==
  /\ h < hour
  /\ hourCount[h] # 0
  /\ hourCount' = [hourCount EXCEPT ![h] = 0]
  /\ hourLost' = [hourLost EXCEPT ![h] = @ + 1]
  /\ UNCHANGED <<hour, dayTotal, dayLost, handlers, attempts, restarts, counted>>

Lost(n) == IF n = 0 THEN 0 ELSE 1

\* Redis has no volume: it comes back empty.
RedisRestarts ==
  /\ restarts < MaxRestarts
  /\ restarts' = restarts + 1
  /\ dayTotal' = [d \in Days |-> 0]
  /\ hourCount' = [h \in Hours |-> 0]
  /\ dayLost' = [d \in Days |-> dayLost[d] + Lost(dayTotal[d])]
  /\ hourLost' = [h \in Hours |-> hourLost[h] + Lost(hourCount[h])]
  /\ UNCHANGED <<hour, handlers, attempts, counted>>

Next ==
  \/ \E c \in Calls :
       \/ \E a \in Received : \E x \in Net(a) : Begin(c, x)
       \/ CountDay(c)
       \/ CountHour(c)
       \/ Fails(c)
  \/ Tick
  \/ \E d \in Days : DayKeyExpires(d)
  \/ \E h \in Hours : HourKeyExpires(h)
  \/ RedisRestarts

Spec == Init /\ [][Next]_vars

-----------------------------------------------------------------------------
(* Properties.                                                             *)

\* What can be sent of what the daily limit lets through for a day stays within
\* daily_payout_max, once more each time the day's key went, and beyond it only
\* by what non-positive net amounts took off the key: however handlers
\* interleave, whatever refused requests, of either sign, leave in the key, and
\* however late they count.  While the day lasts, its key goes only with Redis.
DailyMaxHolds ==
  \A d \in Days :
    /\ passed[d] <= (dayLost[d] + 1) * DailyMax + lowered[d]
    /\ Day[hour] <= d => dayLost[d] <= restarts

\* No more than payouts_per_hour_max requests are admitted for one hour, and as
\* many again each time the hour's key went, which it does only with Redis
\* while the hour lasts.
HourlyMaxHolds ==
  \A h \in Hours :
    /\ admitted[h] <= (hourLost[h] + 1) * HourlyMax
    /\ hour <= h => hourLost[h] <= restarts

\* A key counts at least what was let through beyond the limits of its earlier
\* lives.
KeysCover ==
  /\ \A d \in Days : passed[d] - lowered[d] <= dayLost[d] * DailyMax + dayTotal[d]
  /\ \A h \in Hours : admitted[h] <= hourLost[h] * HourlyMax + hourCount[h]

\* A handler's reading of the clock may be late, never early.
ReadingsArePast == \A c \in Calls : now[c] <= hour

\* What holds in every reachable state, and is kept by every step.
IInv == TypeOK /\ ReadingsArePast /\ KeysCover /\ DailyMaxHolds /\ HourlyMaxHolds
=============================================================================
