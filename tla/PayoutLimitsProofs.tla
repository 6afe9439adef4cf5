------------------------- MODULE PayoutLimitsProofs -------------------------
(***************************************************************************)
(* Proofs about PayoutLimits, for any number of handlers, any amounts, any *)
(* limits and any length of the day.                                       *)
(***************************************************************************)
EXTENDS PayoutLimits, TLAPS

\* The day of an hour is a day.
LEMMA DayOfHour == \A h \in Hours : Day[h] \in Days /\ Day[h] \in Nat
BY DayAssumption DEF Days

LEMMA DaysAreNat == Days \subseteq Nat
BY DayAssumption DEF Days

LEMMA HoursAreNat == Hours \subseteq Nat
BY LimitsAssumption DEF Hours

\* Nothing was let through at first.
LEMMA InitInv == Init => IInv
<1> SUFFICES ASSUME Init PROVE IInv
  OBVIOUS
<1> USE LimitsAssumption DEF Hours
<1>1. TypeOK
  BY DEF Init, TypeOK
<1>2. KeysCover
  BY DEF Init, KeysCover
<1>3. DailyMaxHolds /\ HourlyMaxHolds
  BY DEF Init, DailyMaxHolds, HourlyMaxHolds
<1> QED
  BY <1>1, <1>2, <1>3 DEF IInv, ReadingsArePast, Init

\* Net amounts are whole cents, and so integers.
LEMMA NearestIsInt ==
  ASSUME NEW x \in Int, NEW s \in Nat \ {0}
  PROVE  Nearest(x, s) \subseteq Int
<1>1. s * Cent \in Nat \ {0}
  BY DEF Cent
<1>2. x \div (s * Cent) \in Int
  BY <1>1
<1> QED
  BY <1>2 DEF Nearest, Cent

LEMMA FeeIsInt == \A a \in Nat : Fee(a) \subseteq Int
<1> SUFFICES ASSUME NEW a \in Nat PROVE Fee(a) \subseteq Int
  OBVIOUS
<1>1. a * Percent \in Int /\ Flat \in Int
  BY FeesAssumption
<1> QED
  BY <1>1, NearestIsInt DEF Fee

LEMMA NetIsInt == \A a \in Nat : Net(a) \subseteq Int
<1> SUFFICES ASSUME NEW a \in Nat PROVE Net(a) \subseteq Int
  OBVIOUS
<1>1. \A f \in Fee(a) : Nearest(a - f, 1) \subseteq Int
  BY FeeIsInt, NearestIsInt
<1> QED
  BY <1>1 DEF Net

\* What the fee and the seller's net amount add up to is within half a cent of
\* the amount, whatever fee is charged.
THEOREM FeeAndNetAddUp ==
  ASSUME NEW a \in Nat, NEW x \in Net(a)
  PROVE  \E f \in Fee(a) : 2 * (x + f - a) \in (-Cent)..Cent
<1>1. PICK f \in Fee(a) : x \in Nearest(a - f, 1)
  BY DEF Net
<1>2. f \in Int /\ x \in Int
  BY FeeIsInt, NetIsInt
<1>3. 2 * (1 * x - (a - f)) \in (-1 * Cent)..(1 * Cent)
  BY <1>1 DEF Nearest
<1> QED
  BY <1>1, <1>2, <1>3 DEF Cent

\* An amount can always be rounded, to one cent or to one of two.
LEMMA NearestExists ==
  ASSUME NEW x \in Int, NEW s \in Nat \ {0}
  PROVE  Nearest(x, s) # {}
<1> DEFINE k == s * Cent
           q == x \div k
<1>1. k \in Nat \ {0} /\ Cent = 10
  BY DEF Cent
<1>2. q \in Int /\ k * q <= x /\ x < k * q + k
  BY <1>1
<1>3. s * (Cent * q) = k * q /\ s * (Cent * q + Cent) = k * q + k
  BY <1>1, <1>2
<1>4. Cent * q \in Int /\ k * q \in Int /\ -s * Cent = -k
  BY <1>1, <1>2
<1>5. Nearest(x, s) = {c \in {Cent * q, Cent * q + Cent} : 2 * (s * c - x) \in (-k)..k}
  BY <1>4 DEF Nearest
<1> HIDE DEF k, q
<1>6. CASE 2 * (x - k * q) <= k
  <2>1. 2 * (s * (Cent * q) - x) \in (-k)..k
    BY <1>1, <1>2, <1>3, <1>4, <1>6
  <2> QED
    BY <1>5, <2>1
<1>7. CASE 2 * (x - k * q) > k
  <2>1. 2 * (s * (Cent * q + Cent) - x) \in (-k)..k
    BY <1>1, <1>2, <1>3, <1>4, <1>7
  <2> QED
    BY <1>5, <2>1
<1> QED
  BY <1>1, <1>2, <1>4, <1>6, <1>7

\* A fee is not negative.
LEMMA FeeIsNat == \A a \in Nat : Fee(a) \subseteq Nat
<1> SUFFICES ASSUME NEW a \in Nat, NEW f \in Fee(a) PROVE f \in Nat
  OBVIOUS
<1>1. CASE f = Flat
  BY <1>1, FeesAssumption
<1>2. CASE f \in Nearest(a * Percent, 100)
  <2>1. a * Percent \in Nat
    BY FeesAssumption
  <2> DEFINE q == (a * Percent) \div 1000
  <2>2. q \in Nat
    BY <2>1
  <2>3. f = 10 * q \/ f = 10 * q + 10
    BY <1>2 DEF Nearest, Cent
  <2> QED
    BY <2>2, <2>3
<1> QED
  BY <1>1, <1>2 DEF Fee

\* The net amount of every escrow is defined.
LEMMA NetExists == \A a \in Nat : Net(a) # {}
<1> SUFFICES ASSUME NEW a \in Nat PROVE Net(a) # {}
  OBVIOUS
<1>1. a * Percent \in Int
  BY FeesAssumption
<1>2. PICK f \in Fee(a) : TRUE
  BY <1>1, NearestExists DEF Fee
<1>3. Nearest(a - f, 1) # {}
  BY FeeIsInt, NearestExists
<1> QED
  BY <1>2, <1>3 DEF Net

\* The seller is never sent more than the buyer paid in: an escrow is funded by
\* its amount, in whole cents, and no fee and no rounding adds to it.
THEOREM SellerGetsNoMore ==
  ASSUME NEW a \in Nat, a % Cent = 0, NEW x \in Net(a)
  PROVE  x <= a
<1>1. PICK f \in Fee(a) : x \in Nearest(a - f, 1)
  BY DEF Net
<1>2. f \in Nat /\ x \in Int
  BY FeeIsNat, NetIsInt
<1>3. 2 * (x - (a - f)) <= 10
  BY <1>1, <1>2 DEF Nearest, Cent
<1> DEFINE k == (a - f) \div 10
           n == a \div 10
<1>4. k \in Int /\ n \in Int /\ a = 10 * n
  BY <1>2 DEF Cent
<1>5. x = 10 * k \/ x = 10 * k + 10
  BY <1>1 DEF Nearest, Cent
<1> HIDE DEF k, n
<1> QED
  BY <1>2, <1>3, <1>4, <1>5

\* The limits can be lowered only by an escrow whose amount the flat fee eats
\* up, half a cent of rounding included.
THEOREM NothingLeftOfSmallAmounts ==
  ASSUME NEW a \in Nat, a <= Threshold, NEW x \in Net(a)
  PROVE  /\ x <= 0 => 2 * a <= 2 * Flat + Cent
         /\ a <= Flat => x <= 0
<1>1. Flat \in Nat /\ x \in Int
  BY FeesAssumption, NetIsInt
<1>2. x \in Nearest(a - Flat, 1)
  BY DEF Net, Fee
<1>3. 2 * (x - (a - Flat)) \in (-Cent)..Cent
  BY <1>1, <1>2 DEF Nearest, Cent
<1>4. ASSUME a <= Flat PROVE x <= 0
  <2> DEFINE k == (a - Flat) \div 10
  <2>1. k \in Int
    BY <1>1
  <2>2. x = 10 * k \/ x = 10 * k + 10
    BY <1>2 DEF Nearest, Cent
  <2>3. 2 * x <= 10
    BY <1>1, <1>3, <1>4 DEF Cent
  <2> HIDE DEF k
  <2> QED
    BY <1>1, <2>1, <2>2, <2>3
<1> QED
  BY <1>1, <1>3, <1>4 DEF Cent

\* What is due for a day and for an hour.
DayHolds(d) ==
  /\ passed[d] <= (dayLost[d] + 1) * DailyMax + lowered[d]
  /\ passed[d] - lowered[d] <= dayLost[d] * DailyMax + dayTotal[d]
  /\ Day[hour] <= d => dayLost[d] <= restarts

HourHolds(h) ==
  /\ admitted[h] <= (hourLost[h] + 1) * HourlyMax
  /\ admitted[h] <= hourLost[h] * HourlyMax + hourCount[h]
  /\ hour <= h => hourLost[h] <= restarts

LEMMA Parts ==
  IInv <=> /\ TypeOK /\ ReadingsArePast
           /\ \A d \in Days : DayHolds(d)
           /\ \A h \in Hours : HourHolds(h)
BY DEF IInv, KeysCover, DailyMaxHolds, HourlyMaxHolds, DayHolds, HourHolds

\* The bounds once a key has gone once more.
LEMMA OneMoreLife ==
  ASSUME NEW l \in Nat, NEW x \in Nat
  PROVE  /\ l * x \in Nat
         /\ (l + 1) * x = l * x + x
         /\ (l + 2) * x = l * x + x + x
OBVIOUS

LEMMA DayKeyGone ==
  ASSUME NEW d \in Days, TypeOK, DayHolds(d), UNCHANGED <<passed, lowered>>,
         dayLost'[d] = dayLost[d] + 1, dayTotal'[d] = 0,
         Day[hour'] <= d => dayLost'[d] <= restarts'
  PROVE  DayHolds(d)'
<1>1. /\ dayLost[d] \in Nat /\ DailyMax \in Nat /\ passed[d] \in Nat /\ lowered[d] \in Nat
      /\ dayLost'[d] + 1 = dayLost[d] + 2
  BY LimitsAssumption DEF TypeOK
<1> QED
  BY <1>1, OneMoreLife DEF DayHolds

LEMMA HourKeyGone ==
  ASSUME NEW h \in Hours, TypeOK, HourHolds(h), UNCHANGED admitted,
         hourLost'[h] = hourLost[h] + 1, hourCount'[h] = 0,
         hour' <= h => hourLost'[h] <= restarts'
  PROVE  HourHolds(h)'
<1>1. /\ hourLost[h] \in Nat /\ HourlyMax \in Nat /\ admitted[h] \in Nat
      /\ hourLost'[h] + 1 = hourLost[h] + 2
  BY LimitsAssumption DEF TypeOK
<1> QED
  BY <1>1, OneMoreLife DEF HourHolds

\* Every step keeps the invariant.
LEMMA StepInv == IInv /\ [Next]_vars => IInv'
<1> SUFFICES ASSUME IInv, [Next]_vars PROVE IInv'
  OBVIOUS
<1>0. /\ TypeOK /\ ReadingsArePast
      /\ \A d \in Days : DayHolds(d)
      /\ \A h \in Hours : HourHolds(h)
  BY Parts
<1>p. ASSUME TypeOK', ReadingsArePast', \A d \in Days : DayHolds(d)',
             \A h \in Hours : HourHolds(h)'
      PROVE  IInv'
  BY <1>p DEF IInv, KeysCover, DailyMaxHolds, HourlyMaxHolds, DayHolds, HourHolds
<1> HIDE DEF IInv
<1> USE LimitsAssumption, DayOfHour, DaysAreNat
<1>1. ASSUME NEW c \in Calls, NEW a \in Received, NEW x \in Net(a), Begin(c, x)
      PROVE  IInv'
  <2>1. a \in Nat
    OBVIOUS
  <2>2. x \in Int
    BY <2>1, NetIsInt
  <2>3. TypeOK' /\ ReadingsArePast'
    <3>1. hour \in Nat /\ attempts + 1 \in Nat
      BY <1>0, HoursAreNat DEF TypeOK
    <3> QED
      BY <1>0, <1>1, <2>2, <3>1 DEF Begin, TypeOK, ReadingsArePast, keys, counted
  <2>4. UNCHANGED <<hour, keys, restarts, counted>>
    BY <1>1 DEF Begin
  <2> QED
    BY <1>0, <1>p, <2>3, <2>4 DEF DayHolds, HourHolds, keys, counted
<1>2. ASSUME NEW c \in Calls, CountDay(c) PROVE IInv'
  <2>0. PICK d \in Days : d = Day[now[c]]
    BY <1>0 DEF TypeOK
  <2> DEFINE ok == dayTotal[d] + amount[c] <= DailyMax
             m == dayLost[d] * DailyMax
  <2>1. /\ amount[c] \in Int /\ dayTotal[d] \in Int
        /\ passed[d] \in Nat /\ lowered[d] \in Nat /\ dayLost[d] \in Nat
    BY <1>0 DEF TypeOK
  <2>2. /\ dayTotal' = [dayTotal EXCEPT ![d] = dayTotal[d] + amount[c]]
        /\ passed' = IF ok /\ amount[c] > 0
                       THEN [passed EXCEPT ![d] = passed[d] + amount[c]] ELSE passed
        /\ lowered' = IF ok /\ amount[c] <= 0
                        THEN [lowered EXCEPT ![d] = lowered[d] - amount[c]] ELSE lowered
        /\ at' = [at EXCEPT ![c] = IF ok THEN "hour" ELSE "idle"]
        /\ UNCHANGED <<hour, hourCount, now, amount, attempts, restarts, admitted,
                       dayLost, hourLost>>
    BY <1>2, <2>0 DEF CountDay, DayTotalWith
  <2>3. passed' \in [Days -> Nat] /\ lowered' \in [Days -> Nat]
    <3>1. amount[c] > 0 => passed[d] + amount[c] \in Nat
      BY <2>1
    <3>2. amount[c] <= 0 => lowered[d] - amount[c] \in Nat
      BY <2>1
    <3> QED
      BY <1>0, <2>2, <3>1, <3>2 DEF TypeOK
  <2>4. TypeOK' /\ ReadingsArePast'
    BY <1>0, <2>1, <2>2, <2>3 DEF TypeOK, ReadingsArePast
  <2>5. DayHolds(d)'
    <3>1. /\ m \in Nat /\ (dayLost[d] + 1) * DailyMax = m + DailyMax
          /\ passed[d] <= m + DailyMax + lowered[d]
          /\ passed[d] - lowered[d] <= m + dayTotal[d]
      BY <1>0, <2>1, OneMoreLife DEF DayHolds
    <3>2. /\ dayTotal'[d] = dayTotal[d] + amount[c]
          /\ passed'[d] \in Nat /\ lowered'[d] \in Nat
          /\ passed'[d] - lowered'[d] = passed[d] - lowered[d] + (IF ok THEN amount[c] ELSE 0)
      BY <1>0, <2>1, <2>2, <2>3 DEF TypeOK
    <3> HIDE DEF m
    <3>3. /\ passed'[d] <= m + DailyMax + lowered'[d]
          /\ passed'[d] - lowered'[d] <= m + dayTotal'[d]
      BY <2>1, <3>1, <3>2
    <3> QED
      BY <1>0, <2>1, <2>2, <3>1, <3>3 DEF DayHolds, m
  <2>6. ASSUME NEW g \in Days \ {d} PROVE DayHolds(g)'
    BY <1>0, <2>1, <2>2, <2>6 DEF DayHolds, TypeOK
  <2>7. \A h \in Hours : HourHolds(h)'
    BY <1>0, <2>2 DEF HourHolds
  <2> QED
    BY <1>p, <2>4, <2>5, <2>6, <2>7
<1>3. ASSUME NEW c \in Calls, CountHour(c) PROVE IInv'
  <2>0. PICK h \in Hours : h = now[c]
    BY <1>0 DEF TypeOK
  <2> DEFINE ok == hourCount[h] + 1 <= HourlyMax
             m == hourLost[h] * HourlyMax
  <2>1. hourCount[h] \in Nat /\ admitted[h] \in Nat /\ hourLost[h] \in Nat
    BY <1>0 DEF TypeOK
  <2>2. /\ hourCount' = [hourCount EXCEPT ![h] = hourCount[h] + 1]
        /\ admitted' = IF ok THEN [admitted EXCEPT ![h] = admitted[h] + 1] ELSE admitted
        /\ at' = [at EXCEPT ![c] = "idle"]
        /\ UNCHANGED <<hour, dayTotal, now, amount, attempts, restarts, passed, lowered,
                       dayLost, hourLost>>
    BY <1>3, <2>0 DEF CountHour, HourCountWith
  <2>3. TypeOK' /\ ReadingsArePast'
    BY <1>0, <2>1, <2>2 DEF TypeOK, ReadingsArePast
  <2>4. HourHolds(h)'
    <3>1. /\ m \in Nat /\ (hourLost[h] + 1) * HourlyMax = m + HourlyMax
          /\ admitted[h] <= m + HourlyMax
          /\ admitted[h] <= m + hourCount[h]
      BY <1>0, <2>1, OneMoreLife DEF HourHolds
    <3>2. /\ hourCount'[h] = hourCount[h] + 1
          /\ admitted'[h] = admitted[h] + (IF ok THEN 1 ELSE 0)
      BY <1>0, <2>1, <2>2 DEF TypeOK
    <3> HIDE DEF m
    <3>3. admitted'[h] <= m + HourlyMax /\ admitted'[h] <= m + hourCount'[h]
      BY <2>1, <3>1, <3>2
    <3> QED
      BY <1>0, <2>1, <2>2, <3>1, <3>3 DEF HourHolds, m
  <2>5. ASSUME NEW g \in Hours \ {h} PROVE HourHolds(g)'
    BY <1>0, <2>1, <2>2, <2>5 DEF HourHolds, TypeOK
  <2>6. \A d \in Days : DayHolds(d)'
    BY <1>0, <2>2 DEF DayHolds
  <2> QED
    BY <1>p, <2>3, <2>4, <2>5, <2>6
<1>4. ASSUME NEW c \in Calls, Fails(c) PROVE IInv'
  <2>1. UNCHANGED <<hour, keys, restarts, counted>> /\ TypeOK' /\ ReadingsArePast'
    BY <1>0, <1>4 DEF Fails, TypeOK, ReadingsArePast, keys, counted
  <2> QED
    BY <1>0, <1>p, <2>1 DEF DayHolds, HourHolds, keys, counted
<1>5. CASE Tick
  <2>1. hour' \in Hours /\ hour <= hour' /\ {hour, hour'} \subseteq Nat
    BY <1>0, <1>5 DEF Tick, Hours, TypeOK
  <2>2. Day[hour] <= Day[hour'] /\ {Day[hour], Day[hour']} \subseteq Nat
    BY <1>0, <2>1, DayAssumption DEF TypeOK
  <2>3. UNCHANGED <<keys, handlers, attempts, restarts, counted>>
    BY <1>5 DEF Tick
  <2>4. TypeOK' /\ ReadingsArePast'
    <3>1. \A c \in Calls : now[c] \in Nat
      BY <1>0 DEF TypeOK, Hours
    <3> QED
      BY <1>0, <2>1, <2>3, <3>1 DEF TypeOK, ReadingsArePast, keys, handlers, counted
  <2>5. ASSUME NEW d \in Days PROVE DayHolds(d)'
    <3>1. Day[hour'] <= d => Day[hour] <= d
      BY <2>2
    <3> QED
      BY <1>0, <2>3, <3>1 DEF DayHolds, keys, counted
  <2>6. ASSUME NEW h \in Hours PROVE HourHolds(h)'
    <3>1. hour' <= h => hour <= h
      BY <2>1 DEF Hours
    <3> QED
      BY <1>0, <2>3, <3>1 DEF HourHolds, keys, counted
  <2> QED
    BY <1>p, <2>4, <2>5, <2>6
<1>6. ASSUME NEW d \in Days, DayKeyExpires(d) PROVE IInv'
  <2>1. /\ dayTotal' = [dayTotal EXCEPT ![d] = 0]
        /\ dayLost' = [dayLost EXCEPT ![d] = dayLost[d] + 1]
        /\ UNCHANGED <<hour, hourCount, hourLost, handlers, attempts, restarts, counted>>
        /\ d < Day[hour]
    BY <1>6 DEF DayKeyExpires
  <2>2. TypeOK' /\ ReadingsArePast'
    BY <1>0, <2>1 DEF TypeOK, ReadingsArePast, handlers, counted
  <2>3. DayHolds(d)'
    <3>1. d \in Nat /\ Day[hour] \in Nat /\ hour' = hour
      BY <1>0, <2>1 DEF TypeOK
    <3>2. dayLost'[d] = dayLost[d] + 1 /\ dayTotal'[d] = 0
      BY <1>0, <2>1 DEF TypeOK
    <3> QED
      BY <1>0, <2>1, <3>1, <3>2, DayKeyGone DEF counted
  <2>4. ASSUME NEW g \in Days \ {d} PROVE DayHolds(g)'
    BY <1>0, <2>1, <2>4 DEF DayHolds, TypeOK, counted
  <2>5. \A h \in Hours : HourHolds(h)'
    BY <1>0, <2>1 DEF HourHolds, counted
  <2> QED
    BY <1>p, <2>2, <2>3, <2>4, <2>5
<1>7. ASSUME NEW h \in Hours, HourKeyExpires(h) PROVE IInv'
  <2>1. /\ hourCount' = [hourCount EXCEPT ![h] = 0]
        /\ hourLost' = [hourLost EXCEPT ![h] = hourLost[h] + 1]
        /\ UNCHANGED <<hour, dayTotal, dayLost, handlers, attempts, restarts, counted>>
        /\ h < hour
    BY <1>7 DEF HourKeyExpires
  <2>2. TypeOK' /\ ReadingsArePast'
    BY <1>0, <2>1 DEF TypeOK, ReadingsArePast, handlers, counted
  <2>3. HourHolds(h)'
    <3>1. h \in Nat /\ hour \in Nat /\ hour' = hour
      BY <1>0, <2>1 DEF TypeOK, Hours
    <3>2. hourLost'[h] = hourLost[h] + 1 /\ hourCount'[h] = 0
      BY <1>0, <2>1 DEF TypeOK
    <3> QED
      BY <1>0, <2>1, <3>1, <3>2, HourKeyGone DEF counted
  <2>4. ASSUME NEW g \in Hours \ {h} PROVE HourHolds(g)'
    BY <1>0, <2>1, <2>4 DEF HourHolds, TypeOK, counted
  <2>5. \A d \in Days : DayHolds(d)'
    BY <1>0, <2>1 DEF DayHolds, counted
  <2> QED
    BY <1>p, <2>2, <2>3, <2>4, <2>5
<1>8. CASE RedisRestarts
  <2>1. /\ restarts < MaxRestarts /\ restarts' = restarts + 1
        /\ dayTotal' = [d \in Days |-> 0]
        /\ hourCount' = [h \in Hours |-> 0]
        /\ dayLost' = [d \in Days |-> dayLost[d] + Lost(dayTotal[d])]
        /\ hourLost' = [h \in Hours |-> hourLost[h] + Lost(hourCount[h])]
        /\ UNCHANGED <<hour, handlers, attempts, counted>>
    BY <1>8 DEF RedisRestarts
  <2>2. restarts \in Nat /\ restarts' \in 0..MaxRestarts
    BY <1>0, <2>1 DEF TypeOK
  <2>3. TypeOK' /\ ReadingsArePast'
    <3>1. dayLost' \in [Days -> Nat] /\ hourLost' \in [Hours -> Nat]
      BY <1>0, <2>1 DEF TypeOK, Lost
    <3> QED
      BY <1>0, <2>1, <2>2, <3>1 DEF TypeOK, ReadingsArePast, handlers, counted
  <2>4. ASSUME NEW d \in Days PROVE DayHolds(d)'
    <3>1. /\ dayTotal'[d] = 0 /\ dayLost'[d] = dayLost[d] + Lost(dayTotal[d])
          /\ dayLost[d] \in Nat /\ hour' = hour /\ Day[hour] \in Nat /\ d \in Nat
      BY <1>0, <2>1 DEF TypeOK
    <3>2. CASE dayTotal[d] = 0
      BY <1>0, <2>1, <2>2, <3>1, <3>2 DEF DayHolds, Lost, counted
    <3>3. CASE dayTotal[d] # 0
      <4>1. dayLost'[d] = dayLost[d] + 1
        BY <3>1, <3>3 DEF Lost
      <4>2. Day[hour'] <= d => dayLost'[d] <= restarts'
        BY <1>0, <2>1, <2>2, <3>1, <4>1 DEF DayHolds
      <4> QED
        BY <1>0, <2>1, <3>1, <4>1, <4>2, DayKeyGone DEF counted
    <3> QED
      BY <3>2, <3>3
  <2>5. ASSUME NEW h \in Hours PROVE HourHolds(h)'
    <3>1. /\ hourCount'[h] = 0 /\ hourLost'[h] = hourLost[h] + Lost(hourCount[h])
          /\ hourLost[h] \in Nat /\ hour' = hour /\ hour \in Nat /\ h \in Nat
      BY <1>0, <2>1, HoursAreNat DEF TypeOK
    <3>2. CASE hourCount[h] = 0
      BY <1>0, <2>1, <2>2, <3>1, <3>2 DEF HourHolds, Lost, counted
    <3>3. CASE hourCount[h] # 0
      <4>1. hourLost'[h] = hourLost[h] + 1
        BY <3>1, <3>3 DEF Lost
      <4>2. hour' <= h => hourLost'[h] <= restarts'
        BY <1>0, <2>1, <2>2, <3>1, <4>1 DEF HourHolds
      <4> QED
        BY <1>0, <2>1, <3>1, <4>1, <4>2, HourKeyGone DEF counted
    <3> QED
      BY <3>2, <3>3
  <2> QED
    BY <1>p, <2>3, <2>4, <2>5
<1>9. CASE UNCHANGED vars
  BY <1>0, <1>9, <1>p DEF vars, keys, handlers, counted, TypeOK, ReadingsArePast, DayHolds,
     HourHolds
<1> QED
  BY <1>1, <1>2, <1>3, <1>4, <1>5, <1>6, <1>7, <1>8, <1>9 DEF Next

\* The inductive invariant holds throughout.
THEOREM Invariance == Spec => []IInv
BY InitInv, StepInv, PTL DEF Spec

\* What can be sent of what the daily limit lets through for a day is at most
\* the limit, once for each life of the day's key, and what non-positive
\* amounts took off it; while the day lasts, a key's life ends only with Redis.
THEOREM DailyLimit == Spec => []DailyMaxHolds
<1>1. IInv => DailyMaxHolds
  BY DEF IInv
<1> QED
  BY Invariance, <1>1, PTL

\* The requests admitted for an hour are at most the limit, once for each life
\* of the hour's key; while the hour lasts, it ends only with Redis.
THEOREM HourlyLimit == Spec => []HourlyMaxHolds
<1>1. IInv => HourlyMaxHolds
  BY DEF IInv
<1> QED
  BY Invariance, <1>1, PTL

-----------------------------------------------------------------------------
(* Where Redis keeps its keys and every net amount is positive.            *)

NothingLowered ==
  /\ \A c \in Calls : at[c] = "day" => amount[c] > 0
  /\ \A d \in Days : lowered[d] = 0

LEMMA LoweredStep ==
  ASSUME \A a \in Received : \A x \in Net(a) : x > 0,
         TypeOK, NothingLowered, [Next]_vars
  PROVE  NothingLowered'
<1>1. ASSUME NEW c \in Calls, NEW a \in Received, NEW x \in Net(a), Begin(c, x)
      PROVE  NothingLowered'
  BY <1>1 DEF Begin, NothingLowered, TypeOK, counted
<1>2. ASSUME NEW c \in Calls, CountDay(c)
      PROVE  NothingLowered'
  <2>1. amount[c] > 0 /\ amount[c] \in Int
    BY <1>2 DEF CountDay, NothingLowered, TypeOK
  <2>2. ~ (amount[c] <= 0)
    BY <2>1
  <2> QED
    BY <1>2, <2>2 DEF CountDay, NothingLowered, TypeOK
<1>3. ASSUME NEW c \in Calls, CountHour(c) \/ Fails(c)
      PROVE  NothingLowered'
  BY <1>3 DEF CountHour, Fails, NothingLowered, TypeOK, counted
<1>4. CASE \/ Tick \/ RedisRestarts \/ UNCHANGED vars
           \/ \E d \in Days : DayKeyExpires(d)
           \/ \E h \in Hours : HourKeyExpires(h)
  BY <1>4 DEF Tick, RedisRestarts, DayKeyExpires, HourKeyExpires, vars, handlers, counted,
     NothingLowered
<1> QED
  BY <1>1, <1>2, <1>3, <1>4 DEF Next

\* In the day and in the hour that it is, no more is let through than the
\* limits say, provided that Redis does not restart and that no escrow is small
\* enough for its fee to leave nothing.
THEOREM LimitsOfTheDay ==
  ASSUME MaxRestarts = 0, \A a \in Received : \A x \in Net(a) : x > 0
  PROVE  Spec => [](passed[Day[hour]] <= DailyMax /\ admitted[hour] <= HourlyMax)
<1> DEFINE Now == passed[Day[hour]] <= DailyMax /\ admitted[hour] <= HourlyMax
<1>1. Init => NothingLowered
  BY DEF Init, NothingLowered
<1>2. IInv /\ NothingLowered /\ [Next]_vars => NothingLowered'
  BY LoweredStep DEF IInv
<1>3. IInv /\ NothingLowered => Now
  <2> SUFFICES ASSUME IInv, NothingLowered PROVE Now
    OBVIOUS
  <2> DEFINE d == Day[hour]
  <2>1. /\ hour \in Hours /\ hour \in Nat /\ restarts = 0
        /\ d \in Days /\ d \in Nat
        /\ dayLost[d] \in Nat /\ hourLost[hour] \in Nat
    <3>1. hour \in Hours /\ restarts \in 0..MaxRestarts
      BY DEF IInv, TypeOK
    <3>2. restarts = 0 /\ d \in Days /\ d \in Nat /\ hour \in Nat
      BY <3>1, DayOfHour, HoursAreNat
    <3> QED
      BY <3>1, <3>2 DEF IInv, TypeOK
  <2>2. dayLost[d] = 0 /\ hourLost[hour] = 0
    BY <2>1 DEF IInv, DailyMaxHolds, HourlyMaxHolds
  <2>3. lowered[d] = 0 /\ (0 + 1) * DailyMax = DailyMax /\ (0 + 1) * HourlyMax = HourlyMax
    BY <2>1, LimitsAssumption DEF NothingLowered
  <2>4. /\ passed[d] <= (dayLost[d] + 1) * DailyMax + lowered[d]
        /\ admitted[hour] <= (hourLost[hour] + 1) * HourlyMax
    BY <2>1 DEF IInv, DailyMaxHolds, HourlyMaxHolds
  <2> HIDE DEF d
  <2>5. passed[d] <= DailyMax /\ admitted[hour] <= HourlyMax
    BY <2>2, <2>3, <2>4, LimitsAssumption
  <2> QED
    BY <2>5 DEF d
<1> HIDE DEF Now
<1>4. Spec => []Now
  BY <1>1, <1>2, <1>3, Invariance, PTL DEF Spec
<1> QED
  BY <1>4 DEF Now
=============================================================================
