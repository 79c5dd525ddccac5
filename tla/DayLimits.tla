------------------------------ MODULE DayLimits ------------------------------
(***************************************************************************)
(* cadbis.PacketsTodayLimits: what a tariff may use today is its share of  *)
(* what is left of the month, by rank and number of users.  The limits are *)
(* computed by the first thread that asks an object for one; there is no   *)
(* lock, and whoever asks meanwhile finds the maps half filled.            *)
(*                                                                         *)
(* The Collector of the proxy makes a new object at every refresh and asks *)
(* it for each request of a client; the RADIUS server makes one when it    *)
(* starts and asks it for each packet.  What users do with the access they *)
(* get, and the clock, are external.                                       *)
(***************************************************************************)
EXTENDS Integers, FiniteSets, Sums

CONSTANTS
  Tariffs,      \* gids of tariffs that have users, in the order of the query
  Threads,      \* connections, or processors of RADIUS
  Objects,      \* bound: objects of PacketsTodayLimits that are in use
  NoObject,
  NoLimit,      \* null
  Settings      \* the configuration, and what may happen

Setting ==
  [owner : {"proxy", "radius"},
   threads : SUBSET Threads,
   days : Nat \ {0},                   \* of a month
   maximum : Nat \cup {NoLimit},       \* max_month_traffic, or no such row
   rang : [Tariffs -> Nat],            \* getSummarRang
   exceed_times : [Tariffs -> Nat],
   piece : Nat,                        \* bound: traffic of a grant
   used : Nat,                         \* bound: traffic of a month
   events : SUBSET {"midnight", "failures", "races"}]

ASSUME LimitsAssumption ==
  /\ NoLimit \notin Int
  /\ NoObject \notin Objects
  /\ Tariffs # {} /\ Tariffs \subseteq Nat
  /\ IsFiniteSet(Tariffs) /\ IsFiniteSet(Threads)
  /\ Objects # {}
  /\ \A x \in Settings : x \in Setting

VARIABLES
  setting,        \* constant in every behaviour
  day,            \* external: the day of the month
  month,          \* traffic of sessions of this month, the table `actions`
  today,          \* of those that have begun today, by tariff
  lastDay,        \* of those of the last day of the month before
  dayTraffics,    \* what the Collector has read of `today` at its refresh
  dayLimits,      \* the object the owner asks
  created,        \* objects whose maps are not null
  packetsCoefs,   \* the tariffs in that map of an object
  dayTrafficLimits,
  usedMonthTraffic, restDaysCount, allowedDayTraffic,
  left,           \* history: what was left of the month when it was made
  pc, tariff, dayTraffic, mine, todo   \* local variables of a thread

dbVars == <<day, month, today, lastDay>>
mapVars == <<created, packetsCoefs, dayTrafficLimits>>
fieldVars == <<usedMonthTraffic, restDaysCount, allowedDayTraffic>>
ownVars == <<dayTraffics, dayLimits, left>>
askVars == <<tariff, dayTraffic, mine>>
vars == <<setting, dbVars, mapVars, fieldVars, ownVars, pc, askVars, todo>>

May(event) == event \in setting.events

Limits == Int \cup {NoLimit}
Empty == [g \in Tariffs |-> NoLimit]
Nothing == [g \in Tariffs |-> 0]
AnyTariff == CHOOSE g \in Tariffs : TRUE

\* Where a thread recalculates, in the order of the code.
Recalculating == {"coefs", "day", "used", "days", "allowed", "rangs", "limits"}
Points ==
  {"idle", "object", "look", "log", "traffic", "get", "granted"} \cup Recalculating

TypeOK ==
  /\ setting \in Settings
  /\ day \in 1..setting.days
  /\ month \in Nat /\ lastDay \in Nat
  /\ today \in [Tariffs -> Nat] /\ dayTraffics \in [Tariffs -> Nat]
  /\ dayLimits \in Objects
  /\ created \in SUBSET Objects
  /\ packetsCoefs \in [Objects -> SUBSET Tariffs]
  /\ dayTrafficLimits \in [Objects -> [Tariffs -> Limits]]
  /\ usedMonthTraffic \in [Objects -> Nat]
  /\ restDaysCount \in [Objects -> Nat]
  /\ allowedDayTraffic \in [Objects -> Int]
  /\ left \in [Objects -> Limits]
  /\ pc \in [Threads -> Points]
  /\ tariff \in [Threads -> Tariffs]
  /\ dayTraffic \in [Threads -> Nat]
  /\ mine \in [Threads -> Objects \cup {NoObject}]
  /\ todo \in [Threads -> SUBSET Tariffs]

-----------------------------------------------------------------------------
(* The arithmetic of recalcTrafficLimits *)

SumOfRangs == Sum(Tariffs, setting.rang)

\* Division of integers in Java, towards zero.
Quotient(n, d) == IF n >= 0 THEN n \div d ELSE -((-n) \div d)

\* Math.round of n * (r / s) in floating point: a half may come out as a little
\* less.  Without any rank the coefficients are NaN, which becomes 0.
Rounded(n, r, s) ==
  IF s = 0 THEN {0}
  ELSE {(2 * n * r + s) \div (2 * s), (2 * n * r + s - 1) \div (2 * s)}

\* Mutant: nothing keeps what may be exceeded within the month.
ExceededFreely(dayLimit, times, rest) == dayLimit * (times + 1)

\* The share of a day, as many times as the tariff may exceed it, and never
\* more than its part of the rest of the month.
Exceeded(dayLimit, times, rest) ==
  IF (times + 1) * dayLimit <= dayLimit * rest THEN dayLimit * (times + 1)
                                               ELSE dayLimit * rest

DayLimit(o, g) ==
  {Exceeded(dayLimit, setting.exceed_times[g], restDaysCount[o]) :
     dayLimit \in Rounded(allowedDayTraffic[o], setting.rang[g], SumOfRangs)}

Init ==
  /\ setting \in Settings
  /\ day = 1 /\ month = 0 /\ lastDay = 0
  /\ today = Nothing /\ dayTraffics = Nothing
  /\ dayLimits = CHOOSE o \in Objects : TRUE
  /\ created = {}
  /\ packetsCoefs = [o \in Objects |-> {}]
  /\ dayTrafficLimits = [o \in Objects |-> Empty]
  /\ usedMonthTraffic = [o \in Objects |-> 0]
  /\ restDaysCount = [o \in Objects |-> 0]
  /\ allowedDayTraffic = [o \in Objects |-> 0]
  /\ left = [o \in Objects |-> setting.maximum]
  /\ pc = [t \in Threads |-> "idle"]
  /\ tariff = [t \in Threads |-> AnyTariff]
  /\ dayTraffic = [t \in Threads |-> 0]
  /\ mine = [t \in Threads |-> NoObject]
  /\ todo = [t \in Threads |-> {}]

-----------------------------------------------------------------------------
(* External: what is used, the clock; and the refresh of the Collector *)

\* A session counts for the day on which it began, and not at all for this
\* month if it began earlier.
Count(g, n) ==
  \/ /\ today' = [today EXCEPT ![g] = @ + n]
     /\ month' = month + n
     /\ UNCHANGED <<day, lastDay>>
  \/ /\ May("midnight")
     /\ \/ month' = month + n /\ UNCHANGED lastDay
        \/ lastDay' = lastDay + n /\ UNCHANGED month
     /\ UNCHANGED <<day, today>>

Use(t) ==
  /\ pc[t] = "granted"
  /\ \E n \in 0..setting.piece :
       /\ month + lastDay + n <= setting.used
       /\ Count(tariff[t], n)
  /\ pc' = [pc EXCEPT ![t] = "idle"]
  /\ tariff' = [tariff EXCEPT ![t] = AnyTariff]
  /\ UNCHANGED <<mapVars, fieldVars, ownVars, dayTraffic, mine, todo>>

\* The history notes the most that was left since an object was made.
NextDay ==
  /\ May("midnight")
  /\ today' = Nothing
  /\ IF day < setting.days
       THEN /\ day' = day + 1
            /\ UNCHANGED <<month, lastDay, left>>
       ELSE /\ day' = 1
            /\ month' = 0
            /\ lastDay' \in 0..month
            /\ left' = [o \in Objects |-> setting.maximum]
  /\ UNCHANGED <<mapVars, fieldVars, dayTraffics, dayLimits, pc, askVars, todo>>

Kept(o) == \E t \in Threads : mine[t] = o

Left == IF setting.maximum = NoLimit THEN NoLimit ELSE setting.maximum - month

\* A new object, and an end to those that nobody refers to.
Forget(f, value) == [o \in Objects |-> IF Kept(o) THEN f[o] ELSE value]

Refresh(o) ==
  /\ setting.owner = "proxy"
  /\ o # dayLimits /\ ~Kept(o)
  /\ dayLimits' = o
  /\ dayTraffics' = today
  /\ left' = Forget(left, Left)
  /\ created' = {x \in created : Kept(x)}
  /\ packetsCoefs' = Forget(packetsCoefs, {})
  /\ dayTrafficLimits' = Forget(dayTrafficLimits, Empty)
  /\ usedMonthTraffic' = Forget(usedMonthTraffic, 0)
  /\ restDaysCount' = Forget(restDaysCount, 0)
  /\ allowedDayTraffic' = Forget(allowedDayTraffic, 0)
  /\ UNCHANGED <<dbVars, pc, askVars, todo>>

-----------------------------------------------------------------------------
(* getPacketDayTrafficLimit *)

Goto(t, point) == pc' = [pc EXCEPT ![t] = point] /\ UNCHANGED <<dbVars, ownVars>>

\* The Collector has the traffic of the day in a table.
Ask(t, g) ==
  /\ pc[t] = "idle" /\ t \in setting.threads
  /\ tariff' = [tariff EXCEPT ![t] = g]
  /\ dayTraffic' = [dayTraffic EXCEPT ![t] = dayTraffics[g]]
  /\ Goto(t, "object")
  /\ UNCHANGED <<mapVars, fieldVars, mine, todo>>

ReadObject(t) ==
  /\ pc[t] = "object"
  /\ mine' = [mine EXCEPT ![t] = dayLimits]
  /\ Goto(t, "look")
  /\ UNCHANGED <<mapVars, fieldVars, tariff, dayTraffic, todo>>

\* RADIUS asks twice, and reads the traffic of the day in between.
Onward == IF setting.owner = "proxy" THEN "get" ELSE "traffic"

Look(t) ==
  /\ pc[t] = "look"
  /\ Goto(t, IF mine[t] \in created THEN Onward ELSE "coefs")
  /\ UNCHANGED <<mapVars, fieldVars, askVars, todo>>

\* The thread returns from the check, with access or without.
Answers(t, granted) ==
  /\ Goto(t, IF granted THEN "granted" ELSE "idle")
  /\ mine' = [mine EXCEPT ![t] = NoObject]
  /\ dayTraffic' = [dayTraffic EXCEPT ![t] = 0]
  /\ tariff' = IF granted THEN tariff ELSE [tariff EXCEPT ![t] = AnyTariff]

\* The exception of a connection ends its thread, and the next one takes the
\* name; RADIUS catches it and grants the access.
Throws(t) ==
  /\ Answers(t, setting.owner = "radius")
  /\ todo' = [todo EXCEPT ![t] = {}]
  /\ UNCHANGED <<mapVars, fieldVars>>

ReadTraffic(t) ==
  /\ pc[t] = "traffic"
  /\ dayTraffic' = [dayTraffic EXCEPT ![t] = today[tariff[t]]]
  /\ Goto(t, "get")
  /\ UNCHANGED <<mapVars, fieldVars, tariff, mine, todo>>

\* Mutant: the limit may be reached, as the other limits may.
GetsLimitInclusive(t) ==
  LET limit == dayTrafficLimits[mine[t]][tariff[t]]
  IN  limit = NoLimit \/ dayTraffic[t] <= limit

GetsLimit(t) ==
  LET limit == dayTrafficLimits[mine[t]][tariff[t]]
  IN  limit = NoLimit \/ dayTraffic[t] < limit

\* Without a limit the proxy does not check, and RADIUS meets an exception.
Get(t) ==
  /\ pc[t] = "get"
  /\ Answers(t, GetsLimit(t))
  /\ UNCHANGED <<mapVars, fieldVars, todo>>

-----------------------------------------------------------------------------
(* recalcTrafficLimits *)

NewCoefs(t) ==
  /\ pc[t] = "coefs"
  /\ packetsCoefs' = [packetsCoefs EXCEPT ![mine[t]] = {}]
  /\ Goto(t, "day")
  /\ UNCHANGED <<created, dayTrafficLimits, fieldVars, askVars, todo>>

\* dayTrafficLimits stands for monthTrafficLimits as well, which is filled along.
NewDayLimits(t) ==
  /\ pc[t] = "day"
  /\ created' = created \cup {mine[t]}
  /\ dayTrafficLimits' = [dayTrafficLimits EXCEPT ![mine[t]] = Empty]
  /\ Goto(t, "used")
  /\ UNCHANGED <<packetsCoefs, fieldVars, askVars, todo>>

\* Mutant: null is taken for a number.
TrafficOfNothingNull == NoLimit

\* getMonthTraffic when the sum is null.
TrafficOfNothing == 0

\* The month is as many times 24 hours as its days are begun, so that a part of
\* the day before counts.
ReadUsed(t) ==
  /\ pc[t] = "used"
  /\ \/ /\ \E n \in {month + more : more \in 0..lastDay}
                  \cup (IF May("failures") THEN {TrafficOfNothing} ELSE {}) :
            usedMonthTraffic' = [usedMonthTraffic EXCEPT ![mine[t]] = n]
        /\ Goto(t, "days")
        /\ UNCHANGED <<mapVars, restDaysCount, allowedDayTraffic, askVars, todo>>
     \/ May("failures") /\ Throws(t)

ReadDays(t) ==
  /\ pc[t] = "days"
  /\ restDaysCount' = [restDaysCount EXCEPT ![mine[t]] = setting.days - day + 1]
  /\ Goto(t, "allowed")
  /\ UNCHANGED <<mapVars, usedMonthTraffic, allowedDayTraffic, askVars, todo>>

\* The fields may be those of another thread by now.
Allow(t) ==
  LET o == mine[t]
  IN  /\ pc[t] = "allowed"
      /\ \/ /\ setting.maximum # NoLimit
            /\ allowedDayTraffic' = [allowedDayTraffic EXCEPT ![o] =
                 Quotient(setting.maximum - usedMonthTraffic[o], restDaysCount[o])]
            /\ todo' = [todo EXCEPT ![t] = Tariffs]
            /\ Goto(t, "rangs")
            /\ UNCHANGED <<mapVars, usedMonthTraffic, restDaysCount, askVars>>
         \/ /\ setting.maximum = NoLimit \/ May("failures")
            /\ Goto(t, Onward)
            /\ UNCHANGED <<mapVars, fieldVars, askVars, todo>>
         \/ May("failures") /\ Throws(t)

\* HashMap: a put that coincides with another one may be lost.
Lost(t) ==
  /\ May("races")
  /\ \E u \in Threads \ {t} :
       mine[u] = mine[t] /\ pc[u] = pc[t]

First(t) == CHOOSE g \in todo[t] : \A h \in todo[t] : g <= h

\* Mutant: the loop ends one tariff too early.
LoopShort(t, point, next) ==
  IF Cardinality(todo[t]) <= 2
    THEN Goto(t, point) /\ todo' = [todo EXCEPT ![t] = next]
    ELSE Goto(t, pc[t]) /\ todo' = [todo EXCEPT ![t] = @ \ {First(t)}]

\* A step of a loop over the tariffs, which goes on at a point when it is over,
\* with what is to do there.
Loop(t, point, next) ==
  IF todo[t] = {First(t)}
    THEN Goto(t, point) /\ todo' = [todo EXCEPT ![t] = next]
    ELSE Goto(t, pc[t]) /\ todo' = [todo EXCEPT ![t] = @ \ {First(t)}]

PutCoef(t) ==
  /\ pc[t] = "rangs"
  /\ \/ packetsCoefs' = [packetsCoefs EXCEPT ![mine[t]] = @ \cup {First(t)}]
     \/ Lost(t) /\ UNCHANGED packetsCoefs
  /\ Loop(t, "limits", Tariffs)
  /\ UNCHANGED <<created, dayTrafficLimits, fieldVars, askVars>>

\* packetsCoefs may be a newer map, without the tariff.
PutLimit(t) ==
  LET o == mine[t]
      g == First(t)
  IN  /\ pc[t] = "limits"
      /\ \/ g \notin packetsCoefs[o] /\ Throws(t)
         \/ /\ g \in packetsCoefs[o]
            /\ \/ \E limit \in DayLimit(o, g) :
                    dayTrafficLimits' = [dayTrafficLimits EXCEPT ![o][g] = limit]
               \/ Lost(t) /\ UNCHANGED dayTrafficLimits
            /\ Loop(t, "log", {})
            /\ UNCHANGED <<created, packetsCoefs, fieldVars, askVars>>

\* What is logged at last unboxes every limit, of a newer map if there is one.
LogLimits(t) ==
  /\ pc[t] = "log"
  /\ \/ /\ NoLimit \notin {dayTrafficLimits[mine[t]][g] : g \in Tariffs}
        /\ Goto(t, Onward)
        /\ UNCHANGED <<mapVars, fieldVars, askVars, todo>>
     \/ /\ NoLimit \in {dayTrafficLimits[mine[t]][g] : g \in Tariffs}
        /\ Throws(t)

Recalculate(t) ==
  \/ NewCoefs(t) \/ NewDayLimits(t) \/ ReadUsed(t) \/ ReadDays(t) \/ Allow(t)
  \/ PutCoef(t) \/ PutLimit(t) \/ LogLimits(t)

Thread(t) ==
  \/ (\E g \in Tariffs : Ask(t, g)) \/ ReadObject(t) \/ Look(t)
  \/ Recalculate(t) \/ ReadTraffic(t) \/ Get(t) \/ Use(t)

Next ==
  /\ \/ \E t \in Threads : Thread(t)
     \/ NextDay
     \/ \E o \in Objects : Refresh(o)
  /\ UNCHANGED setting

Spec == Init /\ [][Next]_vars

-----------------------------------------------------------------------------
(* Properties *)

Busy(o) == \E t \in Threads : mine[t] = o /\ pc[t] \in Recalculating

\* The statements work, and so do the maps, and there is a limit of the month.
Sound == setting.events \subseteq {"midnight"} /\ setting.maximum # NoLimit

\* However many threads compute the limits of an object at once, replace the
\* maps of each other or fail because of it: when the last of them is through,
\* no tariff is without a limit.
LimitsComplete ==
  Sound =>
    \A o \in created : ~Busy(o) =>
      \A g \in Tariffs : dayTrafficLimits[o][g] # NoLimit

Positive(n) == IF n # NoLimit /\ n > 0 THEN n ELSE 0

\* Together the limits of a day never promise more than was left of the month
\* when the object was made, but for what rounding adds, however far a tariff
\* may exceed its share.  (Two threads at the turn of a month can mix up the
\* fields of both.)
LimitsWithinRest ==
  Sound /\ (May("midnight") => Cardinality(setting.threads) = 1) =>
    \A o \in created :
      2 * Sum(Tariffs, [g \in Tariffs |-> Positive(dayTrafficLimits[o][g])])
        <= 2 * Positive(left[o]) + Cardinality(Tariffs) * setting.days

\* Nobody is granted access on account of limits of a month that was used up
\* when they were made; only who asks while they are being computed finds none.
GrantsWithinRest ==
  [][\A t \in Threads :
       Sound /\ pc[t] = "get" /\ pc'[t] = "granted" =>
         Positive(left[mine[t]]) > 0 \/ Busy(mine[t])]_vars

=============================================================================
