-------------------------- MODULE DayLimits_proofs --------------------------
(***************************************************************************)
(* Proofs about DayLimits, for any tariffs, threads, objects and settings. *)
(***************************************************************************)
EXTENDS DayLimits, Sums_proofs

\* Who looks at limits or computes them has an object; its maps, the field that
\* is divided by and the tariffs of a loop are there when they are needed.
PointInv ==
  \A t \in Threads :
    /\ pc[t] \in {"look", "log", "traffic", "get"} \cup Recalculating => mine[t] \in Objects
    /\ pc[t] \in {"used", "days", "allowed", "rangs", "limits", "log", "traffic", "get"}
         => mine[t] \in created
    /\ pc[t] \in {"allowed", "rangs", "limits"} => restDaysCount[mine[t]] # 0
    /\ pc[t] \in {"rangs", "limits"} => todo[t] # {}

\* A thread that will leave every tariff with a coefficient, and one that will
\* leave every tariff with a limit.
GivesCoefs(t) ==
  LET has == packetsCoefs[mine[t]]
  IN  \/ pc[t] \in {"day", "used", "days", "allowed"}
      \/ pc[t] = "rangs" /\ Tariffs \subseteq has \cup todo[t]
      \/ pc[t] = "limits" /\ Tariffs \subseteq has

GivesLimits(t) ==
  \/ pc[t] \in {"day", "used", "days", "allowed", "rangs"}
  \/ /\ pc[t] = "limits"
     /\ \A g \in Tariffs \ todo[t] : dayTrafficLimits[mine[t]][g] # NoLimit

\* The last thread that has replaced the maps of an object completes them.
CompleteInv ==
  Sound =>
    \A o \in created :
      \/ \A g \in Tariffs : dayTrafficLimits[o][g] # NoLimit
      \/ \E t \in Threads : mine[t] = o /\ GivesCoefs(t) /\ GivesLimits(t)

\* What is positive among the results comes from a positive rest of the month.
LeftInv ==
  Sound =>
    /\ \A o \in Objects :
         /\ left[o] \in Int
         /\ setting.maximum - month <= left[o] /\ left[o] <= setting.maximum
         /\ allowedDayTraffic[o] > 0 => left[o] > 0
         /\ \A g \in Tariffs :
              dayTrafficLimits[o][g] # NoLimit /\ dayTrafficLimits[o][g] > 0
                => left[o] > 0
    /\ \A t \in Threads :
         pc[t] \in {"days", "allowed"} =>
           setting.maximum - usedMonthTraffic[mine[t]] <= left[mine[t]]

LimitsInv == TypeOK /\ PointInv /\ CompleteInv /\ LeftInv

-----------------------------------------------------------------------------
(* Arithmetic *)

\* Signs of products.
LEMMA Signs ==
  ASSUME NEW a \in Int, NEW b \in Nat
  PROVE  a * b \in Int /\ (a <= 0 => a * b <= 0)
OBVIOUS

\* What is divided towards zero is positive only if the rest is.
LEMMA QuotientOfRest ==
  ASSUME NEW n \in Int, NEW d \in Nat \ {0}
  PROVE  Quotient(n, d) \in Int /\ (Quotient(n, d) > 0 => n > 0)
<1>1. n >= 0 => n \div d \in Int /\ (n = 0 => n \div d = 0) OBVIOUS
<1>2. n < 0 => (-n) \div d \in Int /\ (-n) \div d >= 0 OBVIOUS
<1> QED BY <1>1, <1>2 DEF Quotient

\* The rounded share of a tariff is positive only if something is allowed.
LEMMA RoundedShare ==
  ASSUME NEW n \in Int, NEW r \in Nat, NEW s \in Nat, NEW x \in Rounded(n, r, s)
  PROVE  x \in Int /\ (x > 0 => n > 0)
<1>1. CASE s = 0 BY <1>1 DEF Rounded
<1>2. CASE s # 0
  <2>1. n * r \in Int /\ (n <= 0 => n * r <= 0) BY Signs
  <2>2. 2 * n * r = 2 * (n * r) OBVIOUS
  <2> DEFINE p == n * r
  <2>3. p \in Int BY <2>1
  <2>4. x \in {(2 * p + s) \div (2 * s), (2 * p + s - 1) \div (2 * s)}
    BY <1>2, <2>2 DEF Rounded
  <2> HIDE DEF p
  <2>5. \A y \in Int, d \in Nat \ {0} : y \div d \in Int /\ (y < d => y \div d <= 0)
    OBVIOUS
  <2>6. /\ 2 * s \in Nat \ {0} /\ 2 * p + s \in Int /\ 2 * p + s - 1 \in Int
        /\ p <= 0 => 2 * p + s < 2 * s /\ 2 * p + s - 1 < 2 * s
    BY <1>2, <2>3
  <2>7. x \in Int /\ (p <= 0 => x <= 0) BY <2>4, <2>5, <2>6
  <2> QED BY <2>1, <2>3, <2>7 DEF p
<1> QED BY <1>1, <1>2

\* So is the share with what may be exceeded.
LEMMA ExceededShare ==
  ASSUME NEW n \in Int, NEW times \in Nat, NEW rest \in Nat
  PROVE  /\ Exceeded(n, times, rest) \in Int
         /\ Exceeded(n, times, rest) > 0 => n > 0
<1>1. times + 1 \in Nat OBVIOUS
<1>2. n * (times + 1) \in Int /\ (n <= 0 => n * (times + 1) <= 0) BY <1>1, Signs
<1>3. n * rest \in Int /\ (n <= 0 => n * rest <= 0) BY Signs
<1> QED BY <1>2, <1>3 DEF Exceeded

\* The ranks of the tariffs add up to a number.
LEMMA RangsAddUp ==
  ASSUME TypeOK
  PROVE  SumOfRangs \in Nat
<1>1. setting.rang \in [Tariffs -> Nat] BY LimitsAssumption DEF TypeOK, Setting
<1> QED BY <1>1, LimitsAssumption, SumNat DEF SumOfRangs

\* The limits that PutLimit may write are numbers, positive only if something
\* is allowed.
LEMMA LimitIsNumber ==
  ASSUME TypeOK, NEW o \in Objects, NEW g \in Tariffs, NEW x \in DayLimit(o, g)
  PROVE  x \in Int /\ x # NoLimit /\ (x > 0 => allowedDayTraffic[o] > 0)
<1>1. /\ setting.rang[g] \in Nat /\ setting.exceed_times[g] \in Nat
      /\ SumOfRangs \in Nat /\ restDaysCount[o] \in Nat
      /\ allowedDayTraffic[o] \in Int
  BY LimitsAssumption, RangsAddUp DEF TypeOK, Setting
<1>2. PICK y \in Rounded(allowedDayTraffic[o], setting.rang[g], SumOfRangs) :
        x = Exceeded(y, setting.exceed_times[g], restDaysCount[o])
  BY DEF DayLimit
<1>3. y \in Int /\ (y > 0 => allowedDayTraffic[o] > 0) BY <1>1, RoundedShare
<1>4. x \in Int /\ (x > 0 => y > 0) BY <1>1, <1>2, <1>3, ExceededShare
<1> QED BY <1>1, <1>3, <1>4, LimitsAssumption

\* The first of the tariffs to do is one of them.
LEMMA FirstIsToDo ==
  ASSUME TypeOK, NEW t \in Threads, todo[t] # {}
  PROVE  First(t) \in todo[t] /\ First(t) \in Tariffs
<1>1. todo[t] \subseteq Tariffs /\ Tariffs \subseteq Nat
  BY LimitsAssumption DEF TypeOK
<1> DEFINE T == todo[t]
<1>2. PICK n \in T : \A m \in T : ~(<<m, n>> \in OpToRel(<, Nat))
  <2>1. T \subseteq Nat /\ T # {} BY <1>1
  <2> HIDE DEF T
  <2> QED BY <2>1, NatLessThanWellFounded, WFMin, Zenon
<1>3. \A m \in T : ~(m < n) BY <1>1, <1>2 DEF OpToRel
<1>4. ASSUME NEW m \in T PROVE n <= m
  <2>1. n \in Nat /\ m \in Nat BY <1>1
  <2>2. ~(m < n) BY <1>3
  <2> QED BY <2>1, <2>2
<1> QED BY <1>1, <1>4 DEF First

-----------------------------------------------------------------------------
(* Types, and where threads are *)

\* The start has all the parts.
LEMMA InitInv ==
  ASSUME Init
  PROVE  LimitsInv
<1> USE DEF Init
<1>1. /\ AnyTariff \in Tariffs /\ (CHOOSE o \in Objects : TRUE) \in Objects
      /\ setting \in Setting
  BY LimitsAssumption DEF AnyTariff
<1>2. TypeOK
  BY <1>1 DEF TypeOK, Nothing, Empty, Limits, Points, Setting
<1>3. PointInv BY DEF PointInv, Recalculating
<1>4. CompleteInv BY DEF CompleteInv
<1>5. LeftInv BY <1>1 DEF LeftInv, Sound, Empty, Setting
<1> QED BY <1>2, <1>3, <1>4, <1>5 DEF LimitsInv

\* The environment and the refresh.
LEMMA WorldType ==
  ASSUME TypeOK, setting' = setting,
         (\E t \in Threads : Use(t)) \/ NextDay \/ (\E o \in Objects : Refresh(o))
  PROVE  TypeOK'
<1> USE DEF TypeOK
<1>0. AnyTariff \in Tariffs /\ setting \in Setting
  BY LimitsAssumption DEF AnyTariff
<1>1. ASSUME NEW t \in Threads, Use(t) PROVE TypeOK'
  <2>1. PICK n \in 0..setting.piece : Count(tariff[t], n) BY <1>1 DEF Use
  <2>2. n \in Nat BY <1>0 DEF Setting
  <2>3. /\ day' \in 1..setting.days /\ month' \in Nat /\ lastDay' \in Nat
        /\ today' \in [Tariffs -> Nat]
    <3>1. tariff[t] \in Tariffs /\ today[tariff[t]] + n \in Nat BY <2>2
    <3>2. month + n \in Nat /\ lastDay + n \in Nat BY <2>2
    <3>3. [today EXCEPT ![tariff[t]] = @ + n] \in [Tariffs -> Nat] BY <3>1
    <3> HIDE DEF TypeOK
    <3>4. TypeOK => day \in 1..setting.days /\ month \in Nat /\ lastDay \in Nat
                    /\ today \in [Tariffs -> Nat]
      BY DEF TypeOK
    <3> QED BY <2>1, <3>2, <3>3, <3>4 DEF Count
  <2> QED BY <1>0, <1>1, <2>3 DEF Use, mapVars, fieldVars, ownVars, Points
<1>2. CASE NextDay
  <2>1. /\ day' \in 1..setting.days /\ month' \in Nat /\ lastDay' \in Nat
        /\ today' \in [Tariffs -> Nat] /\ left' \in [Objects -> Limits]
    BY <1>0, <1>2 DEF NextDay, Nothing, Setting, Limits
  <2> QED BY <1>2, <2>1 DEF NextDay, mapVars, fieldVars, askVars
<1>3. ASSUME NEW o \in Objects, Refresh(o) PROVE TypeOK'
  <2>1. Left \in Limits BY <1>0 DEF Left, Setting, Limits
  <2>2. Empty \in [Tariffs -> Limits] BY DEF Empty, Limits
  <2> QED BY <1>3, <2>1, <2>2 DEF Refresh, Forget, dbVars, askVars
<1> QED BY <1>1, <1>2, <1>3

\* A thread that asks and recalculates.
LEMMA ThreadType ==
  ASSUME TypeOK, PointInv, setting' = setting, NEW t \in Threads, Thread(t), ~Use(t)
  PROVE  TypeOK'
<1> USE DEF TypeOK, dbVars, mapVars, fieldVars, ownVars, askVars, Goto, Points,
            Recalculating
<1>0. AnyTariff \in Tariffs /\ setting \in Setting
  BY LimitsAssumption DEF AnyTariff
<1>1. ASSUME NEW granted \in BOOLEAN, Answers(t, granted), todo' \in [Threads -> SUBSET Tariffs],
             UNCHANGED <<mapVars, fieldVars>>
      PROVE  TypeOK'
  BY <1>0, <1>1 DEF Answers
<1>2. Throws(t) => TypeOK' BY <1>1 DEF Throws
<1>3. ASSUME NEW g \in Tariffs, Ask(t, g) PROVE TypeOK' BY <1>3 DEF Ask
<1>4. CASE ReadObject(t) BY <1>4 DEF ReadObject
<1>5. CASE Look(t) \/ ReadTraffic(t)
  <2>1. today[tariff[t]] \in Nat OBVIOUS
  <2> QED BY <1>5, <2>1 DEF Look, Onward, ReadTraffic
<1>6. CASE Get(t) BY <1>1, <1>6 DEF Get, GetsLimit
<1>7. CASE NewCoefs(t) BY <1>7 DEF NewCoefs
<1>8. CASE NewDayLimits(t)
  <2>1. mine[t] \in Objects BY <1>8 DEF NewDayLimits, PointInv
  <2> QED BY <1>8, <2>1 DEF NewDayLimits, Empty, Limits
<1>9. CASE ReadUsed(t)
  <2>1. \A n \in {month + more : more \in 0..lastDay} \cup {TrafficOfNothing} : n \in Nat
    BY DEF TrafficOfNothing
  <2> QED BY <1>2, <1>9, <2>1 DEF ReadUsed
<1>10. CASE ReadDays(t)
  <2>1. setting.days - day + 1 \in Nat BY <1>0 DEF Setting
  <2> QED BY <1>10, <2>1 DEF ReadDays
<1>11. CASE Allow(t)
  <2>1. /\ mine[t] \in Objects /\ restDaysCount[mine[t]] \in Nat \ {0}
        /\ usedMonthTraffic[mine[t]] \in Nat
    BY <1>11 DEF Allow, PointInv
  <2>2. setting.maximum # NoLimit =>
          Quotient(setting.maximum - usedMonthTraffic[mine[t]], restDaysCount[mine[t]]) \in Int
    BY <1>0, <2>1, QuotientOfRest DEF Setting
  <2>3. CASE Throws(t) BY <1>2, <2>3
  <2>4. CASE UNCHANGED <<mapVars, fieldVars, askVars, todo>> /\ Goto(t, Onward)
    BY <2>4 DEF Onward
  <2>5. CASE /\ setting.maximum # NoLimit
             /\ allowedDayTraffic' = [allowedDayTraffic EXCEPT ![mine[t]] =
                  Quotient(setting.maximum - usedMonthTraffic[mine[t]], restDaysCount[mine[t]])]
             /\ todo' = [todo EXCEPT ![t] = Tariffs]
             /\ Goto(t, "rangs")
             /\ UNCHANGED <<mapVars, usedMonthTraffic, restDaysCount, askVars>>
    <3>1. allowedDayTraffic' \in [Objects -> Int] BY <2>1, <2>2, <2>5
    <3> QED BY <2>5, <3>1
  <2> QED BY <1>11, <2>3, <2>4, <2>5 DEF Allow
<1>12. ASSUME NEW point \in Points, NEW next \in SUBSET Tariffs, Loop(t, point, next)
       PROVE  pc' \in [Threads -> Points] /\ todo' \in [Threads -> SUBSET Tariffs]
  <2>1. todo[t] \ {First(t)} \in SUBSET Tariffs OBVIOUS
  <2>2. CASE todo[t] = {First(t)} BY <1>12, <2>2 DEF Loop
  <2>3. CASE todo[t] # {First(t)} BY <1>12, <2>1, <2>3 DEF Loop
  <2> QED BY <2>2, <2>3
<1>13. CASE PutCoef(t)
  <2>1. First(t) \in Tariffs BY <1>13, FirstIsToDo DEF PutCoef, PointInv
  <2>2. packetsCoefs' \in [Objects -> SUBSET Tariffs] BY <1>13, <2>1 DEF PutCoef
  <2> QED BY <1>12, <1>13, <2>2 DEF PutCoef, Loop
<1>14. CASE PutLimit(t)
  <2>1. First(t) \in Tariffs /\ mine[t] \in Objects
    BY <1>14, FirstIsToDo DEF PutLimit, PointInv
  <2>2. \A x \in DayLimit(mine[t], First(t)) : x \in Limits
    BY <2>1, LimitIsNumber DEF Limits
  <2>3. ASSUME NEW x \in DayLimit(mine[t], First(t)),
               dayTrafficLimits' = [dayTrafficLimits EXCEPT ![mine[t]][First(t)] = x]
        PROVE  dayTrafficLimits' \in [Objects -> [Tariffs -> Limits]]
    BY <2>1, <2>2, <2>3
  <2> QED BY <1>2, <1>12, <1>14, <2>3 DEF PutLimit, Loop
<1>15. CASE LogLimits(t) BY <1>2, <1>15 DEF LogLimits, Onward
<1> QED
  BY <1>3, <1>4, <1>5, <1>6, <1>7, <1>8, <1>9, <1>10, <1>11, <1>13, <1>14, <1>15
     DEF Thread, Recalculate

\* What a thread changes of its own, and what it leaves to the others.
LEMMA Answered ==
  ASSUME TypeOK, NEW t \in Threads, NEW granted \in BOOLEAN, Answers(t, granted)
  PROVE  /\ pc'[t] \in {"idle", "granted"}
         /\ \A u \in Threads \ {t} : pc'[u] = pc[u] /\ mine'[u] = mine[u]
BY DEF TypeOK, Answers, Goto

\* A step of a loop does one tariff, and after the last goes on.
LEMMA Looped ==
  ASSUME TypeOK, NEW t \in Threads, todo[t] # {}, NEW point, NEW next \in SUBSET Tariffs,
         Loop(t, point, next), UNCHANGED mine
  PROVE  /\ \/ pc'[t] = point /\ todo'[t] = next /\ todo[t] = {First(t)}
            \/ pc'[t] = pc[t] /\ todo'[t] = todo[t] \ {First(t)} /\ todo'[t] # {}
         /\ \A u \in Threads \ {t} :
              pc'[u] = pc[u] /\ mine'[u] = mine[u] /\ todo'[u] = todo[u]
         /\ mine' = mine
<1>1. CASE todo[t] = {First(t)} BY <1>1 DEF TypeOK, Loop, Goto
<1>2. CASE todo[t] # {First(t)}
  <2>1. todo[t] \ {First(t)} # {} BY <1>2
  <2> QED BY <1>2, <2>1 DEF TypeOK, Loop, Goto
<1> QED BY <1>1, <1>2

\* The environment and the refresh keep PointInv: what a thread holds is kept.
LEMMA WorldPoint ==
  ASSUME TypeOK, PointInv,
         (\E t \in Threads : Use(t)) \/ NextDay \/ (\E o \in Objects : Refresh(o))
  PROVE  PointInv'
<1>1. ASSUME NEW t \in Threads, Use(t) PROVE PointInv'
  BY <1>1 DEF TypeOK, PointInv, Use, mapVars, fieldVars, Recalculating
<1>2. CASE NextDay
  BY <1>2 DEF TypeOK, PointInv, NextDay, mapVars, fieldVars, askVars
<1>3. ASSUME NEW o \in Objects, Refresh(o) PROVE PointInv'
  <2>1. \A u \in Threads : mine[u] \in Objects => restDaysCount'[mine[u]] = restDaysCount[mine[u]]
    BY <1>3 DEF Refresh, Forget, Kept
  <2>2. /\ pc' = pc /\ mine' = mine /\ todo' = todo
        /\ \A u \in Threads : mine[u] \in created => mine[u] \in created'
    BY <1>3 DEF Refresh, askVars, Kept
  <2> QED BY <2>1, <2>2 DEF PointInv, Recalculating
<1> QED BY <1>1, <1>2, <1>3

\* So do the steps of a thread.
LEMMA ThreadPoint ==
  ASSUME TypeOK, PointInv, setting' = setting, NEW t \in Threads, Thread(t), ~Use(t)
  PROVE  PointInv'
<1>t. /\ pc \in [Threads -> Points] /\ mine \in [Threads -> Objects \cup {NoObject}]
      /\ todo \in [Threads -> SUBSET Tariffs] /\ restDaysCount \in [Objects -> Nat]
      /\ dayLimits \in Objects /\ created \in SUBSET Objects
  BY DEF TypeOK
<1>0. ASSUME NEW granted \in BOOLEAN, Answers(t, granted),
             todo' = [todo EXCEPT ![t] = {}] \/ todo' = todo, UNCHANGED <<mapVars, fieldVars>>
      PROVE  PointInv'
  BY <1>0, <1>t, Answered DEF PointInv, Recalculating, mapVars, fieldVars
<1>1. Throws(t) => PointInv' BY <1>0 DEF Throws
<1>2. ASSUME \/ \E g \in Tariffs : Ask(t, g)
             \/ ReadObject(t) \/ Look(t) \/ ReadTraffic(t)
             \/ NewCoefs(t) \/ NewDayLimits(t)
      PROVE  PointInv'
  BY <1>2, <1>t DEF PointInv, Ask, ReadObject, Look, Onward, ReadTraffic, NewCoefs, NewDayLimits, Goto,
                    mapVars, fieldVars, askVars, Recalculating
<1>3. CASE Get(t) BY <1>0, <1>3 DEF Get, GetsLimit
<1>4. CASE ReadUsed(t)
  BY <1>1, <1>4, <1>t DEF PointInv, ReadUsed, Goto, mapVars, askVars, Recalculating
<1>5. CASE ReadDays(t)
  <2>1. setting.days - day + 1 # 0 /\ mine[t] \in Objects
    BY <1>5, LimitsAssumption DEF TypeOK, Setting, PointInv, ReadDays, Recalculating
  <2> QED BY <1>5, <1>t, <2>1 DEF PointInv, ReadDays, Goto, mapVars, askVars, Recalculating
<1>6. CASE Allow(t)
  BY <1>1, <1>6, <1>t, LimitsAssumption
     DEF PointInv, Allow, Onward, Goto, askVars, mapVars, fieldVars, Recalculating
<1>7. ASSUME NEW point \in {"limits", "log"}, NEW next \in SUBSET Tariffs,
             Loop(t, point, next), pc[t] \in {"rangs", "limits"},
             point = "limits" => next # {}, UNCHANGED <<created, askVars, fieldVars>>
      PROVE  PointInv'
  <2>1. todo[t] # {} BY <1>7 DEF PointInv
  <2> QED BY <1>7, <2>1, Looped DEF PointInv, askVars, fieldVars, Recalculating
<1>8. CASE PutCoef(t)
  BY <1>7, <1>8, LimitsAssumption DEF PutCoef
<1>9. CASE PutLimit(t)
  BY <1>1, <1>7, <1>9 DEF PutLimit
<1>10. CASE LogLimits(t)
  BY <1>1, <1>10, <1>t
     DEF PointInv, LogLimits, Onward, Goto, askVars, mapVars, fieldVars, Recalculating
<1> QED
  BY <1>2, <1>3, <1>4, <1>5, <1>6, <1>8, <1>9, <1>10 DEF Thread, Recalculate

-----------------------------------------------------------------------------
(* The last thread completes the limits *)

Completes(t, o) == mine[t] = o /\ GivesCoefs(t) /\ GivesLimits(t)
Complete(o) == \A g \in Tariffs : dayTrafficLimits[o][g] # NoLimit

\* The maps of an object are not emptied.
Grows(o) ==
  /\ packetsCoefs[o] \subseteq packetsCoefs'[o]
  /\ \A g \in Tariffs :
       dayTrafficLimits[o][g] # NoLimit => dayTrafficLimits'[o][g] # NoLimit

\* What the others put does not hinder a thread.
LEMMA OthersHelp ==
  ASSUME NEW o, NEW t, Completes(t, o), Grows(o),
         pc'[t] = pc[t], mine'[t] = mine[t], todo'[t] = todo[t]
  PROVE  Completes(t, o)'
BY DEF Completes, GivesCoefs, GivesLimits, Grows

\* The environment and the refresh do not end anyone's completing.
LEMMA WorldComplete ==
  ASSUME TypeOK, CompleteInv, setting' = setting,
         (\E t \in Threads : Use(t)) \/ NextDay \/ (\E o \in Objects : Refresh(o))
  PROVE  CompleteInv'
<1> SUFFICES ASSUME Sound', NEW o \in created'
             PROVE  Complete(o)' \/ \E t \in Threads : Completes(t, o)'
  BY DEF CompleteInv, Complete, Completes
<1>1. Sound BY DEF Sound
<1>2. /\ created' \subseteq created
      /\ o \in created' => Grows(o)
      /\ mine' = mine /\ todo' = todo
      /\ \A u \in Threads : pc'[u] # pc[u] => pc[u] = "granted"
  <2>1. ASSUME NEW t \in Threads, Use(t)
        PROVE  /\ created' = created /\ Grows(o) /\ mine' = mine /\ todo' = todo
               /\ \A u \in Threads : pc'[u] # pc[u] => pc[u] = "granted"
    BY <2>1 DEF TypeOK, Use, mapVars, Grows
  <2>2. CASE NextDay
    BY <2>2 DEF NextDay, mapVars, askVars, Grows
  <2>3. ASSUME NEW x \in Objects, Refresh(x)
        PROVE  /\ created' \subseteq created /\ (o \in created' => Grows(o))
               /\ mine' = mine /\ todo' = todo /\ pc' = pc
    <3>1. created' = {y \in created : Kept(y)} BY <2>3 DEF Refresh
    <3>2. Kept(o) /\ o \in Objects BY <3>1 DEF TypeOK
    <3> QED BY <2>3, <3>1, <3>2 DEF Refresh, Forget, askVars, Grows
  <2> QED BY <2>1, <2>2, <2>3
<1>3. CASE Complete(o)
  BY <1>2, <1>3 DEF Complete, Grows
<1>4. ASSUME NEW t \in Threads, Completes(t, o) PROVE Completes(t, o)'
  <2>1. pc[t] # "granted" BY <1>4 DEF Completes, GivesLimits
  <2> QED BY <1>2, <1>4, <2>1, OthersHelp
<1> QED BY <1>1, <1>2, <1>3, <1>4 DEF CompleteInv, Complete, Completes

\* A thread that empties a map will complete both; one that fails had not been
\* the one to complete them.
LEMMA ThreadComplete ==
  ASSUME TypeOK, PointInv, CompleteInv, setting' = setting,
         NEW t \in Threads, Thread(t), ~Use(t)
  PROVE  CompleteInv'
<1> SUFFICES ASSUME Sound', NEW o \in created'
             PROVE  Complete(o)' \/ \E u \in Threads : Completes(u, o)'
  BY DEF CompleteInv, Complete, Completes
<1>s. /\ Sound /\ setting.maximum # NoLimit
      /\ ~May("failures") /\ ~May("races")
  BY DEF Sound, May
<1>t. /\ pc \in [Threads -> Points] /\ mine \in [Threads -> Objects \cup {NoObject}]
      /\ todo \in [Threads -> SUBSET Tariffs] /\ created \in SUBSET Objects
      /\ packetsCoefs \in [Objects -> SUBSET Tariffs]
      /\ dayTrafficLimits \in [Objects -> [Tariffs -> Limits]]
  BY DEF TypeOK
\* A step that empties nothing, of a thread that goes on completing what it was
\* about to complete.
<1>0. ASSUME o \in created, Grows(o),
             \A u \in Threads \ {t} :
               pc'[u] = pc[u] /\ mine'[u] = mine[u] /\ todo'[u] = todo[u],
             Completes(t, o) => Complete(o)' \/ Completes(t, o)'
      PROVE  Complete(o)' \/ \E u \in Threads : Completes(u, o)'
  <2>1. CASE Complete(o) BY <1>0, <2>1 DEF Complete, Grows
  <2>2. ASSUME NEW u \in Threads \ {t}, Completes(u, o) PROVE Completes(u, o)'
    BY <1>0, <2>2, OthersHelp
  <2> QED BY <1>0, <1>s, <2>1, <2>2 DEF CompleteInv, Complete, Completes
<1>1. ASSUME NEW granted \in BOOLEAN, Answers(t, granted), ~Completes(t, o),
             todo' = [todo EXCEPT ![t] = {}] \/ todo' = todo, UNCHANGED mapVars
      PROVE  Complete(o)' \/ \E u \in Threads : Completes(u, o)'
  <2>1. o \in created /\ Grows(o) BY <1>1 DEF mapVars, Grows
  <2> QED BY <1>0, <1>1, <1>t, <2>1, Answered
<1>2. CASE (\E g \in Tariffs : Ask(t, g)) \/ ReadObject(t) \/ Look(t) \/ ReadTraffic(t)
  <2>1. /\ UNCHANGED <<mapVars, todo>> /\ pc[t] \in {"idle", "object", "look", "traffic"}
        /\ \A u \in Threads \ {t} : pc'[u] = pc[u] /\ mine'[u] = mine[u]
    BY <1>2, <1>t DEF Ask, ReadObject, Look, ReadTraffic, Goto, askVars
  <2>2. ~Completes(t, o) BY <2>1 DEF Completes, GivesLimits
  <2> QED BY <1>0, <2>1, <2>2 DEF mapVars, Grows
<1>3. CASE Get(t)
  <2>1. ~Completes(t, o) BY <1>3 DEF Get, Completes, GivesLimits
  <2> QED BY <1>1, <1>3, <2>1 DEF Get, GetsLimit
<1>4. CASE NewCoefs(t) \/ NewDayLimits(t)
  <2>1. /\ mine' = mine /\ todo' = todo /\ pc'[t] \in {"day", "used"}
        /\ \A u \in Threads \ {t} : pc'[u] = pc[u]
    BY <1>4, <1>t DEF NewCoefs, NewDayLimits, Goto, askVars
  <2>2. CASE mine[t] = o
    BY <2>1, <2>2 DEF Completes, GivesCoefs, GivesLimits
  <2>3. CASE mine[t] # o
    <3>1. o \in created BY <1>4, <2>3 DEF NewCoefs, NewDayLimits
    <3>2. Grows(o)
      BY <1>4, <1>t, <2>3, <3>1 DEF NewCoefs, NewDayLimits, Grows
    <3> QED BY <1>0, <2>1, <2>3, <3>1, <3>2 DEF Completes
  <2> QED BY <2>2, <2>3
<1>5. CASE ReadUsed(t) \/ ReadDays(t) \/ Allow(t)
  <2>1. /\ UNCHANGED mapVars /\ mine' = mine
        /\ \A u \in Threads \ {t} : pc'[u] = pc[u] /\ todo'[u] = todo[u]
        /\ \/ pc'[t] \in {"days", "allowed"}
           \/ pc'[t] = "rangs" /\ todo'[t] = Tariffs
    BY <1>5, <1>s, <1>t DEF ReadUsed, ReadDays, Allow, Goto, askVars, mapVars
  <2>2. o \in created /\ Grows(o) BY <2>1 DEF mapVars, Grows
  <2>3. Completes(t, o) => Completes(t, o)'
    BY <2>1 DEF Completes, GivesCoefs, GivesLimits
  <2> QED BY <1>0, <2>1, <2>2, <2>3
<1>6. CASE PutCoef(t)
  <2>1. /\ todo[t] # {} /\ mine[t] \in Objects /\ pc[t] = "rangs"
    BY <1>6 DEF PutCoef, PointInv, Recalculating
  <2>2. /\ packetsCoefs' = [packetsCoefs EXCEPT ![mine[t]] = @ \cup {First(t)}]
        /\ dayTrafficLimits' = dayTrafficLimits /\ created' = created /\ mine' = mine
        /\ Loop(t, "limits", Tariffs)
    BY <1>6, <1>s DEF PutCoef, Lost, askVars
  <2>3. o \in created /\ Grows(o) BY <1>t, <2>2 DEF Grows
  <2>4. Completes(t, o) => Completes(t, o)'
    <3>1. packetsCoefs'[mine[t]] = packetsCoefs[mine[t]] \cup {First(t)}
      BY <1>t, <2>1, <2>2
    <3>2. CASE pc'[t] = "limits" /\ todo'[t] = Tariffs /\ todo[t] = {First(t)}
      BY <2>1, <2>2, <3>1, <3>2 DEF Completes, GivesCoefs, GivesLimits
    <3>3. CASE pc'[t] = pc[t] /\ todo'[t] = todo[t] \ {First(t)}
      BY <2>1, <2>2, <3>1, <3>3 DEF Completes, GivesCoefs, GivesLimits
    <3> QED BY <2>1, <2>2, <3>2, <3>3, Looped
  <2> QED BY <1>0, <2>1, <2>2, <2>3, <2>4, Looped
<1>7. CASE PutLimit(t)
  <2>1. /\ todo[t] # {} /\ mine[t] \in Objects /\ pc[t] = "limits"
    BY <1>7 DEF PutLimit, PointInv, Recalculating
  <2>2. First(t) \in Tariffs BY <2>1, FirstIsToDo
  <2>3. CASE First(t) \notin packetsCoefs[mine[t]] /\ Throws(t)
    <3>1. ~Completes(t, o) BY <2>1, <2>2, <2>3 DEF Completes, GivesCoefs
    <3> QED BY <1>1, <2>3, <3>1 DEF Throws, Answers
  <2>4. ASSUME NEW x \in DayLimit(mine[t], First(t)),
               dayTrafficLimits' = [dayTrafficLimits EXCEPT ![mine[t]][First(t)] = x],
               Loop(t, "log", {}), UNCHANGED <<created, packetsCoefs, fieldVars, askVars>>
        PROVE  Complete(o)' \/ \E u \in Threads : Completes(u, o)'
    <3>1. x # NoLimit BY <2>1, <2>2, LimitIsNumber
    <3>2. /\ dayTrafficLimits'[mine[t]][First(t)] = x
          /\ \A y \in Objects, g \in Tariffs :
               y # mine[t] \/ g # First(t)
                 => dayTrafficLimits'[y][g] = dayTrafficLimits[y][g]
      BY <1>t, <2>1, <2>2, <2>4
    <3>3. o \in created /\ Grows(o) /\ o \in Objects
      BY <1>t, <2>4, <3>1, <3>2 DEF Grows
    <3>4. mine' = mine BY <2>4 DEF askVars
    <3>5. Completes(t, o) => Complete(o)' \/ Completes(t, o)'
      <4> SUFFICES ASSUME Completes(t, o) PROVE Complete(o)' \/ Completes(t, o)'
        OBVIOUS
      <4>1. /\ mine[t] = o /\ Tariffs \subseteq packetsCoefs[o]
            /\ \A g \in Tariffs \ todo[t] : dayTrafficLimits[o][g] # NoLimit
        BY <2>1 DEF Completes, GivesCoefs, GivesLimits
      <4>2. CASE pc'[t] = "log" /\ todo[t] = {First(t)}
        BY <3>1, <3>2, <3>3, <4>1, <4>2 DEF Complete
      <4>3. CASE pc'[t] = pc[t] /\ todo'[t] = todo[t] \ {First(t)}
        BY <2>1, <2>4, <3>1, <3>2, <3>3, <3>4, <4>1, <4>3
           DEF Completes, GivesCoefs, GivesLimits
      <4> QED BY <2>1, <2>4, <3>4, <4>2, <4>3, Looped
    <3> QED BY <1>0, <2>1, <2>4, <3>3, <3>4, <3>5, Looped
  <2> QED BY <1>7, <1>s, <2>3, <2>4 DEF PutLimit, Lost
<1>8. CASE LogLimits(t)
  <2>1. ~Completes(t, o) BY <1>8 DEF LogLimits, Completes, GivesLimits
  <2>2. CASE Throws(t) BY <1>1, <2>1, <2>2 DEF Throws
  <2>3. CASE UNCHANGED <<mapVars, fieldVars, askVars, todo>> /\ Goto(t, Onward)
    <3>1. o \in created /\ Grows(o) BY <2>3 DEF mapVars, Grows
    <3> QED BY <1>0, <1>t, <2>1, <2>3, <3>1 DEF Goto, askVars
  <2> QED BY <1>8, <2>2, <2>3 DEF LogLimits
<1> QED
  BY <1>2, <1>3, <1>4, <1>5, <1>6, <1>7, <1>8 DEF Thread, Recalculate

-----------------------------------------------------------------------------
(* Nothing is promised of a month that was used up *)

\* The parts of LeftInv.
ObjectLeft(o) ==
  /\ left[o] \in Int
  /\ setting.maximum - month <= left[o] /\ left[o] <= setting.maximum
  /\ allowedDayTraffic[o] > 0 => left[o] > 0
  /\ \A g \in Tariffs :
       dayTrafficLimits[o][g] # NoLimit /\ dayTrafficLimits[o][g] > 0 => left[o] > 0

ThreadLeft(t) ==
  pc[t] \in {"days", "allowed"} =>
    setting.maximum - usedMonthTraffic[mine[t]] <= left[mine[t]]

\* The environment and the refresh keep it.
LEMMA WorldKeepsLeft ==
  ASSUME TypeOK, TypeOK', PointInv, LeftInv, setting' = setting,
         (\E t \in Threads : Use(t)) \/ NextDay \/ (\E o \in Objects : Refresh(o))
  PROVE  LeftInv'
<1> SUFFICES ASSUME Sound
             PROVE  (\A o \in Objects : ObjectLeft(o)') /\ (\A t \in Threads : ThreadLeft(t)')
  BY DEF LeftInv, ObjectLeft, ThreadLeft, Sound
<1>1. /\ setting \in Setting /\ setting.maximum \in Nat /\ month \in Nat
      /\ allowedDayTraffic \in [Objects -> Int] /\ usedMonthTraffic \in [Objects -> Nat]
  BY LimitsAssumption DEF TypeOK, Sound, Setting
<1>2. /\ \A o \in Objects : ObjectLeft(o)
      /\ \A t \in Threads : ThreadLeft(t)
      /\ \A t \in Threads : pc[t] \in {"days", "allowed"} => mine[t] \in Objects
  BY DEF LeftInv, ObjectLeft, ThreadLeft, PointInv, Recalculating
<1>3. ASSUME NEW t \in Threads, Use(t)
      PROVE  (\A o \in Objects : ObjectLeft(o)') /\ (\A u \in Threads : ThreadLeft(u)')
  <2>1. PICK n \in 0..setting.piece : Count(tariff[t], n) BY <1>3 DEF Use
  <2>2. month' \in Nat /\ month' >= month
    BY <1>1, <2>1 DEF Count, Setting
  <2>3. UNCHANGED <<mapVars, fieldVars, ownVars, mine>> BY <1>3 DEF Use
  <2>4. \A u \in Threads : pc'[u] = pc[u] \/ pc'[u] = "idle"
    BY <1>3 DEF Use, TypeOK
  <2>5. ASSUME NEW o \in Objects PROVE ObjectLeft(o)'
    <3>1. left[o] \in Int /\ setting.maximum - month' <= left[o]
      BY <1>1, <1>2, <2>2 DEF ObjectLeft
    <3> QED BY <1>2, <2>3, <3>1 DEF ObjectLeft, mapVars, fieldVars, ownVars
  <2>6. \A u \in Threads : ThreadLeft(u)'
    BY <1>2, <2>3, <2>4 DEF ThreadLeft, fieldVars, ownVars
  <2> QED BY <2>5, <2>6
<1>4. CASE NextDay
  <2>1. UNCHANGED <<mapVars, fieldVars, dayLimits, pc, mine>>
    BY <1>4 DEF NextDay, askVars
  <2>2. CASE month' = month /\ left' = left
    BY <1>2, <2>1, <2>2 DEF ObjectLeft, ThreadLeft, mapVars, fieldVars
  <2>3. CASE month' = 0 /\ left' = [o \in Objects |-> setting.maximum]
    <3>1. ASSUME NEW o \in Objects PROVE ObjectLeft(o)'
      <4>1. left[o] > 0 => setting.maximum > 0 BY <1>1, <1>2 DEF ObjectLeft
      <4> QED BY <1>1, <1>2, <2>1, <2>3, <4>1 DEF ObjectLeft, mapVars, fieldVars
    <3>2. \A t \in Threads : ThreadLeft(t)'
      BY <1>1, <1>2, <2>1, <2>3 DEF ThreadLeft, fieldVars
    <3> QED BY <3>1, <3>2
  <2> QED BY <1>4, <2>2, <2>3 DEF NextDay
<1>5. ASSUME NEW x \in Objects, Refresh(x)
      PROVE  (\A o \in Objects : ObjectLeft(o)') /\ (\A t \in Threads : ThreadLeft(t)')
  <2>1. month' = month /\ pc' = pc /\ mine' = mine
    BY <1>5 DEF Refresh, dbVars, askVars
  <2>2. ASSUME NEW o \in Objects PROVE ObjectLeft(o)'
    <3>1. CASE Kept(o)
      BY <1>2, <1>5, <2>1, <3>1 DEF Refresh, Forget, ObjectLeft
    <3>2. CASE ~Kept(o)
      <4>1. left'[o] = setting.maximum - month
        BY <1>5, <1>1, <3>2, LimitsAssumption DEF Refresh, Forget, Left
      <4>2. allowedDayTraffic'[o] = 0 /\ dayTrafficLimits'[o] = Empty
        BY <1>5, <3>2 DEF Refresh, Forget
      <4> QED BY <1>1, <2>1, <4>1, <4>2 DEF ObjectLeft, Empty
    <3> QED BY <3>1, <3>2
  <2>3. \A t \in Threads : ThreadLeft(t)'
    BY <1>2, <1>5, <2>1 DEF ThreadLeft, Refresh, Forget, Kept
  <2> QED BY <2>2, <2>3
<1> QED BY <1>3, <1>4, <1>5

\* So do the steps of a thread that asks and recalculates.
LEMMA ThreadKeepsLeft ==
  ASSUME TypeOK, PointInv, LeftInv, setting' = setting,
         NEW t \in Threads, Thread(t), ~Use(t)
  PROVE  LeftInv'
<1> SUFFICES ASSUME Sound
             PROVE  (\A o \in Objects : ObjectLeft(o)') /\ (\A u \in Threads : ThreadLeft(u)')
  BY DEF LeftInv, ObjectLeft, ThreadLeft, Sound
<1>1. /\ setting \in Setting /\ setting.maximum \in Nat /\ ~May("failures")
      /\ setting.maximum # NoLimit /\ month \in Nat /\ lastDay \in Nat
      /\ allowedDayTraffic \in [Objects -> Int] /\ usedMonthTraffic \in [Objects -> Nat]
      /\ restDaysCount \in [Objects -> Nat] /\ pc \in [Threads -> Points]
      /\ mine \in [Threads -> Objects \cup {NoObject}]
      /\ dayTrafficLimits \in [Objects -> [Tariffs -> Limits]]
  BY LimitsAssumption DEF TypeOK, Sound, Setting, May
<1>2. /\ \A o \in Objects : ObjectLeft(o)
      /\ \A u \in Threads : ThreadLeft(u)
      /\ \A u \in Threads : pc[u] \in {"days", "allowed"} => mine[u] \in Objects
  BY DEF LeftInv, ObjectLeft, ThreadLeft, PointInv, Recalculating
\* A step that writes neither the numbers of LeftInv nor begins to use them.
<1>3. ASSUME UNCHANGED <<month, left, usedMonthTraffic, allowedDayTraffic>>,
             \A o \in Objects, g \in Tariffs :
               \/ dayTrafficLimits'[o][g] = dayTrafficLimits[o][g]
               \/ dayTrafficLimits'[o][g] = NoLimit,
             \A u \in Threads :
               pc'[u] \in {"days", "allowed"} =>
                 pc[u] \in {"days", "allowed"} /\ mine'[u] = mine[u]
      PROVE  (\A o \in Objects : ObjectLeft(o)') /\ (\A u \in Threads : ThreadLeft(u)')
  BY <1>2, <1>3 DEF ObjectLeft, ThreadLeft
<1>4. ASSUME NEW granted \in BOOLEAN, Answers(t, granted), UNCHANGED <<mapVars, fieldVars>>
      PROVE  (\A o \in Objects : ObjectLeft(o)') /\ (\A u \in Threads : ThreadLeft(u)')
  BY <1>1, <1>3, <1>4 DEF Answers, Goto, dbVars, ownVars, mapVars, fieldVars
<1>5. CASE (\E g \in Tariffs : Ask(t, g)) \/ ReadObject(t) \/ Look(t) \/ ReadTraffic(t) \/ NewCoefs(t)
  BY <1>1, <1>3, <1>5
     DEF Ask, ReadObject, Look, Onward, ReadTraffic, NewCoefs, Goto, dbVars, ownVars, mapVars, fieldVars, askVars
<1>6. CASE NewDayLimits(t)
  <2>1. \A o \in Objects, g \in Tariffs :
          \/ dayTrafficLimits'[o][g] = dayTrafficLimits[o][g]
          \/ dayTrafficLimits'[o][g] = NoLimit
    BY <1>1, <1>6 DEF NewDayLimits, Empty
  <2> QED BY <1>1, <1>3, <1>6, <2>1
             DEF NewDayLimits, Goto, dbVars, ownVars, fieldVars, askVars
<1>7. CASE Get(t) BY <1>4, <1>7 DEF Get, GetsLimit
<1>8. CASE ReadUsed(t)
  <2>1. PICK n \in {month + more : more \in 0..lastDay} :
          usedMonthTraffic' = [usedMonthTraffic EXCEPT ![mine[t]] = n]
    BY <1>1, <1>8 DEF ReadUsed
  <2>2. n \in Nat /\ n >= month BY <1>1
  <2>3. /\ UNCHANGED <<month, left, mapVars, allowedDayTraffic, mine>>
        /\ pc' = [pc EXCEPT ![t] = "days"]
    BY <1>1, <1>8 DEF ReadUsed, Goto, dbVars, ownVars, askVars
  <2>4. \A o \in Objects : ObjectLeft(o)'
    BY <1>2, <2>3 DEF ObjectLeft, mapVars
  <2>5. mine[t] \in Objects BY <1>8 DEF ReadUsed, PointInv, Recalculating
  <2>6. ASSUME NEW u \in Threads PROVE ThreadLeft(u)'
    <3>1. CASE mine[u] = mine[t]
      <4>1. usedMonthTraffic'[mine[u]] = n BY <1>1, <2>1, <2>5, <3>1
      <4>2. setting.maximum - n <= left[mine[t]]
        BY <1>1, <1>2, <2>2, <2>5 DEF ObjectLeft
      <4> QED BY <2>3, <3>1, <4>1, <4>2 DEF ThreadLeft
    <3>2. CASE mine[u] # mine[t]
      <4>1. u # t /\ pc'[u] = pc[u] BY <1>1, <2>3, <3>2
      <4>2. usedMonthTraffic'[mine[u]] = usedMonthTraffic[mine[u]] \/ mine[u] \notin Objects
        BY <1>1, <2>1, <3>2
      <4> QED BY <1>2, <2>3, <4>1, <4>2 DEF ThreadLeft
    <3> QED BY <3>1, <3>2
  <2> QED BY <2>4, <2>6
<1>9. CASE ReadDays(t)
  BY <1>1, <1>3, <1>9 DEF ReadDays, Goto, dbVars, ownVars, mapVars, askVars
<1>10. CASE Allow(t)
  <2> DEFINE o == mine[t]
             allowed == Quotient(setting.maximum - usedMonthTraffic[o], restDaysCount[o])
  <2>1. /\ allowedDayTraffic' = [allowedDayTraffic EXCEPT ![o] = allowed]
        /\ UNCHANGED <<month, left, mapVars, usedMonthTraffic, mine>>
        /\ pc' = [pc EXCEPT ![t] = "rangs"] /\ pc[t] = "allowed"
    BY <1>1, <1>10 DEF Allow, Goto, dbVars, ownVars, askVars
  <2>2. o \in Objects /\ restDaysCount[o] \in Nat \ {0}
    BY <1>1, <1>2, <2>1 DEF PointInv
  <2>3. allowed > 0 => left[o] > 0
    <3>1. /\ setting.maximum - usedMonthTraffic[o] \in Int /\ left[o] \in Int
          /\ setting.maximum - usedMonthTraffic[o] <= left[o]
      BY <1>1, <1>2, <2>1, <2>2 DEF ObjectLeft, ThreadLeft
    <3>2. allowed \in Int /\ (allowed > 0 => setting.maximum - usedMonthTraffic[o] > 0)
      BY <2>2, <3>1, QuotientOfRest
    <3> QED BY <3>1, <3>2
  <2> HIDE DEF allowed
  <2>4. ASSUME NEW x \in Objects PROVE ObjectLeft(x)'
    <3>1. allowedDayTraffic'[x] = IF x = o THEN allowed ELSE allowedDayTraffic[x]
      BY <1>1, <2>1
    <3> QED BY <1>2, <2>1, <2>3, <3>1 DEF ObjectLeft, mapVars
  <2>5. \A u \in Threads : ThreadLeft(u)'
    BY <1>1, <1>2, <2>1 DEF ThreadLeft
  <2> QED BY <2>4, <2>5
<1>11. CASE PutCoef(t)
  BY <1>1, <1>3, <1>11 DEF PutCoef, Loop, Goto, dbVars, ownVars, fieldVars, askVars
<1>12. CASE PutLimit(t)
  <2>1. /\ todo[t] # {} /\ mine[t] \in Objects /\ First(t) \in Tariffs
    BY <1>12, FirstIsToDo DEF PutLimit, PointInv, Recalculating
  <2>2. CASE Throws(t) BY <1>4, <2>2 DEF Throws
  <2>3. CASE /\ UNCHANGED dayTrafficLimits
             /\ Loop(t, "log", {})
             /\ UNCHANGED <<created, packetsCoefs, fieldVars, askVars>>
    BY <1>1, <1>3, <1>12, <2>3 DEF PutLimit, Loop, Goto, dbVars, ownVars, fieldVars, askVars
  <2>4. ASSUME NEW x \in DayLimit(mine[t], First(t)),
               dayTrafficLimits' = [dayTrafficLimits EXCEPT ![mine[t]][First(t)] = x],
               Loop(t, "log", {}), UNCHANGED <<created, packetsCoefs, fieldVars, askVars>>
        PROVE  (\A o \in Objects : ObjectLeft(o)') /\ (\A u \in Threads : ThreadLeft(u)')
    <3>1. x > 0 => left[mine[t]] > 0
      BY <1>2, <2>1, LimitIsNumber DEF ObjectLeft
    <3>2. UNCHANGED <<month, left, usedMonthTraffic, allowedDayTraffic, mine>>
      BY <2>4 DEF Loop, Goto, dbVars, ownVars, fieldVars, askVars
    <3>3. \A u \in Threads : pc'[u] \in {"days", "allowed"} => pc'[u] = pc[u]
      BY <1>1, <2>4 DEF Loop, Goto
    <3>4. ASSUME NEW o \in Objects PROVE ObjectLeft(o)'
      <4>1. \A g \in Tariffs :
              dayTrafficLimits'[o][g] =
                IF o = mine[t] /\ g = First(t) THEN x ELSE dayTrafficLimits[o][g]
        BY <1>1, <2>1, <2>4
      <4> QED BY <1>2, <3>1, <3>2, <4>1 DEF ObjectLeft
    <3>5. \A u \in Threads : ThreadLeft(u)'
      BY <1>2, <3>2, <3>3 DEF ThreadLeft
    <3> QED BY <3>4, <3>5
  <2> QED BY <1>12, <2>2, <2>3, <2>4 DEF PutLimit
<1>13. CASE LogLimits(t)
  <2>1. CASE Throws(t) BY <1>4, <2>1 DEF Throws
  <2>2. CASE UNCHANGED <<mapVars, fieldVars, askVars, todo>> /\ Goto(t, Onward)
    BY <1>1, <1>3, <2>2 DEF Onward, Goto, dbVars, ownVars, mapVars, fieldVars, askVars
  <2> QED BY <1>13, <2>1, <2>2 DEF LogLimits
<1> QED
  BY <1>5, <1>6, <1>7, <1>8, <1>9, <1>10, <1>11, <1>12, <1>13 DEF Thread, Recalculate

-----------------------------------------------------------------------------
(* The limits of an object together *)

\* There is a limit of the month, and the fields of an object are of one day.
ShareSound == Sound /\ (May("midnight") => Cardinality(setting.threads) = 1)

\* A limit is at most the part of the rest of the month that the rank of its
\* tariff gives it, and half a unit, which rounding may add, for each day.
LimitShare(o, g) ==
  LET limit == dayTrafficLimits[o][g]
  IN  limit # NoLimit /\ limit > 0 =>
        /\ SumOfRangs > 0
        /\ 2 * SumOfRangs * limit
             <= 2 * setting.rang[g] * Positive(left[o]) + SumOfRangs * setting.days

\* Without midnight all threads that write the fields of an object write them
\* from the same day.
FieldShare(o) ==
  /\ restDaysCount[o] <= setting.days
  /\ ~May("midnight") =>
       /\ restDaysCount[o] \in {0, setting.days}
       /\ allowedDayTraffic[o] > 0 =>
            allowedDayTraffic[o] * setting.days <= Positive(left[o])

\* With midnight the only thread finds what it has written itself.
ThreadShare(t) ==
  LET o == mine[t]
  IN  May("midnight") /\ pc[t] \in {"rangs", "limits"} /\ allowedDayTraffic[o] > 0 =>
        allowedDayTraffic[o] * restDaysCount[o] <= Positive(left[o])

Shares ==
  /\ \A o \in Objects : FieldShare(o) /\ \A g \in Tariffs : LimitShare(o, g)
  /\ \A t \in Threads : ThreadShare(t)

\* Only the configured threads are at work.
WorkInv ==
  /\ ~May("midnight") => day = 1
  /\ \A t \in Threads : pc[t] # "idle" => t \in setting.threads

ShareInv == WorkInv /\ (ShareSound => Shares)

\* Products of natural numbers grow with their factors.
LEMMA ProductGrows ==
  ASSUME NEW a \in Nat, NEW m \in Int, NEW n \in Int, m <= n
  PROVE  a * m \in Int /\ a * n \in Int /\ a * m <= a * n
<1>1. n - m \in Nat OBVIOUS
<1>2. a * (n - m) \in Nat BY <1>1
<1>3. a * (n - m) = a * n - a * m OBVIOUS
<1>4. a * m \in Int /\ a * n \in Int OBVIOUS
<1> QED BY <1>2, <1>3, <1>4

\* What is divided towards zero comes to no more when it is multiplied again.
LEMMA QuotientTimes ==
  ASSUME NEW n \in Int, NEW d \in Nat \ {0}, Quotient(n, d) > 0
  PROVE  Quotient(n, d) \in Int /\ Quotient(n, d) * d <= n /\ n > 0
<1>1. n > 0 /\ Quotient(n, d) \in Int BY QuotientOfRest
<1>2. Quotient(n, d) = n \div d BY <1>1 DEF Quotient
<1>3. d * (n \div d) <= n BY <1>1
<1>4. n \div d \in Int BY <1>1, <1>2
<1> QED BY <1>1, <1>2, <1>3, <1>4

\* The rounded share is at most half a unit too large.
LEMMA RoundedIsClose ==
  ASSUME NEW n \in Int, NEW r \in Nat, NEW s \in Nat \ {0}, NEW x \in Rounded(n, r, s)
  PROVE  x \in Int /\ 2 * s * x <= 2 * (n * r) + s
<1> DEFINE p == n * r
<1>1. p \in Int OBVIOUS
<1>2. 2 * n * r = 2 * p OBVIOUS
<1>3. x \in {(2 * p + s) \div (2 * s), (2 * p + s - 1) \div (2 * s)}
  BY <1>2 DEF Rounded
<1> HIDE DEF p
<1>4. \A y \in Int, d \in Nat \ {0} : y \div d \in Int /\ d * (y \div d) <= y
  OBVIOUS
<1>5. 2 * s \in Nat \ {0} /\ 2 * p + s \in Int /\ 2 * p + s - 1 \in Int BY <1>1
<1>6. x \in Int /\ (2 * s) * x <= 2 * p + s
  <2>1. CASE x = (2 * p + s) \div (2 * s) BY <1>4, <1>5, <2>1
  <2>2. CASE x = (2 * p + s - 1) \div (2 * s)
    <3>1. x \in Int /\ (2 * s) * x <= 2 * p + s - 1 BY <1>4, <1>5, <2>2
    <3>2. (2 * s) * x \in Int BY <1>5, <3>1
    <3> QED BY <1>1, <3>1, <3>2
  <2> QED BY <1>3, <2>1, <2>2
<1> QED BY <1>6 DEF p

\* With what may be exceeded a limit is at most the share of all days that rest.
LEMMA ExceededWithin ==
  ASSUME NEW n \in Int, NEW times \in Nat, NEW rest \in Nat
  PROVE  Exceeded(n, times, rest) <= n * rest
<1>1. (times + 1) * n = n * (times + 1) /\ n * (times + 1) \in Int /\ n * rest \in Int
  OBVIOUS
<1> QED BY <1>1 DEF Exceeded

\* Numbers that are not negative, of what is left.
LEMMA PositiveType ==
  \A n : n = NoLimit \/ n \in Int => Positive(n) \in Nat
BY LimitsAssumption DEF Positive

\* The share of a tariff of what is allowed for a day, for all days that rest,
\* is its part of the month.
LEMMA ShareOfMonth ==
  ASSUME NEW n \in Int, NEW r \in Nat, NEW s \in Nat \ {0}, NEW y \in Rounded(n, r, s),
         NEW rest \in Nat, NEW days \in Nat, rest <= days, NEW l \in Nat, n * rest <= l
  PROVE  2 * s * (y * rest) <= 2 * r * l + s * days
<1>1. y \in Int /\ 2 * s * y <= 2 * (n * r) + s BY RoundedIsClose
<1> DEFINE a == 2 * s * y
           b == 2 * (n * r) + s
<1>2. a \in Int /\ b \in Int /\ a <= b BY <1>1
<1>3. rest * a <= rest * b
  <2> HIDE DEF a, b
  <2> QED BY <1>2, ProductGrows
<1>4. rest * a = 2 * s * (y * rest) BY <1>1
<1>5. rest * b = (2 * r) * (n * rest) + s * rest OBVIOUS
<1>6. /\ (2 * r) * (n * rest) <= (2 * r) * l /\ s * rest <= s * days
      /\ (2 * r) * (n * rest) \in Int /\ (2 * r) * l \in Int
      /\ s * rest \in Int /\ s * days \in Int
  <2>1. 2 * r \in Nat /\ n * rest \in Int OBVIOUS
  <2> QED BY <2>1, ProductGrows
<1>7. 2 * r * l = (2 * r) * l OBVIOUS
<1>8. 2 * s * (y * rest) \in Int BY <1>1
<1> HIDE DEF a, b
<1> QED BY <1>3, <1>4, <1>5, <1>6, <1>7, <1>8

\* The types that the products need.
LEMMA ShareTypes ==
  ASSUME TypeOK, Sound
  PROVE  /\ setting \in Setting /\ setting.maximum \in Nat /\ setting.maximum # NoLimit
         /\ setting.days \in Nat \ {0} /\ ~May("failures") /\ SumOfRangs \in Nat
         /\ \A g \in Tariffs : setting.rang[g] \in Nat /\ setting.exceed_times[g] \in Nat
         /\ \A o \in Objects :
              /\ Positive(left[o]) \in Nat /\ restDaysCount[o] \in Nat
              /\ allowedDayTraffic[o] \in Int /\ usedMonthTraffic[o] \in Nat
              /\ \A g \in Tariffs : dayTrafficLimits[o][g] \in Limits
<1>1. setting \in Setting BY LimitsAssumption DEF TypeOK
<1>2. SumOfRangs \in Nat BY RangsAddUp
<1>3. \A o \in Objects : Positive(left[o]) \in Nat
  BY PositiveType DEF TypeOK, Limits
<1> QED BY <1>1, <1>2, <1>3, LimitsAssumption DEF TypeOK, Setting, Sound, May

\* A limit that PutLimit may write has its share.
LEMMA LimitHasShare ==
  ASSUME TypeOK, PointInv, ShareInv, ShareSound, NEW t \in Threads, pc[t] = "limits",
         NEW g \in Tariffs, NEW x \in DayLimit(mine[t], g), x > 0
  PROVE  /\ SumOfRangs > 0
         /\ 2 * SumOfRangs * x
              <= 2 * setting.rang[g] * Positive(left[mine[t]]) + SumOfRangs * setting.days
<1> DEFINE o == mine[t]
           n == allowedDayTraffic[o]
           r == setting.rang[g]
           s == SumOfRangs
           rest == restDaysCount[o]
           l == Positive(left[o])
<1>1. o \in Objects BY DEF PointInv, Recalculating
<1>2. /\ n \in Int /\ r \in Nat /\ s \in Nat /\ rest \in Nat /\ l \in Nat
      /\ setting.days \in Nat /\ setting.exceed_times[g] \in Nat
  BY <1>1, ShareTypes DEF ShareSound
<1>3. PICK y \in Rounded(n, r, s) : x = Exceeded(y, setting.exceed_times[g], rest)
  BY DEF DayLimit
<1>4. y \in Int /\ (y > 0 => n > 0) BY <1>2, RoundedShare
<1>5. x \in Int /\ y > 0 BY <1>2, <1>3, <1>4, ExceededShare
<1>6. s # 0 BY <1>3, <1>5 DEF Rounded
<1>7. rest <= setting.days BY <1>1 DEF ShareInv, Shares, FieldShare
<1>8. n * rest <= l
  <2>1. CASE May("midnight")
    BY <1>4, <1>5, <2>1 DEF ShareInv, Shares, ThreadShare
  <2>2. CASE ~May("midnight")
    <3>1. rest # 0 BY DEF PointInv
    <3> QED BY <1>1, <1>4, <1>5, <2>2, <3>1 DEF ShareInv, Shares, FieldShare
  <2> QED BY <2>1, <2>2
<1> HIDE DEF o, n, r, s, rest, l
<1>9. 2 * s * (y * rest) <= 2 * r * l + s * setting.days
  BY <1>2, <1>6, <1>7, <1>8, ShareOfMonth
<1>10. 2 * s * x <= 2 * s * (y * rest)
  <2>1. x <= y * rest BY <1>2, <1>3, <1>4, ExceededWithin
  <2>2. 2 * s \in Nat /\ y * rest \in Int BY <1>2, <1>4
  <2> QED BY <1>5, <2>1, <2>2, ProductGrows
<1>11. 2 * s * x \in Int /\ 2 * s * (y * rest) \in Int /\ 2 * r * l + s * setting.days \in Int
  BY <1>2, <1>4, <1>5
<1>12. 2 * s * x <= 2 * r * l + s * setting.days BY <1>9, <1>10, <1>11
<1> QED BY <1>2, <1>6, <1>12 DEF o, r, s, l

\* A limit keeps its share when more is left, and when it is replaced by none.
LEMMA LimitShareKept ==
  ASSUME TypeOK, ShareSound, Shares, setting' = setting, NEW o \in Objects, NEW g \in Tariffs,
         Positive(left[o]) <= Positive(left'[o]), Positive(left'[o]) \in Nat,
         dayTrafficLimits'[o][g] \in {dayTrafficLimits[o][g], NoLimit}
  PROVE  LimitShare(o, g)'
<1>1. LimitShare(o, g) BY DEF Shares
<1>2. /\ setting.rang[g] \in Nat /\ SumOfRangs \in Nat /\ setting.days \in Nat
      /\ Positive(left[o]) \in Nat /\ dayTrafficLimits[o][g] \in Limits
  BY ShareTypes DEF ShareSound
<1> DEFINE r == 2 * setting.rang[g]
           m == Positive(left[o])
           n == Positive(left'[o])
           d == SumOfRangs * setting.days
<1>3. r * m <= r * n /\ r * m \in Int /\ r * n \in Int /\ d \in Int
  <2>1. r \in Nat /\ m \in Int /\ n \in Int /\ m <= n /\ d \in Int BY <1>2
  <2> HIDE DEF r, m, n, d
  <2> QED BY <2>1, ProductGrows
<1>4. SumOfRangs' = SumOfRangs BY DEF SumOfRangs
<1>5. Positive(left[o])' = n BY DEF Positive
<1> SUFFICES ASSUME dayTrafficLimits[o][g] # NoLimit, dayTrafficLimits[o][g] > 0,
                    dayTrafficLimits'[o][g] = dayTrafficLimits[o][g]
             PROVE  /\ SumOfRangs > 0
                    /\ 2 * SumOfRangs * dayTrafficLimits[o][g] <= r * n + d
  BY <1>4, <1>5 DEF LimitShare
<1>6. SumOfRangs > 0 /\ 2 * SumOfRangs * dayTrafficLimits[o][g] <= r * m + d
  BY <1>1 DEF LimitShare
<1>7. 2 * SumOfRangs * dayTrafficLimits[o][g] \in Int
  BY <1>2 DEF Limits
<1> HIDE DEF r, m, n, d
<1> QED BY <1>3, <1>6, <1>7

\* At most one thread is at work where the calendar goes on.
LEMMA Alone ==
  ASSUME TypeOK, WorkInv, ShareSound, May("midnight"),
         NEW t \in Threads, pc[t] # "idle", NEW u \in Threads, u # t
  PROVE  pc[u] = "idle"
<1>1. setting.threads \in SUBSET Threads BY LimitsAssumption DEF TypeOK, Setting
<1>2. IsFiniteSet(setting.threads) BY <1>1, LimitsAssumption, FS_Subset
<1>3. PICK x : setting.threads = {x} BY <1>2, FS_Singleton DEF ShareSound
<1> QED BY <1>3 DEF WorkInv

\* The days and the threads at work.
LEMMA WorkStep ==
  ASSUME TypeOK, WorkInv, [Next]_vars
  PROVE  WorkInv'
<1>1. CASE UNCHANGED vars BY <1>1 DEF WorkInv, May, vars, dbVars
<1>2. CASE NextDay /\ setting' = setting BY <1>2 DEF NextDay, WorkInv, May
<1>3. ASSUME NEW o \in Objects, Refresh(o), setting' = setting PROVE WorkInv'
  BY <1>3 DEF Refresh, WorkInv, May, dbVars
<1>4. ASSUME NEW t \in Threads, Thread(t), setting' = setting PROVE WorkInv'
  <2>1. CASE \E g \in Tariffs : Ask(t, g)
    BY <1>4, <2>1 DEF TypeOK, WorkInv, Ask, Goto, May, dbVars
  <2>2. ASSUME pc[t] # "idle", UNCHANGED day,
               \A u \in Threads \ {t} : pc'[u] = pc[u]
        PROVE  WorkInv'
    BY <1>4, <2>2 DEF WorkInv, May
  <2>3. CASE ReadObject(t) \/ Look(t) \/ ReadTraffic(t) \/ NewCoefs(t) \/ NewDayLimits(t)
             \/ ReadDays(t)
    BY <2>2, <2>3 DEF TypeOK, ReadObject, Look, ReadTraffic, NewCoefs, NewDayLimits,
                      ReadDays, Goto, dbVars
  <2>4. CASE Get(t) \/ ReadUsed(t) \/ Allow(t)
    BY <2>2, <2>4 DEF TypeOK, Get, ReadUsed, Allow, Throws, Answers, Goto, dbVars
  <2>5. CASE PutCoef(t) \/ PutLimit(t) \/ LogLimits(t)
    BY <2>2, <2>5 DEF TypeOK, PutCoef, PutLimit, LogLimits, Throws, Answers, Loop, Goto, dbVars
  <2>6. CASE Use(t)
    <3>1. day' = day BY <2>6 DEF Use, Count
    <3> QED BY <2>2, <2>6, <3>1 DEF TypeOK, Use
  <2> QED BY <1>4, <2>1, <2>3, <2>4, <2>5, <2>6 DEF Thread, Recalculate
<1> QED BY <1>1, <1>2, <1>3, <1>4 DEF Next

\* A step that writes neither the fields nor a limit, and after which no thread
\* begins to use the fields.
LEMMA SharesKept ==
  ASSUME TypeOK, PointInv, ShareSound, Shares, setting' = setting,
         UNCHANGED <<restDaysCount, allowedDayTraffic>>,
         \A o \in Objects :
           Positive(left'[o]) \in Nat /\ Positive(left[o]) <= Positive(left'[o]),
         \A o \in Objects, g \in Tariffs :
           dayTrafficLimits'[o][g] \in {dayTrafficLimits[o][g], NoLimit},
         \A u \in Threads :
           pc'[u] \in {"rangs", "limits"} =>
             pc[u] \in {"rangs", "limits"} /\ mine'[u] = mine[u]
  PROVE  Shares'
<1>1. \A o \in Objects, g \in Tariffs : LimitShare(o, g)' BY LimitShareKept
<1>2. \A o \in Objects :
        /\ Positive(left[o])' = Positive(left'[o])
        /\ restDaysCount[o] \in Nat /\ allowedDayTraffic[o] \in Int
        /\ Positive(left[o]) \in Nat
  BY ShareTypes DEF Positive, ShareSound
<1>3. setting.days \in Nat BY ShareTypes DEF ShareSound
<1>4. ASSUME NEW o \in Objects PROVE FieldShare(o)'
  <2>1. FieldShare(o) BY DEF Shares
  <2>2. allowedDayTraffic[o] * setting.days \in Int BY <1>2, <1>3
  <2> QED BY <1>2, <2>1, <2>2 DEF FieldShare, May
<1>5. ASSUME NEW u \in Threads PROVE ThreadShare(u)'
  <2> SUFFICES ASSUME May("midnight"), pc'[u] \in {"rangs", "limits"},
                      allowedDayTraffic[mine'[u]] > 0
               PROVE  allowedDayTraffic[mine'[u]] * restDaysCount[mine'[u]]
                        <= Positive(left'[mine'[u]])
    BY DEF ThreadShare, May, Positive
  <2>1. pc[u] \in {"rangs", "limits"} /\ mine'[u] = mine[u] OBVIOUS
  <2>2. mine[u] \in Objects BY <2>1 DEF PointInv, Recalculating
  <2>3. allowedDayTraffic[mine[u]] * restDaysCount[mine[u]] <= Positive(left[mine[u]])
    BY <2>1 DEF Shares, ThreadShare
  <2>4. allowedDayTraffic[mine[u]] * restDaysCount[mine[u]] \in Int BY <1>2, <2>2
  <2>5. Positive(left[mine[u]]) <= Positive(left'[mine[u]]) /\ Positive(left[mine[u]]) \in Nat
        /\ Positive(left'[mine[u]]) \in Nat
    BY <1>2, <2>2
  <2> QED BY <2>1, <2>3, <2>4, <2>5
<1> QED BY <1>1, <1>4, <1>5 DEF Shares

\* The clock, what is used, and the refresh: what is left of the month only
\* grows for the objects whose limits stay.
LEMMA WorldKeepsShares ==
  ASSUME TypeOK, TypeOK', PointInv, LeftInv, ShareSound, Shares, setting' = setting,
         (\E t \in Threads : Use(t)) \/ NextDay \/ (\E o \in Objects : Refresh(o))
  PROVE  Shares'
<1>0. Sound' BY DEF ShareSound, Sound
<1>1. \A o \in Objects :
        /\ Positive(left[o]) \in Nat /\ Positive(left'[o]) \in Nat
        /\ left[o] \in Int /\ left[o] <= setting.maximum /\ setting.maximum \in Nat
  <2>1. \A o \in Objects : Positive(left'[o]) \in Nat
    BY PositiveType DEF TypeOK, Limits
  <2> QED BY <2>1, ShareTypes DEF ShareSound, LeftInv
<1>2. ASSUME NEW t \in Threads, Use(t) PROVE Shares'
  <2>1. /\ UNCHANGED <<left, restDaysCount, allowedDayTraffic, dayTrafficLimits, mine>>
        /\ \A u \in Threads : pc'[u] = pc[u] \/ pc'[u] = "idle"
    BY <1>2 DEF TypeOK, Use, ownVars, fieldVars, mapVars
  <2> QED BY <1>1, <2>1, SharesKept
<1>3. CASE NextDay
  <2>1. UNCHANGED <<restDaysCount, allowedDayTraffic, dayTrafficLimits, mine, pc>>
    BY <1>3 DEF NextDay, fieldVars, mapVars, askVars
  <2>2. \A o \in Objects : Positive(left[o]) <= Positive(left'[o])
    <3>1. CASE left' = left BY <1>1, <3>1
    <3>2. CASE left' = [o \in Objects |-> setting.maximum]
      BY <1>1, <3>2, LimitsAssumption DEF Positive
    <3> QED BY <1>3, <3>1, <3>2 DEF NextDay
  <2> QED BY <1>1, <2>1, <2>2, SharesKept
<1>4. ASSUME NEW x \in Objects, Refresh(x) PROVE Shares'
  <2>1. UNCHANGED <<pc, mine>> BY <1>4 DEF Refresh, askVars
  <2>2. ASSUME NEW o \in Objects PROVE FieldShare(o)' /\ \A g \in Tariffs : LimitShare(o, g)'
    <3>1. CASE Kept(o)
      <4>1. /\ left'[o] = left[o] /\ dayTrafficLimits'[o] = dayTrafficLimits[o]
            /\ restDaysCount'[o] = restDaysCount[o]
            /\ allowedDayTraffic'[o] = allowedDayTraffic[o]
        BY <1>4, <3>1 DEF Refresh, Forget
      <4>2. FieldShare(o) /\ \A g \in Tariffs : LimitShare(o, g) BY DEF Shares
      <4> QED BY <4>1, <4>2 DEF FieldShare, LimitShare, SumOfRangs, Positive, May
    <3>2. CASE ~Kept(o)
      <4>1. dayTrafficLimits'[o] = Empty /\ restDaysCount'[o] = 0 /\ allowedDayTraffic'[o] = 0
        BY <1>4, <3>2 DEF Refresh, Forget
      <4>2. setting.days \in Nat BY ShareTypes DEF ShareSound
      <4> QED BY <4>1, <4>2 DEF FieldShare, LimitShare, Empty
    <3> QED BY <3>1, <3>2
  <2>3. ASSUME NEW u \in Threads PROVE ThreadShare(u)'
    <3>1. CASE pc[u] \in {"rangs", "limits"}
      <4>1. mine[u] \in Objects BY <3>1 DEF PointInv, Recalculating
      <4>2. /\ left'[mine[u]] = left[mine[u]]
            /\ restDaysCount'[mine[u]] = restDaysCount[mine[u]]
            /\ allowedDayTraffic'[mine[u]] = allowedDayTraffic[mine[u]]
        BY <1>4, <4>1 DEF Refresh, Forget, Kept
      <4>3. ThreadShare(u) BY DEF Shares
      <4> QED BY <2>1, <4>2, <4>3 DEF ThreadShare, May, Positive
    <3>2. CASE pc[u] \notin {"rangs", "limits"} BY <2>1, <3>2 DEF ThreadShare
    <3> QED BY <3>1, <3>2
  <2> QED BY <2>2, <2>3 DEF Shares
<1> QED BY <1>2, <1>3, <1>4

\* The steps of a thread that asks and recalculates.
LEMMA ThreadKeepsShares ==
  ASSUME TypeOK, PointInv, LeftInv, WorkInv, ShareSound, Shares, setting' = setting,
         NEW t \in Threads, Thread(t), ~Use(t)
  PROVE  Shares'
<1>1. /\ setting \in Setting /\ setting.maximum \in Nat /\ ~May("failures")
      /\ setting.maximum # NoLimit /\ setting.days \in Nat \ {0} /\ day \in 1..setting.days
      /\ allowedDayTraffic \in [Objects -> Int] /\ restDaysCount \in [Objects -> Nat]
      /\ pc \in [Threads -> Points] /\ mine \in [Threads -> Objects \cup {NoObject}]
      /\ dayTrafficLimits \in [Objects -> [Tariffs -> Limits]]
  BY ShareTypes DEF TypeOK, ShareSound
<1>2. \A o \in Objects :
        Positive(left[o]) \in Nat /\ restDaysCount[o] \in Nat /\ allowedDayTraffic[o] \in Int
  BY ShareTypes DEF ShareSound
<1>3. ASSUME UNCHANGED <<left, restDaysCount, allowedDayTraffic>>,
             \A o \in Objects, g \in Tariffs :
               dayTrafficLimits'[o][g] \in {dayTrafficLimits[o][g], NoLimit},
             \A u \in Threads :
               pc'[u] \in {"rangs", "limits"} =>
                 pc[u] \in {"rangs", "limits"} /\ mine'[u] = mine[u]
      PROVE  Shares'
  BY <1>2, <1>3, SharesKept
<1>4. ASSUME NEW granted \in BOOLEAN, Answers(t, granted), UNCHANGED <<mapVars, fieldVars>>
      PROVE  Shares'
  BY <1>1, <1>3, <1>4 DEF Answers, Goto, ownVars, mapVars, fieldVars
<1>5. CASE (\E g \in Tariffs : Ask(t, g)) \/ ReadObject(t) \/ Look(t) \/ ReadTraffic(t) \/ NewCoefs(t)
  BY <1>1, <1>3, <1>5
     DEF Ask, ReadObject, Look, Onward, ReadTraffic, NewCoefs, Goto, ownVars, mapVars, fieldVars, askVars
<1>6. CASE NewDayLimits(t)
  <2>1. \A o \in Objects, g \in Tariffs :
          dayTrafficLimits'[o][g] \in {dayTrafficLimits[o][g], NoLimit}
    BY <1>1, <1>6 DEF NewDayLimits, Empty
  <2> QED BY <1>1, <1>3, <1>6, <2>1 DEF NewDayLimits, Goto, ownVars, fieldVars, askVars
<1>7. CASE Get(t) BY <1>4, <1>7 DEF Get, GetsLimit
<1>8. CASE ReadUsed(t)
  BY <1>1, <1>3, <1>8 DEF ReadUsed, Goto, ownVars, mapVars, askVars
<1>9. CASE ReadDays(t)
  <2> DEFINE o == mine[t]
             rest == setting.days - day + 1
  <2>1. /\ restDaysCount' = [restDaysCount EXCEPT ![o] = rest]
        /\ UNCHANGED <<left, mapVars, usedMonthTraffic, allowedDayTraffic, mine>>
        /\ pc' = [pc EXCEPT ![t] = "allowed"] /\ pc[t] = "days"
    BY <1>9 DEF ReadDays, Goto, ownVars, askVars
  <2>2. o \in Objects BY <2>1 DEF PointInv, Recalculating
  <2>3. rest \in Nat /\ rest <= setting.days /\ (~May("midnight") => rest = setting.days)
    BY <1>1 DEF WorkInv
  <2>4. ASSUME NEW x \in Objects PROVE FieldShare(x)' /\ \A g \in Tariffs : LimitShare(x, g)'
    <3>1. restDaysCount'[x] = IF x = o THEN rest ELSE restDaysCount[x] BY <1>1, <2>1
    <3>2. FieldShare(x) /\ \A g \in Tariffs : LimitShare(x, g) BY DEF Shares
    <3>3. UNCHANGED <<left, allowedDayTraffic, dayTrafficLimits>> BY <2>1 DEF mapVars
    <3>4. FieldShare(x)' BY <2>3, <3>1, <3>2, <3>3 DEF FieldShare, May, Positive
    <3> QED BY <3>2, <3>3, <3>4 DEF LimitShare, SumOfRangs, Positive
  <2>5. ASSUME NEW u \in Threads PROVE ThreadShare(u)'
    <3>1. CASE May("midnight")
      <4>1. u = t \/ pc[u] = "idle" BY <2>1, <3>1, Alone
      <4>2. pc'[u] \notin {"rangs", "limits"} BY <1>1, <2>1, <4>1
      <4> QED BY <4>2 DEF ThreadShare
    <3>2. CASE ~May("midnight") BY <3>2 DEF ThreadShare, May
    <3> QED BY <3>1, <3>2
  <2> QED BY <2>4, <2>5 DEF Shares
<1>10. CASE Allow(t)
  <2> DEFINE o == mine[t]
             n == setting.maximum - usedMonthTraffic[o]
             allowed == Quotient(n, restDaysCount[o])
  <2>1. /\ allowedDayTraffic' = [allowedDayTraffic EXCEPT ![o] = allowed]
        /\ UNCHANGED <<left, mapVars, restDaysCount, mine>>
        /\ pc' = [pc EXCEPT ![t] = "rangs"] /\ pc[t] = "allowed"
    BY <1>1, <1>10 DEF Allow, Goto, ownVars, askVars
  <2>2. o \in Objects /\ restDaysCount[o] \in Nat \ {0}
    BY <1>1, <2>1 DEF PointInv, Recalculating
  <2>3. allowed > 0 => allowed * restDaysCount[o] <= Positive(left[o])
    <3>1. n \in Int /\ left[o] \in Int /\ n <= left[o]
      BY <1>1, <2>1, <2>2 DEF LeftInv, ShareSound, TypeOK
    <3>2. allowed > 0 => allowed \in Int /\ allowed * restDaysCount[o] <= n /\ n > 0
      <4> HIDE DEF n
      <4> QED BY <2>2, <3>1, QuotientTimes
    <3>3. n > 0 => Positive(left[o]) = left[o]
      BY <3>1, LimitsAssumption DEF Positive
    <3>4. allowed > 0 => allowed * restDaysCount[o] \in Int BY <2>2, <3>2
    <3> HIDE DEF n, allowed
    <3> QED BY <3>1, <3>2, <3>3, <3>4
  <2> HIDE DEF allowed
  <2>4. ASSUME NEW x \in Objects PROVE FieldShare(x)' /\ \A g \in Tariffs : LimitShare(x, g)'
    <3>1. allowedDayTraffic'[x] = IF x = o THEN allowed ELSE allowedDayTraffic[x] BY <1>1, <2>1
    <3>2. FieldShare(x) /\ \A g \in Tariffs : LimitShare(x, g) BY DEF Shares
    <3>3. UNCHANGED <<left, restDaysCount, dayTrafficLimits>> BY <2>1 DEF mapVars
    <3>4. FieldShare(x)' BY <2>2, <2>3, <3>1, <3>2, <3>3 DEF FieldShare, May, Positive
    <3> QED BY <3>2, <3>3, <3>4 DEF LimitShare, SumOfRangs, Positive
  <2>5. ASSUME NEW u \in Threads PROVE ThreadShare(u)'
    <3>1. CASE May("midnight")
      <4>1. u = t \/ pc[u] = "idle" BY <2>1, <3>1, Alone
      <4>2. CASE u = t
        BY <1>1, <2>1, <2>2, <2>3, <4>2 DEF ThreadShare, May, Positive
      <4>3. CASE u # t
        <5>1. pc'[u] = "idle" BY <1>1, <2>1, <4>1, <4>3
        <5> QED BY <5>1 DEF ThreadShare
      <4> QED BY <4>2, <4>3
    <3>2. CASE ~May("midnight") BY <3>2 DEF ThreadShare, May
    <3> QED BY <3>1, <3>2
  <2> QED BY <2>4, <2>5 DEF Shares
<1>11. CASE PutCoef(t)
  BY <1>1, <1>3, <1>11 DEF PutCoef, Loop, Goto, ownVars, fieldVars, askVars
<1>12. CASE PutLimit(t)
  <2>1. /\ todo[t] # {} /\ mine[t] \in Objects /\ First(t) \in Tariffs /\ pc[t] = "limits"
    BY <1>12, FirstIsToDo DEF PutLimit, PointInv, Recalculating
  <2>2. CASE Throws(t) BY <1>4, <2>2 DEF Throws
  <2>3. CASE /\ UNCHANGED dayTrafficLimits
             /\ Loop(t, "log", {})
             /\ UNCHANGED <<created, packetsCoefs, fieldVars, askVars>>
    BY <1>1, <1>3, <1>12, <2>3 DEF PutLimit, Loop, Goto, ownVars, fieldVars, askVars
  <2>4. ASSUME NEW x \in DayLimit(mine[t], First(t)),
               dayTrafficLimits' = [dayTrafficLimits EXCEPT ![mine[t]][First(t)] = x],
               Loop(t, "log", {}), UNCHANGED <<created, packetsCoefs, fieldVars, askVars>>
        PROVE  Shares'
    <3>1. UNCHANGED <<left, restDaysCount, allowedDayTraffic, mine>>
      BY <2>4 DEF Loop, Goto, ownVars, fieldVars, askVars
    <3>2. \A u \in Threads : pc'[u] \in {"rangs", "limits"} => pc'[u] = pc[u]
      BY <1>1, <2>4 DEF Loop, Goto
    <3>3. ASSUME NEW o \in Objects PROVE FieldShare(o)'
      BY <3>1 DEF Shares, FieldShare, May, Positive
    <3>4. ASSUME NEW o \in Objects, NEW g \in Tariffs PROVE LimitShare(o, g)'
      <4>1. dayTrafficLimits'[o][g] =
              IF o = mine[t] /\ g = First(t) THEN x ELSE dayTrafficLimits[o][g]
        BY <1>1, <2>1, <2>4
      <4>2. LimitShare(o, g) BY DEF Shares
      <4>3. CASE o = mine[t] /\ g = First(t)
        <5>1. x > 0 => /\ SumOfRangs > 0
                       /\ 2 * SumOfRangs * x
                            <= 2 * setting.rang[g] * Positive(left[o]) + SumOfRangs * setting.days
          BY <2>1, <4>3, LimitHasShare DEF ShareInv
        <5> QED BY <3>1, <4>1, <4>3, <5>1 DEF LimitShare, SumOfRangs, Positive
      <4>4. CASE ~(o = mine[t] /\ g = First(t))
        BY <3>1, <4>1, <4>2, <4>4 DEF LimitShare, SumOfRangs, Positive
      <4> QED BY <4>3, <4>4
    <3>5. ASSUME NEW u \in Threads PROVE ThreadShare(u)'
      BY <3>1, <3>2 DEF Shares, ThreadShare, May, Positive
    <3> QED BY <3>3, <3>4, <3>5 DEF Shares
  <2> QED BY <1>12, <2>2, <2>3, <2>4 DEF PutLimit
<1>13. CASE LogLimits(t)
  <2>1. CASE Throws(t) BY <1>4, <2>1 DEF Throws
  <2>2. CASE UNCHANGED <<mapVars, fieldVars, askVars, todo>> /\ Goto(t, Onward)
    BY <1>1, <1>3, <2>2 DEF Onward, Goto, ownVars, mapVars, fieldVars, askVars
  <2> QED BY <1>13, <2>1, <2>2 DEF LogLimits
<1> QED
  BY <1>5, <1>6, <1>7, <1>8, <1>9, <1>10, <1>11, <1>12, <1>13 DEF Thread, Recalculate

-----------------------------------------------------------------------------
(* Theorems *)

\* Every step keeps the invariant.
LEMMA LimitsStep ==
  ASSUME LimitsInv, [Next]_vars
  PROVE  LimitsInv'
<1> USE DEF LimitsInv
<1>1. CASE UNCHANGED vars
  <2>1. TypeOK' BY <1>1 DEF TypeOK, vars, dbVars, mapVars, fieldVars, ownVars, askVars
  <2>2. PointInv' BY <1>1 DEF PointInv, vars, mapVars, fieldVars, askVars
  <2>3. CompleteInv'
    BY <1>1 DEF CompleteInv, GivesCoefs, GivesLimits, Sound, vars, mapVars, askVars
  <2>4. LeftInv'
    BY <1>1 DEF LeftInv, Sound, vars, dbVars, mapVars, fieldVars, ownVars, askVars
  <2> QED BY <2>1, <2>2, <2>3, <2>4
<1>2. ASSUME setting' = setting,
             (\E t \in Threads : Use(t)) \/ NextDay \/ (\E o \in Objects : Refresh(o))
      PROVE  LimitsInv'
  BY <1>2, WorldType, WorldPoint, WorldComplete, WorldKeepsLeft
<1>3. ASSUME setting' = setting, NEW t \in Threads, Thread(t), ~Use(t)
      PROVE  LimitsInv'
  BY <1>3, ThreadType, ThreadPoint, ThreadComplete, ThreadKeepsLeft
<1> QED BY <1>1, <1>2, <1>3 DEF Next

\* The invariant of PacketsTodayLimits.
THEOREM LimitsInvariant == Spec => []LimitsInv
<1>1. Init => LimitsInv BY InitInv
<1>2. LimitsInv /\ [Next]_vars => LimitsInv' BY LimitsStep
<1> QED BY <1>1, <1>2, PTL DEF Spec

\* The fields and the locals of the threads keep their types.
THEOREM LimitsTypes == Spec => []TypeOK
<1>1. LimitsInv => TypeOK BY DEF LimitsInv
<1> QED BY <1>1, LimitsInvariant, PTL

\* When the last thread that computes the limits of an object is through, no
\* tariff is without one.
THEOREM LimitsAreComplete == Spec => []LimitsComplete
<1>1. ASSUME NEW t, GivesLimits(t) PROVE pc[t] \in Recalculating
  BY <1>1 DEF GivesLimits, Recalculating
<1>2. LimitsInv => LimitsComplete
  BY <1>1 DEF LimitsInv, CompleteInv, LimitsComplete, Busy
<1> QED BY <1>2, LimitsInvariant, PTL

\* Nobody is granted access by limits of a month that was used up when they were
\* made, unless he found them unfinished.
THEOREM GrantsAreWithinRest == Spec => GrantsWithinRest
<1> DEFINE Grant ==
      \A t \in Threads :
        Sound /\ pc[t] = "get" /\ pc'[t] = "granted" =>
          Positive(left[mine[t]]) > 0 \/ Busy(mine[t])
<1>1. ASSUME LimitsInv, [Next]_vars PROVE [Grant]_vars
  <2> SUFFICES ASSUME ~UNCHANGED vars, NEW t \in Threads,
                      Sound, pc[t] = "get", pc'[t] = "granted"
               PROVE  Positive(left[mine[t]]) > 0 \/ Busy(mine[t])
    OBVIOUS
  <2> DEFINE o == mine[t]
             limit == dayTrafficLimits[o][tariff[t]]
  <2>1. /\ TypeOK /\ PointInv /\ CompleteInv /\ LeftInv
        /\ pc \in [Threads -> Points]
    BY <1>1 DEF LimitsInv, TypeOK
  <2>2. Get(t)
    <3>1. ASSUME NEW u \in Threads, Thread(u) PROVE u = t
      <4>1. CASE Use(u) BY <2>1, <4>1 DEF Use
      <4>2. CASE \E g \in Tariffs : Ask(u, g) BY <2>1, <4>2 DEF Ask, Goto
      <4>3. CASE \/ ReadObject(u) \/ Look(u) \/ ReadTraffic(u)
                 \/ NewCoefs(u) \/ NewDayLimits(u) \/ ReadDays(u)
        BY <2>1, <4>3 DEF ReadObject, Look, ReadTraffic, NewCoefs, NewDayLimits, ReadDays, Goto
      <4>4. CASE Get(u) BY <2>1, <4>4 DEF Get, Answers, Goto
      <4>5. CASE ReadUsed(u) \/ Allow(u)
        BY <2>1, <4>5 DEF ReadUsed, Allow, Throws, Answers, Goto
      <4>6. CASE PutCoef(u) \/ PutLimit(u) \/ LogLimits(u)
        BY <2>1, <4>6 DEF PutCoef, PutLimit, LogLimits, Throws, Answers, Loop, Goto
      <4> QED BY <3>1, <4>1, <4>2, <4>3, <4>4, <4>5, <4>6 DEF Thread, Recalculate
    <3>2. ~NextDay /\ ~(\E x \in Objects : Refresh(x)) BY DEF NextDay, Refresh
    <3>3. Thread(t) BY <1>1, <3>1, <3>2 DEF Next
    <3> QED BY <3>3 DEF Thread, Recalculate, Ask, ReadObject, Look, NewCoefs, NewDayLimits,
                        ReadUsed, ReadDays, Allow, PutCoef, PutLimit, LogLimits,
                        ReadTraffic, Use
  <2>3. GetsLimit(t) BY <2>1, <2>2 DEF Get, Answers, Goto
  <2>4. o \in created /\ o \in Objects /\ tariff[t] \in Tariffs
    BY <2>1 DEF PointInv, TypeOK
  <2>5. CASE limit = NoLimit
    <3>1. PICK u \in Threads : mine[u] = o /\ GivesLimits(u)
      BY <2>1, <2>4, <2>5 DEF CompleteInv
    <3> QED BY <3>1 DEF Busy, GivesLimits, Recalculating
  <2>6. CASE limit # NoLimit
    <3>1. limit \in Int BY <2>1, <2>4, <2>6 DEF TypeOK, Limits
    <3>2. limit > 0
      <4>1. dayTraffic[t] \in Nat BY <2>1 DEF TypeOK
      <4> QED BY <2>3, <2>6, <3>1, <4>1 DEF GetsLimit
    <3>3. left[o] \in Int /\ left[o] > 0 BY <2>1, <2>4, <2>6, <3>2 DEF LeftInv
    <3> QED BY <3>3, LimitsAssumption DEF Positive
  <2> QED BY <2>5, <2>6
<1>2. LimitsInv /\ [Next]_vars => [Grant]_vars BY <1>1
<1> QED BY <1>2, LimitsInvariant, PTL DEF Spec, GrantsWithinRest

\* Every step keeps the shares.
LEMMA ShareStep ==
  ASSUME LimitsInv, LimitsInv', ShareInv, [Next]_vars
  PROVE  ShareInv'
<1>1. WorkInv' BY WorkStep DEF LimitsInv, ShareInv
<1>2. ASSUME ShareSound' PROVE Shares'
  <2>1. setting' = setting BY DEF Next, vars
  <2>2. ShareSound /\ Shares BY <1>2, <2>1 DEF ShareInv, ShareSound, Sound, May
  <2>3. CASE UNCHANGED vars
    BY <2>2, <2>3 DEF Shares, FieldShare, LimitShare, ThreadShare, SumOfRangs, Positive, May,
                      vars, mapVars, fieldVars, ownVars, askVars
  <2>4. CASE (\E t \in Threads : Use(t)) \/ NextDay \/ (\E o \in Objects : Refresh(o))
    BY <2>1, <2>2, <2>4, WorldKeepsShares DEF LimitsInv
  <2>5. ASSUME NEW t \in Threads, Thread(t), ~Use(t) PROVE Shares'
    BY <2>1, <2>2, <2>5, ThreadKeepsShares DEF LimitsInv, ShareInv
  <2> QED BY <2>3, <2>4, <2>5 DEF Next
<1> QED BY <1>1, <1>2 DEF ShareInv

\* Limits that have their shares are together within the rest of the month: the
\* ranks add up to SumOfRangs, by which the sum of the shares is divided.
LEMMA SharesAddUp ==
  ASSUME TypeOK, ShareSound, Shares, NEW o \in Objects
  PROVE  2 * Sum(Tariffs, [g \in Tariffs |-> Positive(dayTrafficLimits[o][g])])
           <= 2 * Positive(left[o]) + Cardinality(Tariffs) * setting.days
<1> DEFINE f == [g \in Tariffs |-> Positive(dayTrafficLimits[o][g])]
           s == SumOfRangs
           l == Positive(left[o])
           d == setting.days
           c == Cardinality(Tariffs)
           scaled == [g \in Tariffs |-> (2 * s) * f[g]]
           part == [g \in Tariffs |-> (2 * l) * setting.rang[g]]
           more == [g \in Tariffs |-> s * d]
           both == [g \in Tariffs |-> part[g] + more[g]]
<1>1. /\ IsFiniteSet(Tariffs) /\ c \in Nat /\ s \in Nat /\ l \in Nat /\ d \in Nat
      /\ \A g \in Tariffs : setting.rang[g] \in Nat /\ dayTrafficLimits[o][g] \in Limits
  BY ShareTypes, LimitsAssumption, FS_CardinalityType DEF ShareSound
<1>2. \A g \in Tariffs : f[g] \in Nat BY <1>1, PositiveType DEF Limits
<1>3. Sum(Tariffs, f) \in Nat
  <2> HIDE DEF f
  <2> QED BY <1>1, <1>2, SumNat
<1>4. CASE s = 0
  <2>1. \A g \in Tariffs : f[g] = 0 BY <1>4 DEF Shares, LimitShare, Positive
  <2>2. Sum(Tariffs, f) = 0
    <3> HIDE DEF f
    <3> QED BY <1>1, <2>1, SumZero
  <2>3. c * d \in Nat BY <1>1
  <2> QED BY <1>1, <2>2, <2>3
<1>5. CASE s # 0
  <2>1. \A g \in Tariffs : scaled[g] <= both[g]
    <3> SUFFICES ASSUME NEW g \in Tariffs
                 PROVE  (2 * s) * f[g] <= (2 * l) * setting.rang[g] + s * d
      OBVIOUS
    <3>1. CASE f[g] = 0
      <4>1. (2 * l) * setting.rang[g] \in Nat /\ s * d \in Nat BY <1>1
      <4>2. (2 * s) * f[g] = 0 BY <1>1, <3>1
      <4> QED BY <4>1, <4>2
    <3>2. CASE f[g] # 0
      <4>1. /\ dayTrafficLimits[o][g] # NoLimit /\ dayTrafficLimits[o][g] > 0
            /\ f[g] = dayTrafficLimits[o][g]
        BY <3>2 DEF Positive
      <4>2. 2 * s * f[g] <= 2 * setting.rang[g] * l + s * d
        BY <4>1 DEF Shares, LimitShare
      <4>3. 2 * s * f[g] = (2 * s) * f[g] /\ 2 * setting.rang[g] * l = (2 * l) * setting.rang[g]
        BY <1>1, <1>2
      <4> QED BY <4>2, <4>3
    <3> QED BY <3>1, <3>2
  <2>2. \A g \in Tariffs : scaled[g] \in Int /\ part[g] \in Int /\ more[g] \in Int /\ both[g] \in Int
    BY <1>1, <1>2
  <2>3. Sum(Tariffs, scaled) <= Sum(Tariffs, both)
    <3> HIDE DEF scaled, both
    <3> QED BY <1>1, <2>1, <2>2, SumMonotone
  <2>4. Sum(Tariffs, scaled) = (2 * s) * Sum(Tariffs, f)
    <3>1. 2 * s \in Int /\ \A g \in Tariffs : f[g] \in Int /\ scaled[g] = (2 * s) * f[g]
      BY <1>1, <1>2
    <3> HIDE DEF scaled, f
    <3> QED BY <1>1, <3>1, SumScale
  <2>5. Sum(Tariffs, part) = (2 * l) * s
    <3>1. 2 * l \in Int /\ \A g \in Tariffs : part[g] = (2 * l) * setting.rang[g]
      BY <1>1
    <3>2. \A g \in Tariffs : setting.rang[g] \in Int BY <1>1
    <3> HIDE DEF part
    <3>3. Sum(Tariffs, part) = (2 * l) * Sum(Tariffs, setting.rang)
      BY <1>1, <3>1, <3>2, SumScale
    <3> QED BY <3>3 DEF SumOfRangs
  <2>6. Sum(Tariffs, more) = c * (s * d)
    <3>1. s * d \in Int /\ \A g \in Tariffs : more[g] = s * d BY <1>1
    <3> HIDE DEF more, s
    <3> QED BY <1>1, <3>1, SumConstant
  <2>7. Sum(Tariffs, both) = Sum(Tariffs, part) + Sum(Tariffs, more)
    <3>1. \A g \in Tariffs : both[g] = part[g] + more[g] OBVIOUS
    <3> HIDE DEF both, part, more
    <3> QED BY <1>1, <2>2, <3>1, SumPlus
  <2> DEFINE m == 2 * Sum(Tariffs, f)
             n == 2 * l + c * d
  <2>8. s * m <= s * n
    <3>1. (2 * s) * Sum(Tariffs, f) = s * m BY <1>1, <1>3
    <3>2. (2 * l) * s + c * (s * d) = s * n BY <1>1
    <3> HIDE DEF m, n
    <3> QED BY <2>3, <2>4, <2>5, <2>6, <2>7, <3>1, <3>2
  <2>9. m \in Int /\ n \in Int BY <1>1, <1>3
  <2>10. m <= n
    <3> HIDE DEF m, n
    <3>1. ~(n + 1 <= m)
      <4> SUFFICES ASSUME n + 1 <= m PROVE FALSE OBVIOUS
      <4>1. s * (n + 1) <= s * m BY <1>1, <2>9, ProductGrows
      <4>2. s * (n + 1) = s * n + s /\ s * n \in Int /\ s * m \in Int BY <1>1, <2>9
      <4> QED BY <1>1, <1>5, <2>8, <4>1, <4>2
    <3> QED BY <2>9, <3>1
  <2> QED BY <2>10
<1> QED BY <1>4, <1>5

\* Together the limits of a day never promise more of the month than was left of
\* it, but for what rounding adds, for any number of tariffs, ranks and days.
THEOREM LimitsAreWithinRest == Spec => []LimitsWithinRest
<1>1. Init => ShareInv
  <2> SUFFICES ASSUME Init PROVE ShareInv OBVIOUS
  <2>1. LimitsInv BY InitInv
  <2>2. WorkInv BY DEF Init, WorkInv
  <2>3. ASSUME ShareSound PROVE Shares
    <3>1. setting.days \in Nat \ {0} BY <2>1, <2>3, ShareTypes DEF LimitsInv, ShareSound
    <3> QED BY <3>1 DEF Init, Shares, FieldShare, LimitShare, ThreadShare, Empty
  <2> QED BY <2>2, <2>3 DEF ShareInv
<1>2. LimitsInv /\ LimitsInv' /\ ShareInv /\ [Next]_vars => ShareInv' BY ShareStep
<1>3. LimitsInv /\ ShareInv => LimitsWithinRest
  <2> SUFFICES ASSUME LimitsInv, ShareInv, ShareSound, NEW o \in created
               PROVE  2 * Sum(Tariffs, [g \in Tariffs |-> Positive(dayTrafficLimits[o][g])])
                        <= 2 * Positive(left[o]) + Cardinality(Tariffs) * setting.days
    BY DEF LimitsWithinRest, ShareSound
  <2>1. TypeOK /\ Shares /\ o \in Objects BY DEF LimitsInv, ShareInv, TypeOK
  <2> QED BY <2>1, SharesAddUp
<1>4. Spec => []ShareInv
  BY <1>1, <1>2, LimitsInvariant, PTL DEF Spec
<1> QED BY <1>3, <1>4, LimitsInvariant, PTL

=============================================================================
