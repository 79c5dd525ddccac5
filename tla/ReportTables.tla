---------------------------- MODULE ReportTables ----------------------------
(***************************************************************************)
(* What cadbis.proxy.Aggregator writes: the text of the protocol of every  *)
(* session, made of items that are merged by a hash code, and the rating   *)
(* of the urls by month.  It happens inside Collector.wLock and with       *)
(* statements that work; what becomes of the control of Aggregate() when   *)
(* they do not is the matter of the module Aggregator.                     *)
(*                                                                         *)
(* A page is a url with a content type.  Every response has the length 1,  *)
(* so that lengths are counts; dates and host addresses are left out.      *)
(***************************************************************************)
EXTENDS Integers, FiniteSets, Sums

CONSTANTS
  Sessions,         \* unique_id
  Users,
  UserOf,           \* url_log.user
  Pages,
  Urls,
  UrlOf,            \* the url of a page
  Keys,             \* hash codes of url and content type
  NoItem,           \* no entry in proto_logs
  NoProtocol,       \* no row in `protocols`
  MaxResponses,     \* bound: responses a session gets
  MaxAggregations,  \* bound: periods of the Aggregator
  MaxMonths,        \* bound: months that pass
  Settings          \* what is configured, and the hash codes

Setting ==
  [merging : BOOLEAN,         \* aggregate_protocols = enabled
   deletable : SUBSET Users,  \* users whom an administrator may delete
   keyOf : [Pages -> Keys]]

ASSUME ReportAssumption ==
  /\ IsFiniteSet(Sessions) /\ IsFiniteSet(Pages)
  /\ UserOf \in [Sessions -> Users]
  /\ UrlOf \in [Pages -> Urls]
  /\ {MaxResponses, MaxAggregations} \subseteq Nat
  /\ MaxMonths \in Nat \ {0}
  /\ Settings \subseteq Setting

Item == [sid : Sessions, page : Pages, count : Nat \ {0}]
Text == [Pages -> Nat]

ASSUME ItemAssumption == NoItem \notin Item /\ NoProtocol \notin Text

VARIABLES
  setting,       \* constant in every behaviour
  logged,        \* history: responses that reached url_log
  urlLog,        \* rows of url_log
  protocols,     \* protocols.data: the counts in the text of a session
  popularity,    \* url_popularity.count of a url, a user and a month
  users,         \* rows of the table `users`
  month,         \* of CURDATE()
  periods,       \* aggregations to come
  pc,            \* where Aggregate() is
  uids,          \* users with a uid in userUids
  left,          \* what the running loop has not treated
  protoLogs,     \* proto_logs
  texts          \* the texts that are to be written, by session

dataVars == <<logged, urlLog, protocols, popularity, users, month>>
localVars == <<periods, pc, uids, left, protoLogs, texts>>
vars == <<setting, dataVars, localVars>>

Nothing == [p \in Pages |-> 0]

\* The text of a session, where there is one.
TextOf(s) == IF protocols[s] = NoProtocol THEN Nothing ELSE protocols[s]

PagesOf(k) == {p \in Pages : setting.keyOf[p] = k}
CountOfKey(t, k) == Sum(PagesOf(k), t)

Months == 1..MaxMonths

TypeOK ==
  /\ setting \in Settings
  /\ {logged, urlLog} \subseteq [Sessions -> [Pages -> 0..MaxResponses]]
  /\ DOMAIN protocols = Sessions
  /\ \A s \in Sessions : protocols[s] = NoProtocol \/ protocols[s] \in Text
  /\ popularity \in [Urls \X Users \X Months -> Nat]
  /\ users \in SUBSET Users
  /\ month \in Months
  /\ periods \in 0..MaxAggregations
  /\ pc \in {"sleep", "parse", "erase", "write", "popularity"}
  /\ uids \in SUBSET Users
  /\ left \in SUBSET Sessions \/ left \in SUBSET (Sessions \X Pages)
  /\ DOMAIN protoLogs = Keys
  /\ \A k \in Keys : protoLogs[k] = NoItem \/ protoLogs[k] \in Item
  /\ texts \in [Sessions -> Text]

Init ==
  /\ setting \in Settings
  /\ logged = [s \in Sessions |-> Nothing]
  /\ urlLog = [s \in Sessions |-> Nothing]
  /\ protocols = [s \in Sessions |-> NoProtocol]
  /\ popularity = [x \in Urls \X Users \X Months |-> 0]
  /\ users = Users
  /\ month = 1
  /\ periods = MaxAggregations
  /\ pc = "sleep"
  /\ uids = {}
  /\ left = {}
  /\ protoLogs = [k \in Keys |-> NoItem]
  /\ texts = [s \in Sessions |-> Nothing]

-----------------------------------------------------------------------------
(* The others *)

\* FlushCollected, in the same monitor.
Log(s, p) ==
  /\ pc = "sleep"
  /\ Sum(Pages, logged[s]) < MaxResponses
  /\ logged' = [logged EXCEPT ![s][p] = @ + 1]
  /\ urlLog' = [urlLog EXCEPT ![s][p] = @ + 1]
  /\ UNCHANGED <<protocols, popularity, users, month, localVars>>

DeleteUser(u) ==
  /\ u \in setting.deletable \cap users
  /\ users' = users \ {u}
  /\ UNCHANGED <<logged, urlLog, protocols, popularity, month, localVars>>

MonthPasses ==
  /\ month < MaxMonths
  /\ month' = month + 1
  /\ UNCHANGED <<logged, urlLog, protocols, popularity, users, localVars>>

-----------------------------------------------------------------------------
(* Aggregate *)

LogRows == {x \in Sessions \X Pages : urlLog[x[1]][x[2]] > 0}
LogSessions == {x[1] : x \in LogRows}

\* The select, DefineUsersUids and the first loop of makeProtocols.
AggregateSelect ==
  /\ pc = "sleep"
  /\ periods > 0
  /\ periods' = periods - 1
  /\ uids' = users \cap {UserOf[s] : s \in LogSessions}
  /\ texts' = urlLog
  /\ protoLogs' = [k \in Keys |-> NoItem]
  /\ left' = LogSessions
  /\ pc' = IF setting.merging THEN "parse" ELSE "write"
  /\ UNCHANGED dataVars

\* parseAppendProtocolLog: the item of a key belongs to the session, and shows
\* the page, it was first made of.
Append(P, s, t, first) ==
  [k \in Keys |->
    LET n == CountOfKey(t, k)
    IN  IF n = 0 THEN P[k]
        ELSE IF P[k] = NoItem THEN [sid |-> s, page |-> first[k], count |-> n]
        ELSE [P[k] EXCEPT !.count = @ + n]]

\* Mutant: the text that is in the table is not read.
MergedNewOnly(P, s, first) == Append(P, s, texts[s], first)

\* The new text of a session, and then the one that is in the table.
Merged(P, s, first) == Append(Append(P, s, texts[s], first), s, TextOf(s), first)

\* The sessions are taken in the order of a HashMap.
Parse(s) ==
  /\ pc = "parse"
  /\ s \in left
  /\ \E first \in [Keys -> Pages] :
       /\ \A k \in Keys :
            LET new == {p \in PagesOf(k) : texts[s][p] > 0}
                old == {p \in PagesOf(k) : TextOf(s)[p] > 0}
            IN  first[k] \in IF new # {} THEN new ELSE IF old # {} THEN old ELSE Pages
       /\ protoLogs' = Merged(protoLogs, s, first)
  /\ left' = left \ {s}
  /\ UNCHANGED <<dataVars, periods, pc, uids, texts>>

ItemsOf(s) == {k \in Keys : protoLogs[k] # NoItem /\ protoLogs[k].sid = s}
Owners == {s \in Sessions : ItemsOf(s) # {}}

\* protocols.clear(), and an item for each entry of proto_logs.
Regroup ==
  /\ pc = "parse"
  /\ left = {}
  /\ texts' = [s \in Sessions |-> [p \in Pages |->
                 Sum({k \in ItemsOf(s) : protoLogs[k].page = p},
                     [k \in ItemsOf(s) |-> protoLogs[k].count])]]
  /\ left' = Owners
  /\ pc' = "erase"
  /\ UNCHANGED <<dataVars, periods, uids, protoLogs>>

\* Mutants: the text stays; it becomes null.
EraseNothing(s) == TextOf(s)
EraseToNull(s) == NoItem

Erased(s) == Nothing

\* data='' for the sessions that own an item; an update without a row changes
\* nothing.
Erase ==
  /\ pc = "erase"
  /\ protocols' = [s \in Sessions |->
       IF s \in left /\ protocols[s] # NoProtocol THEN Erased(s) ELSE protocols[s]]
  /\ pc' = "write"
  /\ UNCHANGED <<logged, urlLog, popularity, users, month, periods, uids, left,
                 protoLogs, texts>>

\* UpdateProtocols
Write ==
  /\ pc = "write"
  /\ protocols' = [s \in Sessions |->
       IF s \in left THEN [p \in Pages |-> TextOf(s)[p] + texts[s][p]]
                     ELSE protocols[s]]
  /\ left' = LogRows
  /\ pc' = "popularity"
  /\ UNCHANGED <<logged, urlLog, popularity, users, month, periods, uids,
                 protoLogs, texts>>

\* Mutant: the count of the last aggregation replaces the others.
RatedLast(count, n) == n

Rated(count, n) == count + n

\* UpdatePopularity, one row: whether there is a row is asked for this month,
\* but the update is one of the rows of all months.
UpdatePopularity(s, p) ==
  LET url == UrlOf[p]
      user == UserOf[s]
      n == urlLog[s][p]
      known == popularity[<<url, user, month>>] > 0
      row(m) == <<url, user, m>>
  IN  /\ pc = "popularity"
      /\ <<s, p>> \in left
      /\ user \in uids
      /\ popularity' = [x \in Urls \X Users \X Months |->
           IF known /\ popularity[x] > 0 /\ \E m \in Months : x = row(m)
             THEN Rated(popularity[x], n)
           ELSE IF ~known /\ x = row(month) THEN n
           ELSE popularity[x]]
      /\ left' = left \ {<<s, p>>}
      /\ UNCHANGED <<logged, urlLog, protocols, users, month, periods, pc, uids,
                     protoLogs, texts>>

Sleep ==
  /\ pc' = "sleep"
  /\ uids' = {}
  /\ left' = {}
  /\ protoLogs' = [k \in Keys |-> NoItem]
  /\ texts' = [s \in Sessions |-> Nothing]
  /\ UNCHANGED periods

\* A user who is deleted has the uid null: the loop throws, the protocols are
\* written and url_log stays.
UidIsNull ==
  /\ pc = "popularity"
  /\ \E x \in left : UserOf[x[1]] \notin uids
  /\ Sleep
  /\ UNCHANGED dataVars

AggregateDelete ==
  /\ pc = "popularity"
  /\ left = {}
  /\ urlLog' = [s \in Sessions |-> Nothing]
  /\ Sleep
  /\ UNCHANGED <<logged, protocols, popularity, users, month>>

Aggregate ==
  \/ AggregateSelect
  \/ \E s \in Sessions : Parse(s)
  \/ Regroup \/ Erase \/ Write
  \/ \E s \in Sessions, p \in Pages : UpdatePopularity(s, p)
  \/ UidIsNull \/ AggregateDelete

Step ==
  \/ Aggregate
  \/ \E s \in Sessions, p \in Pages : Log(s, p)
  \/ \E u \in Users : DeleteUser(u)
  \/ MonthPasses

Next == Step /\ UNCHANGED setting

Spec == Init /\ [][Next]_vars

-----------------------------------------------------------------------------
(* Properties *)

\* What a complete aggregation has taken from url_log.
Aggregated(s, p) == logged[s][p] - urlLog[s][p]

\* Items of several sessions merge, and only the texts of those that keep one
\* are erased before they are written: still no response is missing in the
\* protocols taken together, also if aggregations are cut short by users who
\* were deleted.
ProtocolsComplete ==
  pc = "sleep" =>
    \A k \in Keys :
      Sum(Sessions, [s \in Sessions |-> CountOfKey(TextOf(s), k)])
        >= Sum(Sessions, [s \in Sessions |->
                            CountOfKey([p \in Pages |-> Aggregated(s, p)], k)])

\* A page whose hash code no other session has is counted exactly, and in the
\* protocol of its session alone, however the other pages of that session are
\* merged with those of others; and every page is when protocols are not
\* merged.  (Pages that two sessions have do get into one protocol, and are
\* counted again later.)
OwnPagesExact ==
  pc = "sleep" /\ users = Users =>
    \A k \in Keys, s \in Sessions :
      (\/ ~setting.merging
       \/ \A t \in Sessions \ {s} : CountOfKey(logged[t], k) = 0)
        => /\ CountOfKey(TextOf(s), k)
                = CountOfKey([p \in Pages |-> Aggregated(s, p)], k)
           /\ setting.merging =>
                \A t \in Sessions \ {s} : CountOfKey(TextOf(t), k) = 0

\* The rating of a url has every response, whenever the month changes, and is
\* exact in the first month.  (Later the rows of past months grow with the
\* current one, so that the sum the web site shows is too large.)
RatingComplete ==
  pc = "sleep" /\ users = Users =>
    \A url \in Urls, u \in Users :
      LET mine == {x \in Sessions \X Pages : UserOf[x[1]] = u /\ UrlOf[x[2]] = url}
          rating == Sum(Months, [m \in Months |-> popularity[<<url, u, m>>]])
          visits == Sum(mine, [x \in mine |-> Aggregated(x[1], x[2])])
      IN  rating >= visits /\ (month = 1 => rating = visits)

=============================================================================
