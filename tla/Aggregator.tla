----------------------------- MODULE Aggregator -----------------------------
(***************************************************************************)
(* cadbis.proxy.Aggregator, the control of Aggregate(): every              *)
(* aggregator_period it reads url_log grouped by session and url, adds the *)
(* rows to three tables and deletes url_log, inside Collector.wLock.  The  *)
(* three tables are abstracted to how often a record is counted in each;   *)
(* what happens to the text of a protocol is the module ReportTables.      *)
(***************************************************************************)
EXTENDS TrafficState

CONSTANTS
  DeletableUsers,  \* users an administrator may delete (BILL->DeleteUser)
  Located          \* records whose host address lies in a range of ip2country

ASSUME AggregatorAssumption ==
  /\ DeletableUsers \subseteq Users
  /\ Located \subseteq Records

VARIABLES
  aggPc,       \* the Aggregator daemon
  logs,        \* the list `logs`: what the select returned
  uids,        \* users with a uid that is not null in userUids
  left,        \* rows the running loop has not treated
  counted,     \* counted[t][r]: how often table t counts record r
  users        \* rows of the table `users`

aggVars == <<aggPc, logs, uids, left, counted, users>>

Tables == {"protocols", "url_popularity", "ctry_popularity"}
Loops == {"uids"} \cup Tables
AggPoints == {"sleep", "wait", "enter", "select", "delete"} \cup Loops

Counts == [Sessions -> [Records -> 0..CountCap]]
NoRows == [s \in Sessions |-> [r \in Records |-> 0]]
Rows(l) == {x \in Sessions \X Records : l[x[1]][x[2]] > 0}

AggTypeOK ==
  /\ aggPc \in AggPoints
  /\ logs \in Counts
  /\ uids \in SUBSET Users
  /\ left \in SUBSET (Sessions \X Records)
  /\ counted \in [Tables -> [Records -> 0..CountCap]]
  /\ users \in SUBSET Users

AggInit ==
  /\ aggPc = "sleep"
  /\ logs = NoRows
  /\ uids = {}
  /\ left = {}
  /\ counted = [t \in Tables |-> [r \in Records |-> 0]]
  /\ users = Users

-----------------------------------------------------------------------------
DeleteUser(u) ==
  /\ u \in DeletableUsers \cap users
  /\ users' = users \ {u}
  /\ UNCHANGED <<aggPc, logs, uids, left, counted, urlLog, wLock, checked>>

AggregatorWakes ==
  /\ aggPc = "sleep"
  /\ aggPc' = "wait"
  /\ UNCHANGED <<logs, uids, left, counted, users, urlLog, wLock, checked>>

AggregateEnter ==
  /\ aggPc = "wait"
  /\ Acquire("aggregator")
  /\ aggPc' = "enter"
  /\ UNCHANGED <<logs, uids, left, counted, users, urlLog, checked>>

AggregateNewDAO ==
  /\ aggPc = "enter"
  /\ NewDAO
  /\ aggPc' = "select"
  /\ UNCHANGED <<logs, uids, left, counted, users, urlLog, wLock, checked>>

SqlCheckInAggregate ==
  /\ \/ aggPc \in {"select", "delete"}
     \/ aggPc \in {"uids", "protocols"} /\ left # {}
     \/ /\ aggPc \in {"url_popularity", "ctry_popularity"}
        /\ \E x \in left : UserOf[x[1]] \in uids
  /\ SqlCheck
  /\ UNCHANGED <<aggVars, urlLog, wLock>>

\* A select that is not executed returns an empty list, never null: the test
\* `logs != null` always passes.
AggregateSelect ==
  /\ aggPc = "select"
  /\ \/ SqlExecuted /\ logs' = urlLog
     \/ SqlIgnored /\ logs' = NoRows
  /\ left' = Rows(logs')
  /\ aggPc' = "uids"
  /\ checked' = FALSE
  /\ UNCHANGED <<uids, counted, users, urlLog, wLock>>

\* One lookup per login; a deleted user and a lost query both give null.
DefineUsersUids(u) ==
  /\ aggPc = "uids"
  /\ \E x \in left : UserOf[x[1]] = u
  /\ \/ SqlExecuted /\ uids' = uids \cup ({u} \cap users)
     \/ SqlIgnored /\ UNCHANGED uids
  /\ left' = {x \in left : UserOf[x[1]] # u}
  /\ checked' = FALSE
  /\ UNCHANGED <<aggPc, logs, counted, users, urlLog, wLock>>

\* Count the records R of session s, as often as the list has them, in table t.
Count(t, s, R) ==
  counted' = [counted EXCEPT ![t] =
    [r \in Records |-> IF r \in R THEN Plus(@[r], logs[s][r]) ELSE @[r]]]

\* One row of `protocols` per session.
UpdateProtocols(s) ==
  LET mine == {r \in Records : <<s, r>> \in left}
  IN  /\ aggPc = "protocols"
      /\ mine # {}
      /\ \/ SqlExecuted /\ Count("protocols", s, mine)
         \/ SqlIgnored /\ UNCHANGED counted
      /\ left' = left \ ({s} \X mine)
      /\ checked' = FALSE
      /\ UNCHANGED <<aggPc, logs, uids, users, urlLog, wLock>>

\* UpdatePopularity, one row of the list.
UpdatePopularity(s, r) ==
  /\ aggPc = "url_popularity"
  /\ <<s, r>> \in left
  /\ UserOf[s] \in uids
  /\ \/ SqlExecuted /\ Count("url_popularity", s, {r})
     \/ SqlIgnored /\ UNCHANGED counted
  /\ left' = left \ {<<s, r>>}
  /\ checked' = FALSE
  /\ UNCHANGED <<aggPc, logs, uids, users, urlLog, wLock>>

\* UpdateCtryPopularity, one row of the list.
UpdateCtryPopularity(s, r) ==
  /\ aggPc = "ctry_popularity"
  /\ <<s, r>> \in left
  /\ UserOf[s] \in uids
  /\ \/ SqlExecuted /\ r \in Located /\ Count("ctry_popularity", s, {r})
     \/ SqlExecuted /\ r \notin Located /\ UNCHANGED counted
     \/ SqlIgnored /\ UNCHANGED counted
  /\ left' = left \ {<<s, r>>}
  /\ checked' = FALSE
  /\ UNCHANGED <<aggPc, logs, uids, users, urlLog, wLock>>

\* Mutants: a table is forgotten.
AfterNoCtry == [uids |-> "protocols", protocols |-> "url_popularity",
                url_popularity |-> "delete", ctry_popularity |-> "delete"]

AfterNoProtocols ==
  [uids |-> "url_popularity", protocols |-> "url_popularity",
   url_popularity |-> "ctry_popularity", ctry_popularity |-> "delete"]

After == [uids |-> "protocols", protocols |-> "url_popularity",
          url_popularity |-> "ctry_popularity", ctry_popularity |-> "delete"]

\* makeProtocols creates a DAO of its own before the second loop.
LoopEnds ==
  /\ aggPc \in Loops
  /\ aggPc = "uids" => NewDAO
  /\ left = {}
  /\ aggPc' = After[aggPc]
  /\ left' = IF aggPc' = "delete" THEN {} ELSE Rows(logs)
  /\ UNCHANGED <<logs, uids, counted, users, urlLog, wLock, checked>>

AggregateExit ==
  /\ Release("aggregator")
  /\ aggPc' = "sleep"
  /\ logs' = NoRows
  /\ uids' = {}
  /\ left' = {}
  /\ checked' = FALSE
  /\ UNCHANGED <<counted, users>>

\* Mutant: the rows stay.
AggregateDeleteNothing ==
  /\ aggPc = "delete"
  /\ SqlExecuted \/ SqlIgnored
  /\ AggregateExit
  /\ UNCHANGED urlLog

\* "delete from url_log", whatever the select has returned.
AggregateDelete ==
  /\ aggPc = "delete"
  /\ \/ SqlExecuted /\ urlLog' = NoRows
     \/ SqlIgnored /\ UNCHANGED urlLog
  /\ AggregateExit

\* Aggregate catches every exception, logs it and leaves url_log as it is: a
\* null connection, or the null uid of `int uid = userUids.get(user)`.
AggregateThrows ==
  /\ aggPc \in {"select", "delete"} \cup Loops
  /\ \/ SqlThrows
     \/ /\ aggPc \in {"url_popularity", "ctry_popularity"}
        /\ ~checked
        /\ \E x \in left : UserOf[x[1]] \notin uids
  /\ AggregateExit
  /\ UNCHANGED urlLog

AggregatorNext ==
  \/ AggregatorWakes
  \/ AggregateEnter
  \/ AggregateNewDAO
  \/ SqlCheckInAggregate
  \/ AggregateSelect
  \/ \E u \in Users : DefineUsersUids(u)
  \/ \E s \in Sessions : UpdateProtocols(s)
  \/ \E s \in Sessions, r \in Records :
       UpdatePopularity(s, r) \/ UpdateCtryPopularity(s, r)
  \/ LoopEnds
  \/ AggregateDelete
  \/ AggregateThrows

=============================================================================
