-------------------------- MODULE TrafficInvariants --------------------------
(***************************************************************************)
(* The inductive invariant of TrafficAccounting.  Its first part holds     *)
(* whatever happens to the database; the second part, StableInv, needs a   *)
(* connection that is not replaced and users that are not deleted.         *)
(***************************************************************************)
EXTENDS TrafficAccounting

AggInside == AggPoints \ {"sleep", "wait"}

\* Who is inside the monitor, read off the program counters.
HolderInv ==
  /\ (wLock = "collector") <=> (colPc \in {"flushing", "refreshing"})
  /\ \A r \in Records : (wLock = r) <=> (pre[r] = "collect")
  /\ (wLock = "aggregator") <=> (aggPc \in AggInside)

\* What the holder has done of a refresh or of a loop over the list.
CursorInv ==
  /\ refresh # "none" => wLock \notin {"free", "aggregator"}
                         /\ colPc # "flushing"
  /\ refresh # "none" => \A s \in Sessions : collected[s] = {}
  /\ cur # NoSession =>
       /\ colPc = "flushing" \/ refresh \in {"deniedDAO", "denied"}
       /\ cur \in rest
  /\ rest # {} =>
       colPc = "flushing"
         \/ refresh \in {"userDAOs", "stats", "deniedDAO", "denied"}
  /\ rest \subseteq actions
  /\ batch # {} => colPc = "flushing" /\ cur # NoSession
  /\ cur # NoSession => batch \subseteq collected[cur]

\* Where prerun() is, and which of the two refreshes the other has met.
PrerunInv ==
  /\ todo # {} => colPc \in {"put", "fill"}
  /\ todo \subseteq actions
  /\ "prerun" \in torn => colPc \in {"put", "fill"}
  /\ "lock" \in torn => refresh = "stats"
  /\ mixed => colPc \in PrerunPoints \cup {"flush", "flushing", "dead"}

\* Without a Collect during prerun() each refresh is alone with its tables.
AloneInv ==
  ~mixed =>
    /\ torn = {}
    /\ refresh \in {"actionDAO", "select", "userDAOs"} =>
         \A i \in Ips : actionsOfIps[i] = NoSession
    /\ refresh = "stats" => rest # {}
    /\ refresh \in {"deniedDAO", "denied"} => cur \in rest
    /\ colPc \in PrerunPoints =>
         /\ refresh = "none"
         /\ \A s \in Sessions : collected[s] = {}
         /\ \A r \in Records : pre[r] # "collect"
    /\ colPc = "first" => \A i \in Ips : actionsOfIps[i] = NoSession

\* Whatever the map has of the list has the address.
TablesInv ==
  \A i \in Ips : actionsOfIps[i] \notin {NoSession, Unlisted} =>
    actionsOfIps[i] \in actions /\ IpOf[actionsOfIps[i]] = i

\* A record is nowhere before Collect has returned, and in one session then.
FreshInv ==
  \A r \in Records :
    /\ pre[r] # "done" =>
         \A s \in Sessions : r \notin collected[s] /\ urlLog[s][r] = 0
    /\ \A s, t \in Sessions : r \in collected[s] /\ r \in collected[t] => s = t

\* A record that is in memory and in url_log is not inserted once more: the
\* flush has passed it, or the daemon is dead.
PendingInv ==
  \A r \in Records : \A s, t \in Sessions :
    r \in collected[s] /\ urlLog[t][r] > 0 =>
      \/ colPc = "dead"
      \/ colPc = "flushing" /\ cur = s /\ r \notin batch

TrafficInv ==
  /\ TypeOK
  /\ HolderInv
  /\ CursorInv
  /\ PrerunInv
  /\ AloneInv
  /\ TablesInv
  /\ CollectedReachable
  /\ AddressKept
  /\ FreshInv
  /\ PendingInv
  /\ LoggedAtMostOnce

-----------------------------------------------------------------------------
(* With a connection that stays and users that stay *)

Stable == ~DbReconnect /\ DeletableUsers = {}

\* No statement fails, so that the daemon dies in prerun(), if at all.
DBInv ==
  /\ conn = "open"
  /\ reconf = "idle"
  /\ users = Users
  /\ colPc \in PrerunPoints \cup {"dead"} => urlLog = NoRows

Reading == Loops \cup {"delete"}

\* The list is url_log as it is, and every user of it is known in time.
LogsInv ==
  /\ aggPc \in Reading => logs = urlLog
  /\ left \subseteq Rows(logs)
  /\ aggPc \notin Loops => left = {}
  /\ aggPc \in Reading =>
       \A x \in Rows(logs) :
         UserOf[x[1]] \in uids \/ (aggPc = "uids" /\ x \in left)

Later == [protocols |-> {"url_popularity", "ctry_popularity", "delete"},
          url_popularity |-> {"ctry_popularity", "delete"},
          ctry_popularity |-> {"delete"}]

\* The loop over table t has passed the row x.
Passed(t, x) == aggPc \in Later[t] \/ (aggPc = t /\ x \notin left)

Counts1(t, r) == t = "ctry_popularity" => r \in Located

\* A table counts a record that is in url_log once if the loop has passed it.
CountedInv ==
  /\ \A t \in Tables : \A s \in Sessions : \A r \in Records :
       urlLog[s][r] > 0 =>
         counted[t][r] = IF Passed(t, <<s, r>>) /\ Counts1(t, r) THEN 1 ELSE 0
  /\ \A t \in Tables : \A r \in Records : counted[t][r] > 0 =>
       pre[r] = "done" /\ \A s \in Sessions : r \notin collected[s]

StableInv ==
  /\ DBInv
  /\ LogsInv
  /\ CountedInv
  /\ BilledAtMostOnce

=============================================================================
