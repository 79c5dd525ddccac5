---------------------------- MODULE TrafficState ----------------------------
(***************************************************************************)
(* What the Collector and the Aggregator share: the monitor                *)
(* Collector.wLock, the table url_log, and the rows of `actions` that the  *)
(* RADIUS side writes.                                                     *)
(*                                                                         *)
(* A record is the traffic of one response, the arguments of one call of   *)
(* Collector.Collect; one PreCollector thread carries each record.         *)
(***************************************************************************)
EXTENDS Naturals, DBConnection

CONSTANTS
  Sessions,     \* rows of `actions`, by unique_id
  Ips,          \* addresses of users
  Users,        \* logins
  Records,      \* traffic records, one PreCollector thread each
  IpOf,         \* actions.ip
  UserOf,       \* actions.user
  RecIp,        \* the address the response of a record was sent to
  NoSession,    \* null, where a session is expected
  CountCap      \* bound: row counters saturate here

ASSUME TrafficAssumption ==
  /\ IpOf \in [Sessions -> Ips]
  /\ UserOf \in [Sessions -> Users]
  /\ RecIp \in [Records -> Ips]
  /\ NoSession \notin Sessions
  /\ CountCap \in Nat \ {0, 1}

ASSUME ThreadNames == Records \cap {"free", "collector", "aggregator"} = {}

VARIABLES
  cause,        \* actions.terminate_cause, "none" before the row exists
  urlLog,       \* urlLog[s][r]: rows of url_log with unique_id s for record r
  wLock         \* holder of the monitor

Threads == {"collector", "aggregator"} \cup Records

OnlineSessions == {s \in Sessions : cause[s] = "Online"}

\* Counters tell apart none, once and more often; CountCap bounds them.
Plus(m, n) == IF m + n > CountCap THEN CountCap ELSE m + n

SharedTypeOK ==
  /\ cause \in [Sessions -> {"none", "Online", "Closed"}]
  /\ urlLog \in [Sessions -> [Records -> 0..CountCap]]
  /\ wLock \in Threads \cup {"free"}

-----------------------------------------------------------------------------
(* The RADIUS side, as the proxy sees it *)

OpenSession(s) ==
  /\ cause[s] = "none"
  /\ cause' = [cause EXCEPT ![s] = "Online"]

CloseSession(s) ==
  /\ cause[s] = "Online"
  /\ cause' = [cause EXCEPT ![s] = "Closed"]

-----------------------------------------------------------------------------
Acquire(t) == wLock = "free" /\ wLock' = t

Release(t) == wLock = t /\ wLock' = "free"

=============================================================================
