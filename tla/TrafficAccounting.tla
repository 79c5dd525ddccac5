-------------------------- MODULE TrafficAccounting --------------------------
(***************************************************************************)
(* The accounting pipeline of CADBiS_proxy: PreCollector threads and the   *)
(* Collector fill url_log, the Aggregator empties it into the tables that  *)
(* the reports and the traffic protocols are made of, the Reconfigurer     *)
(* replaces the database connection under both, and the RADIUS side opens  *)
(* and closes the sessions the traffic belongs to.                         *)
(***************************************************************************)
EXTENDS Collector, Aggregator

vars == <<cause, urlLog, wLock, checked, dbVars, colVars, aggVars>>

Init ==
  /\ cause = [s \in Sessions |-> "none"]
  /\ urlLog = NoRows
  /\ wLock = "free"
  /\ DBInit
  /\ ColInit
  /\ AggInit

Radius ==
  /\ \E s \in Sessions : OpenSession(s) \/ CloseSession(s)
  /\ UNCHANGED <<urlLog, wLock, checked, dbVars, colVars, aggVars>>

Administrator ==
  /\ \E u \in Users : DeleteUser(u)
  /\ UNCHANGED <<cause, dbVars, colVars>>

Reconfigurer ==
  /\ Reconfigure
  /\ UNCHANGED <<cause, urlLog, wLock, checked, colVars, aggVars>>

CollectorStep == CollectorNext /\ UNCHANGED <<cause, dbVars, aggVars>>

AggregatorStep == AggregatorNext /\ UNCHANGED <<cause, dbVars, colVars>>

Next ==
  \/ Radius
  \/ Administrator
  \/ Reconfigurer
  \/ CollectorStep
  \/ AggregatorStep

Spec == Init /\ [][Next]_vars


(***************************************************************************)
(* Fairness.  Daemons wake up (sleep(delay) returns) and a Reconnect that  *)
(* has begun ends (the JDBC driver connects or throws): weak fairness.  A  *)
(* thread that waits for wLock, or inside it for dcLock, competes with the *)
(* others each time the monitor is released; the daemons sleep minutes     *)
(* between two uses and there is one PreCollector per response, so nobody  *)
(* waits for ever: strong fairness.                                        *)
(***************************************************************************)
InsideCollector ==
  /\ wLock # "free"
  /\ \/ RefreshSessions
     \/ FlushCollected
     \/ RefreshInfoExit
     \/ \E r \in Records : CollectAdd(r)
  /\ UNCHANGED <<cause, dbVars, aggVars>>

InsideAggregator == aggPc \notin {"sleep", "wait"} /\ AggregatorStep

Fairness ==
  /\ WF_vars(CollectorWakes /\ UNCHANGED <<cause, dbVars, aggVars>>)
  /\ WF_vars(AggregatorWakes /\ UNCHANGED <<cause, dbVars, colVars>>)
  /\ WF_vars(Reconfigurer /\ reconf # "idle")
  /\ SF_vars(InsideCollector \/ InsideAggregator)
  /\ SF_vars(FlushEnter /\ UNCHANGED <<cause, dbVars, aggVars>>)
  /\ SF_vars(RefreshInfoEnter /\ UNCHANGED <<cause, dbVars, aggVars>>)
  /\ SF_vars(AggregateEnter /\ UNCHANGED <<cause, dbVars, colVars>>)
  /\ \A r \in Records :
       SF_vars(CollectEnter(r) /\ UNCHANGED <<cause, dbVars, aggVars>>)

FairSpec == Spec /\ Fairness

-----------------------------------------------------------------------------
(* Properties *)

TypeOK ==
  /\ DBTypeOK
  /\ SharedTypeOK
  /\ ColTypeOK
  /\ AggTypeOK

\* What is collected in memory is where the next flush looks for it, and only
\* the session that owns the address collects: neither a refresh by another
\* thread nor a statement that fails in the middle of one leaves traffic in an
\* Action that the list no longer holds (Collector._refreshSessions, Collect).
\* A Collect during prerun(), which refreshes without the monitor, may do so:
\* it lasts until somebody makes the objects anew inside the monitor, with the
\* first flush at the latest.
CollectedReachable ==
  ~mixed =>
    /\ \A i \in Ips : actionsOfIps[i] # Unlisted
    /\ \A s \in Sessions : collected[s] # {} =>
         s \in actions /\ actionsOfIps[IpOf[s]] = s

\* A session is never charged with the traffic of another address, in memory
\* or in url_log, however the tables are replaced between the moment a thread
\* asks for its session and the flush (Collector.Collect, FlushCollected).
AddressKept ==
  \A s \in Sessions : \A r \in Records :
    r \in collected[s] \/ urlLog[s][r] > 0 => IpOf[s] = RecIp[r]

\* url_log holds a response at most once, in all sessions together, although
\* inserts are lost and the daemon may die before it has cleared what it has
\* inserted (Collector.FlushCollected).
LoggedAtMostOnce ==
  \A r \in Records : \A s, t \in Sessions :
    /\ urlLog[s][r] <= 1
    /\ urlLog[s][r] > 0 /\ urlLog[t][r] > 0 => s = t

\* No table of the reports counts a response twice (Aggregator.Aggregate
\* deletes url_log under the lock it has read it under).
BilledAtMostOnce ==
  \A t \in Tables : \A r \in Records : counted[t][r] <= 1

\* A row leaves url_log only when every table of the reports has it: nothing
\* that a flush inserts while an aggregation runs is deleted with the rows
\* the aggregation has read (Aggregator.Aggregate).
LogKeptUntilBilled ==
  [][\A s \in Sessions : \A r \in Records :
       urlLog[s][r] > 0 /\ urlLog'[s][r] = 0 =>
         /\ counted["protocols"][r] > 0
         /\ counted["url_popularity"][r] > 0
         /\ r \in Located => counted["ctry_popularity"][r] > 0]_vars

\* A thread that enters the monitor leaves it, also when a statement of it
\* throws: the connection that disappears under a daemon never blocks the
\* others (synchronized blocks of Collector and Aggregator).
MonitorIsLeft == []<>(wLock = "free")

\* A response that is in url_log before an aggregation begins gets into the
\* protocols, if the connection stays from then on: whatever aggregations have
\* failed before, in whatever place, and whichever threads have died of it, the
\* rows that are left are billed (Aggregator.Aggregate).
LoggedIsBilled ==
  \A r \in Records :
    (/\ \E s \in Sessions : urlLog[s][r] > 0
     /\ aggPc \in {"sleep", "wait"}
     /\ [](conn = "open" /\ reconf = "idle"))
      ~> counted["protocols"][r] > 0

\* A thread that calls Collect comes back from it, or ends with an exception:
\* no PreCollector waits for ever behind the two daemons.
CollectReturns ==
  \A r \in Records : pre[r] = "wait" ~> pre[r] \in {"done", "dead"}

\* Traffic leaves the memory through url_log and no other way
\* (Collector.FlushCollected: "Flush all collected data").
CollectedIsFlushed ==
  [][\A s \in Sessions : \A r \in collected[s] :
       r \notin collected'[s] => urlLog[s][r] > 0]_vars

-----------------------------------------------------------------------------
(* The pipeline implements the ledger *)

ledgerPhase == [r \in Records |->
  IF \E t \in Tables : counted[t][r] > 1 THEN "billed twice"
  ELSE IF counted["protocols"][r] = 1 THEN "billed"
  ELSE IF \E s \in Sessions : urlLog[s][r] > 0 THEN "logged"
  ELSE IF \E s \in Sessions : r \in collected[s] THEN "held"
  ELSE IF pre[r] \in {"done", "dead"} THEN "lost"
  ELSE "pending"]

ledgerAccount == [r \in Records |->
  IF ledgerPhase[r] \in {"held", "logged"}
    THEN {s \in Sessions : r \in collected[s] \/ urlLog[s][r] > 0}
    ELSE {}]

Ledger == INSTANCE TrafficLedger
            WITH phase <- ledgerPhase, account <- ledgerAccount

\* Every response is billed at most once and to the session it was held for,
\* and is lost only from memory.
LedgerSpec == Ledger!Spec

=============================================================================
