------------------------------ MODULE Collector ------------------------------
(***************************************************************************)
(* cadbis.proxy.Collector: the tables of the users on line, the traffic    *)
(* collected for each of them in memory, and the daemon that every         *)
(* collector_period writes it to url_log (FlushCollected) and reads the    *)
(* sessions again (RefreshInfo).  PreCollector threads, one per response,  *)
(* call Collect.  Everything here runs inside wLock; what it waits for is  *)
(* the database, so each statement is a step of its own.                   *)
(*                                                                         *)
(* The exception is prerun(), the first thing the daemon does: it runs the *)
(* same refresh without the monitor, while a PreCollector may run it       *)
(* inside.  Either goes on in the list and the map the other has put in    *)
(* place of its own, with the index it has, or with what it has read of    *)
(* them before.                                                            *)
(*                                                                         *)
(* The Action objects of the list are named by their session: a new list   *)
(* has new objects, which is collected' = {} for every session.  What the  *)
(* map holds of another list is Unlisted; nobody flushes what an Action of *)
(* another list collects, so that it is not kept here.                     *)
(***************************************************************************)
EXTENDS TrafficState

CONSTANT Unlisted   \* an Action that is not in the list `actions`

ASSUME CollectorAssumption == Unlisted \notin Sessions \cup {NoSession}

VARIABLES
  actions,        \* sessions of the list Collector.actions
  actionsOfIps,   \* the map Collector.actionsOfIps, NoSession where no key
  collected,      \* Action.CollectedUrls
  colPc,          \* the Collector daemon
  pre,            \* the PreCollector threads
  refresh,        \* where the holder of wLock is inside _refreshSessions
  rest,           \* sessions the running loop over `actions` has not reached
  cur,            \* the session it is at
  batch,          \* CollectedUrls of cur that FlushCollected has not inserted
  seen,           \* prerun() has tested the connection for its statement
  todo,           \* what prerun() will find in `actions` after its index
  torn,           \* the refreshes that may hold fields the other has replaced
  mixed           \* history: a Collect has run during prerun(), and nobody has
                  \* made the objects anew inside the monitor since

tableVars == <<actions, actionsOfIps, collected>>
loopVars == <<rest, cur, batch>>
prerunVars == <<seen, todo, torn>>
colVars == <<tableVars, loopVars, prerunVars, mixed, colPc, pre, refresh>>

PrerunPoints == {"create", "first", "put", "fill"}
ColPoints == PrerunPoints \cup
  {"sleep", "flush", "flushing", "refresh", "refreshing", "dead"}
PrePoints == {"idle", "wait", "collect", "done", "dead"}
RefreshPoints ==
  {"none", "actionDAO", "select", "userDAOs", "stats", "deniedDAO", "denied"}

ColTypeOK ==
  /\ actions \in SUBSET Sessions
  /\ actionsOfIps \in [Ips -> Sessions \cup {NoSession, Unlisted}]
  /\ collected \in [Sessions -> SUBSET Records]
  /\ colPc \in ColPoints
  /\ pre \in [Records -> PrePoints]
  /\ refresh \in RefreshPoints
  /\ rest \in SUBSET Sessions
  /\ cur \in Sessions \cup {NoSession}
  /\ batch \in SUBSET Records
  /\ {seen, mixed} \subseteq BOOLEAN
  /\ todo \in SUBSET Sessions
  /\ torn \in SUBSET {"prerun", "lock"}

\* The objects of the constructor; prerun() is to come.
ColInit ==
  /\ actions = {}
  /\ actionsOfIps = [i \in Ips |-> NoSession]
  /\ collected = [s \in Sessions |-> {}]
  /\ colPc = "create"
  /\ pre = [r \in Records |-> "idle"]
  /\ refresh = "none"
  /\ rest = {} /\ cur = NoSession /\ batch = {}
  /\ seen = FALSE /\ todo = {} /\ torn = {} /\ mixed = FALSE

-----------------------------------------------------------------------------
(* createObjects and _refreshSessions, run by the holder of wLock *)

\* Mutants: the map is left null; the lists are cleared and the objects kept.
createObjectsNoMap ==
  /\ actions' = {}
  /\ actionsOfIps' = <<>>
  /\ collected' = [s \in Sessions |-> {}]

createObjectsKeepsUrls ==
  /\ actions' = {}
  /\ actionsOfIps' = [i \in Ips |-> NoSession]
  /\ UNCHANGED collected

createObjects ==
  /\ actions' = {}
  /\ actionsOfIps' = [i \in Ips |-> NoSession]
  /\ collected' = [s \in Sessions |-> {}]

\* The loop of prerun() goes on in a list that has taken the place of its own.
PrerunGoesOnIn(list) ==
  IF colPc \in {"put", "fill"}
    THEN todo' \in SUBSET list /\ torn' = torn \cup {"prerun"}
    ELSE UNCHANGED <<todo, torn>>

\* The same of the loop of the thread in the monitor.
LockGoesOnIn(list) ==
  IF refresh \in {"stats", "deniedDAO", "denied"}
    THEN /\ rest' \in SUBSET list
         /\ cur' = NoSession
         /\ torn' = IF refresh = "stats" THEN torn \cup {"lock"} ELSE torn
    ELSE /\ rest' = IF refresh = "userDAOs" THEN list ELSE rest
         /\ UNCHANGED <<cur, torn>>

\* The objects of a list that is replaced, while the map keeps them.
Outdated(map) == [i \in Ips |-> IF map[i] = NoSession THEN NoSession ELSE Unlisted]

RefreshBegin ==
  /\ createObjects
  /\ refresh' = "actionDAO"
  /\ PrerunGoesOnIn({})
  /\ mixed' = (colPc \in PrerunPoints)
  /\ UNCHANGED seen

RefreshNewDAO ==
  /\ NewDAO
  /\ \/ refresh = "actionDAO" /\ refresh' = "select"
     \/ refresh = "userDAOs" /\ refresh' = IF rest = {} THEN "none" ELSE "stats"
     \/ refresh = "deniedDAO" /\ refresh' = "denied"
  /\ UNCHANGED <<tableVars, loopVars, prerunVars, mixed, colPc, pre, urlLog,
                 wLock, checked>>

SqlCheckInRefresh ==
  /\ refresh \in {"select", "stats", "denied"}
  /\ SqlCheck
  /\ UNCHANGED <<colVars, urlLog, wLock>>

\* getActiveSessions: a statement that is not executed returns no session.
RefreshSelect ==
  /\ refresh = "select"
  /\ \/ SqlExecuted /\ actions' = OnlineSessions
     \/ SqlIgnored /\ actions' = {}
  /\ actionsOfIps' = Outdated(actionsOfIps)
  /\ rest' = actions'
  /\ PrerunGoesOnIn(actions')
  /\ refresh' = "userDAOs"
  /\ checked' = FALSE
  /\ UNCHANGED <<collected, cur, batch, seen, mixed, colPc, pre, urlLog, wLock>>

\* The queries of one user's statistics, then the user is in the tables,
\* found or not.
RefreshStats(s) ==
  /\ refresh = "stats"
  /\ s \in rest
  /\ SqlExecuted \/ SqlIgnored
  /\ actionsOfIps' = [actionsOfIps EXCEPT ![IpOf[s]] = s]
  /\ cur' = s
  /\ refresh' = "deniedDAO"
  /\ checked' = FALSE
  /\ torn' = torn \ {"lock"}
  /\ UNCHANGED <<actions, collected, rest, batch, seen, todo, mixed, colPc, pre,
                 urlLog, wLock>>

\* What is put was read from the list before, or put into the map before.
PutTorn(s) ==
  /\ cause[s] # "none"
  /\ \/ actionsOfIps' = [actionsOfIps EXCEPT ![IpOf[s]] = Unlisted]
     \/ UNCHANGED actionsOfIps

RefreshStatsTorn(s) ==
  /\ refresh = "stats"
  /\ "lock" \in torn
  /\ SqlExecuted \/ SqlIgnored
  /\ PutTorn(s)
  /\ refresh' = "deniedDAO"
  /\ checked' = FALSE
  /\ torn' = torn \ {"lock"}
  /\ UNCHANGED <<actions, collected, loopVars, seen, todo, mixed, colPc, pre,
                 urlLog, wLock>>

\* The denied urls of the user; who finds an Action at its index goes on.
RefreshDenied ==
  /\ refresh = "denied"
  /\ actions # {}
  /\ SqlExecuted \/ SqlIgnored
  /\ rest' = rest \ {cur}
  /\ cur' = NoSession
  /\ refresh' = IF rest' = {} THEN "none" ELSE "stats"
  /\ checked' = FALSE
  /\ UNCHANGED <<tableVars, batch, prerunVars, mixed, colPc, pre, urlLog, wLock>>

\* The list is shorter now than the index.
RefreshEndsEarly ==
  /\ refresh = "stats"
  /\ rest = {}
  /\ ~checked
  /\ refresh' = "none"
  /\ torn' = torn \ {"lock"}
  /\ UNCHANGED <<tableVars, loopVars, seen, todo, mixed, colPc, pre, urlLog,
                 wLock, checked>>

\* Mutant: an explicit lock that the exception does not release.
DiesLocked ==
  \/ wLock = "collector" /\ colPc' = "dead" /\ UNCHANGED <<pre, wLock>>
  \/ \E r \in Records : /\ wLock = r
                        /\ pre' = [pre EXCEPT ![r] = "dead"]
                        /\ UNCHANGED <<colPc, wLock>>

\* The exception leaves the monitor and ends the thread: neither the daemon
\* nor a PreCollector catches it.
Dies ==
  \/ /\ Release("collector")
     /\ colPc' = "dead"
     /\ UNCHANGED pre
  \/ \E r \in Records :
       /\ Release(r)
       /\ pre' = [pre EXCEPT ![r] = "dead"]
       /\ UNCHANGED colPc

\* A statement throws, or actions.get(i) for the list of another refresh.
RefreshThrows ==
  /\ \/ refresh \in {"select", "stats", "denied"} /\ SqlThrows
     \/ refresh = "stats" /\ rest = {}
     \/ refresh \in {"deniedDAO", "denied"} /\ cur = NoSession
  /\ Dies
  /\ refresh' = "none"
  /\ rest' = {} /\ cur' = NoSession
  /\ torn' = torn \ {"lock"}
  /\ checked' = FALSE
  /\ UNCHANGED <<tableVars, batch, seen, todo, mixed, urlLog>>

RefreshSessions ==
  \/ RefreshNewDAO
  \/ SqlCheckInRefresh
  \/ RefreshSelect
  \/ \E s \in Sessions : RefreshStats(s) \/ RefreshStatsTorn(s)
  \/ RefreshDenied
  \/ RefreshEndsEarly
  \/ RefreshThrows

-----------------------------------------------------------------------------
(* prerun(): the same refresh, outside the monitor *)

PrerunCreate ==
  /\ colPc = "create"
  /\ createObjects
  /\ LockGoesOnIn({})
  /\ colPc' = "first"
  /\ UNCHANGED <<batch, seen, todo, mixed, pre, refresh, urlLog, wLock, checked>>

PrerunCheck ==
  /\ colPc \in {"first", "put", "fill"}
  /\ ~seen
  /\ conn # "null"
  /\ seen' = TRUE
  /\ UNCHANGED <<tableVars, loopVars, todo, torn, mixed, colPc, pre, refresh,
                 urlLog, wLock, checked>>

\* FlushCollected is next.
PrerunSelect ==
  /\ colPc = "first"
  /\ \/ Executed(seen) /\ actions' = OnlineSessions
     \/ Ignored(seen) /\ actions' = {}
  /\ actionsOfIps' = Outdated(actionsOfIps)
  /\ collected' = [s \in Sessions |-> {}]
  /\ LockGoesOnIn(actions')
  /\ todo' = actions'
  /\ colPc' = IF todo' = {} THEN "flush" ELSE "put"
  /\ seen' = FALSE
  /\ UNCHANGED <<batch, mixed, pre, refresh, urlLog, wLock, checked>>

PrerunPut(s) ==
  /\ colPc = "put"
  /\ Executed(seen) \/ Ignored(seen)
  /\ \/ /\ s \in todo
        /\ actionsOfIps' = [actionsOfIps EXCEPT ![IpOf[s]] = s]
        /\ todo' = todo \ {s}
     \/ /\ "prerun" \in torn
        /\ PutTorn(s)
        /\ UNCHANGED todo
  /\ torn' = torn \ {"prerun"}
  /\ colPc' = "fill"
  /\ seen' = FALSE
  /\ UNCHANGED <<actions, collected, loopVars, mixed, pre, refresh, urlLog, wLock,
                 checked>>

PrerunFill ==
  /\ colPc = "fill"
  /\ actions # {}
  /\ Executed(seen) \/ Ignored(seen)
  /\ colPc' = IF todo = {} THEN "flush" ELSE "put"
  /\ torn' = torn \ {"prerun"}
  /\ seen' = FALSE
  /\ UNCHANGED <<tableVars, loopVars, todo, mixed, pre, refresh, urlLog, wLock,
                 checked>>

\* The loop ends early, or the thread does.
PrerunEnds ==
  /\ \/ colPc = "put" /\ todo = {} /\ ~seen /\ colPc' = "flush"
     \/ /\ \/ colPc \in {"first", "put", "fill"} /\ Throws(seen)
           \/ colPc = "put" /\ todo = {}
           \/ colPc = "fill" /\ "prerun" \in torn
        /\ colPc' = "dead"
  /\ todo' = {} /\ seen' = FALSE
  /\ torn' = torn \ {"prerun"}
  /\ UNCHANGED <<tableVars, loopVars, mixed, pre, refresh, urlLog, wLock, checked>>

prerun ==
  \/ PrerunCreate
  \/ PrerunCheck
  \/ PrerunSelect
  \/ \E s \in Sessions : PrerunPut(s)
  \/ PrerunFill
  \/ PrerunEnds

-----------------------------------------------------------------------------
(* The PreCollector threads: one call of Collect each *)

StartPreCollector(r) ==
  /\ pre[r] = "idle"
  /\ pre' = [pre EXCEPT ![r] = "wait"]
  /\ UNCHANGED <<tableVars, loopVars, prerunVars, mixed, colPc, refresh, urlLog,
                 wLock, checked>>

\* Unknown address: everybody's tables are read again before going on.
CollectEnter(r) ==
  /\ pre[r] = "wait"
  /\ Acquire(r)
  /\ pre' = [pre EXCEPT ![r] = "collect"]
  /\ IF actionsOfIps[RecIp[r]] = NoSession
       THEN RefreshBegin
       ELSE /\ mixed' = (mixed \/ colPc \in PrerunPoints)
            /\ UNCHANGED <<tableVars, prerunVars, refresh>>
  /\ UNCHANGED <<loopVars, colPc, urlLog, checked>>

\* Mutants: Collect searches the list for any session; adds to every session
\* of the address; tries again instead of returning.
CollectAddAny(r) ==
  /\ pre[r] = "collect"
  /\ refresh = "none"
  /\ Release(r)
  /\ pre' = [pre EXCEPT ![r] = "done"]
  /\ collected' = [s \in Sessions |->
       IF actions # {} /\ s = CHOOSE t \in actions : TRUE
         THEN collected[s] \cup {r} ELSE collected[s]]
  /\ UNCHANGED <<actions, actionsOfIps, loopVars, prerunVars, mixed, colPc,
                 refresh, urlLog, checked>>

CollectAddAll(r) ==
  /\ pre[r] = "collect"
  /\ refresh = "none"
  /\ Release(r)
  /\ pre' = [pre EXCEPT ![r] = "done"]
  /\ collected' = [s \in Sessions |->
       IF s \in actions /\ IpOf[s] = RecIp[r]
         THEN collected[s] \cup {r} ELSE collected[s]]
  /\ UNCHANGED <<actions, actionsOfIps, loopVars, prerunVars, mixed, colPc,
                 refresh, urlLog, checked>>

CollectAddAgain(r) ==
  /\ pre[r] = "collect"
  /\ refresh = "none"
  /\ Release(r)
  /\ pre' = [pre EXCEPT ![r] = "wait"]
  /\ collected' = [s \in Sessions |->
       IF s = actionsOfIps[RecIp[r]] THEN collected[s] \cup {r}
                                     ELSE collected[s]]
  /\ UNCHANGED <<actions, actionsOfIps, loopVars, prerunVars, mixed, colPc,
                 refresh, urlLog, checked>>

\* Still unknown: the record is dropped with a warning.
CollectAdd(r) ==
  /\ pre[r] = "collect"
  /\ refresh = "none"
  /\ Release(r)
  /\ pre' = [pre EXCEPT ![r] = "done"]
  /\ collected' = [s \in Sessions |->
                     IF s = actionsOfIps[RecIp[r]] THEN collected[s] \cup {r}
                                                   ELSE collected[s]]
  /\ UNCHANGED <<actions, actionsOfIps, loopVars, prerunVars, mixed, colPc,
                 refresh, urlLog, checked>>

Collect ==
  \E r \in Records : StartPreCollector(r) \/ CollectEnter(r) \/ CollectAdd(r)

-----------------------------------------------------------------------------
(* The daemon *)

CollectorWakes ==
  /\ colPc = "sleep"
  /\ colPc' = "flush"
  /\ UNCHANGED <<tableVars, loopVars, prerunVars, mixed, pre, refresh, urlLog,
                 wLock, checked>>

FlushEnter ==
  /\ colPc = "flush"
  /\ Acquire("collector")
  /\ colPc' = "flushing"
  /\ rest' = actions
  /\ UNCHANGED <<tableVars, cur, batch, prerunVars, mixed, pre, refresh, urlLog,
                 checked>>

FlushAction(s) ==
  /\ colPc = "flushing"
  /\ cur = NoSession
  /\ s \in rest
  /\ NewDAO
  /\ cur' = s
  /\ batch' = collected[s]
  /\ UNCHANGED <<tableVars, rest, prerunVars, mixed, colPc, pre, refresh, urlLog,
                 wLock, checked>>

SqlCheckInFlush ==
  /\ colPc = "flushing"
  /\ batch # {}
  /\ SqlCheck
  /\ UNCHANGED <<colVars, urlLog, wLock>>

\* insert into url_log; an insert that is not executed is forgotten.
FlushInsert(r) ==
  /\ colPc = "flushing"
  /\ r \in batch
  /\ \/ /\ SqlExecuted
        /\ urlLog' = [urlLog EXCEPT ![cur][r] = Plus(@, 1)]
     \/ SqlIgnored /\ UNCHANGED urlLog
  /\ batch' = batch \ {r}
  /\ checked' = FALSE
  /\ UNCHANGED <<tableVars, rest, cur, prerunVars, mixed, colPc, pre, refresh,
                 wLock>>

FlushThrows ==
  /\ colPc = "flushing"
  /\ SqlThrows
  /\ Dies
  /\ rest' = {} /\ cur' = NoSession /\ batch' = {}
  /\ checked' = FALSE
  /\ UNCHANGED <<tableVars, prerunVars, mixed, refresh, urlLog>>

FlushClear ==
  /\ colPc = "flushing"
  /\ cur # NoSession
  /\ batch = {}
  /\ collected' = [collected EXCEPT ![cur] = {}]
  /\ rest' = rest \ {cur}
  /\ cur' = NoSession
  /\ UNCHANGED <<actions, actionsOfIps, batch, prerunVars, mixed, colPc, pre,
                 refresh, urlLog, wLock, checked>>

FlushExit ==
  /\ colPc = "flushing"
  /\ rest = {}
  /\ createObjects
  /\ mixed' = FALSE
  /\ Release("collector")
  /\ colPc' = "refresh"
  /\ UNCHANGED <<loopVars, prerunVars, pre, refresh, urlLog, checked>>

RefreshInfoEnter ==
  /\ colPc = "refresh"
  /\ Acquire("collector")
  /\ RefreshBegin
  /\ colPc' = "refreshing"
  /\ UNCHANGED <<loopVars, pre, urlLog, checked>>

RefreshInfoExit ==
  /\ colPc = "refreshing"
  /\ refresh = "none"
  /\ Release("collector")
  /\ colPc' = "sleep"
  /\ UNCHANGED <<tableVars, loopVars, prerunVars, mixed, pre, refresh, urlLog,
                 checked>>

FlushCollected ==
  \/ FlushEnter
  \/ \E s \in Sessions : FlushAction(s)
  \/ SqlCheckInFlush
  \/ \E r \in Records : FlushInsert(r)
  \/ FlushThrows
  \/ FlushClear
  \/ FlushExit

CollectorNext ==
  \/ prerun
  \/ RefreshSessions
  \/ Collect
  \/ CollectorWakes
  \/ FlushCollected
  \/ RefreshInfoEnter
  \/ RefreshInfoExit

=============================================================================
