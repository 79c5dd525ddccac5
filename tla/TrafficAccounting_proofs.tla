----------------------- MODULE TrafficAccounting_proofs -----------------------
(***************************************************************************)
(* Proofs about TrafficAccounting for every number of sessions, addresses, *)
(* users and records: its invariants, and that it implements TrafficLedger *)
(* while the connection stays.                                             *)
(***************************************************************************)
EXTENDS TrafficInvariants, TLAPS

-----------------------------------------------------------------------------
(* Counters *)

\* The cap of the counters can be counted to.
LEMMA CountCapNat == CountCap \in Nat /\ CountCap > 1
BY TrafficAssumption

\* A saturating counter stays a counter.
LEMMA PlusType ==
  \A m, n \in 0..CountCap : Plus(m, n) \in 0..CountCap
BY CountCapNat DEF Plus

\* The first row of a record is counted as one.
LEMMA PlusZero == \A n \in {0, 1} : Plus(0, n) = n
BY CountCapNat DEF Plus

\* A table that counts records stays a table of counters (Aggregator.Count).
LEMMA CountType ==
  ASSUME NEW t \in Tables, NEW s \in Sessions, NEW R,
         counted \in [Tables -> [Records -> 0..CountCap]], logs \in Counts,
         Count(t, s, R)
  PROVE  counted' \in [Tables -> [Records -> 0..CountCap]]
<1>1. \A r \in Records : counted[t][r] \in 0..CountCap /\ logs[s][r] \in 0..CountCap
  BY DEF Counts
<1>2. \A r \in Records : Plus(counted[t][r], logs[s][r]) \in 0..CountCap
  BY <1>1, PlusType
<1> DEFINE row == [r \in Records |-> IF r \in R THEN Plus(counted[t][r], logs[s][r])
                                                ELSE counted[t][r]]
<1>3. row \in [Records -> 0..CountCap]
  BY <1>1, <1>2
<1>4. counted' = [counted EXCEPT ![t] = row]
  BY DEF Count
<1> HIDE DEF row
<1> QED BY <1>3, <1>4

-----------------------------------------------------------------------------
(* Types *)

\* The initial state has the types.
LEMMA InitType == Init => TypeOK
<1> SUFFICES ASSUME Init PROVE TypeOK
  OBVIOUS
<1>0. 0 \in 0..CountCap
  BY CountCapNat
<1>1. DBTypeOK
  BY DEF Init, DBInit, DBTypeOK, ConnStates, ReconfPoints
<1>2. SharedTypeOK
  BY <1>0 DEF Init, SharedTypeOK, NoRows, Threads
<1>3. ColTypeOK
  BY DEF Init, ColInit, ColTypeOK, ColPoints, PrerunPoints, PrePoints, RefreshPoints
<1>4. AggTypeOK
  BY <1>0 DEF Init, AggInit, AggTypeOK, AggPoints, Counts, NoRows
<1> QED BY <1>1, <1>2, <1>3, <1>4 DEF TypeOK

\* What is left of a map of another list.
LEMMA OutdatedIs ==
  ASSUME NEW map \in [Ips -> Sessions \cup {NoSession, Unlisted}]
  PROVE  /\ Outdated(map) \in [Ips -> {NoSession, Unlisted}]
         /\ \A i \in Ips : map[i] = NoSession <=> Outdated(map)[i] = NoSession
BY CollectorAssumption DEF Outdated

\* prerun() works on the tables and, in a list that it has replaced, on the
\* loop of the thread in the monitor, and on nothing else.
LEMMA PrerunKeeps ==
  ASSUME prerun
  PROVE  /\ colPc \in PrerunPoints
         /\ colPc' \in PrerunPoints \cup {"flush", "dead"}
         /\ UNCHANGED <<batch, mixed, pre, refresh, urlLog, wLock, checked>>
         /\ UNCHANGED collected \/ collected' = [s \in Sessions |-> {}]
BY DEF prerun, PrerunCreate, PrerunCheck, PrerunSelect, PrerunPut, PrerunFill,
       PrerunEnds, PrerunPoints, createObjects, tableVars, loopVars

\* The beginning of a refresh inside the monitor leaves tables of their types.
LEMMA BeginType ==
  ASSUME ColTypeOK, RefreshBegin
  PROVE  /\ actions' \in SUBSET Sessions
         /\ actionsOfIps' \in [Ips -> Sessions \cup {NoSession, Unlisted}]
         /\ collected' \in [Sessions -> SUBSET Records]
         /\ refresh' \in RefreshPoints
         /\ seen' \in BOOLEAN /\ mixed' \in BOOLEAN
         /\ todo' \in SUBSET Sessions /\ torn' \in SUBSET {"prerun", "lock"}
<1>1. /\ actions' = {} /\ actionsOfIps' = [i \in Ips |-> NoSession]
      /\ collected' = [s \in Sessions |-> {}]
      /\ refresh' = "actionDAO" /\ seen' = seen /\ mixed' = (colPc \in PrerunPoints)
  BY DEF RefreshBegin, createObjects
<1>2. todo' \in SUBSET Sessions /\ torn' \in SUBSET {"prerun", "lock"}
  BY DEF ColTypeOK, RefreshBegin, PrerunGoesOnIn
<1>3. mixed' \in BOOLEAN
  BY <1>1
<1> QED BY <1>1, <1>2, <1>3 DEF ColTypeOK, RefreshPoints

\* prerun() keeps the types.
LEMMA PrerunType ==
  ASSUME ColTypeOK, prerun
  PROVE  ColTypeOK'
<1> USE DEF ColTypeOK, ColPoints, PrerunPoints, PrePoints, RefreshPoints,
            tableVars, loopVars, LockGoesOnIn
<1>1. CASE PrerunCreate
  BY <1>1 DEF PrerunCreate, createObjects
<1>2. CASE PrerunCheck
  BY <1>2 DEF PrerunCheck
<1>3. CASE PrerunSelect
  BY <1>3, OutdatedIs DEF PrerunSelect, OnlineSessions
<1>4. ASSUME NEW s \in Sessions, PrerunPut(s) PROVE ColTypeOK'
  BY <1>4 DEF PrerunPut, PutTorn
<1>5. CASE PrerunFill
  BY <1>5 DEF PrerunFill
<1>6. CASE PrerunEnds
  BY <1>6 DEF PrerunEnds
<1> QED BY <1>1, <1>2, <1>3, <1>4, <1>5, <1>6 DEF prerun

\* Every step keeps them.
LEMMA TypeStep ==
  ASSUME TypeOK, CursorInv, [Next]_vars
  PROVE  TypeOK'
<1> USE DEF TypeOK, DBTypeOK, SharedTypeOK, ColTypeOK, AggTypeOK, ConnStates,
            ReconfPoints, ColPoints, PrePoints, RefreshPoints, dbVars, tableVars,
            loopVars, prerunVars, colVars, aggVars
<1>1. CASE Radius
  BY <1>1 DEF Radius, OpenSession, CloseSession
<1>2. CASE Administrator
  BY <1>2 DEF Administrator, DeleteUser
<1>3. CASE Reconfigurer
  BY <1>3 DEF Reconfigurer, Reconfigure, ReconnectBegin, ReconnectClose,
              ReconnectCloseFails, ReconnectForget, ReconnectConnect
<1>4. CASE CollectorStep
  <2> USE <1>4 DEF CollectorStep
  <2>1. CASE RefreshSessions
    <3>1. CASE RefreshNewDAO
      BY <3>1 DEF RefreshNewDAO
    <3>2. CASE SqlCheckInRefresh
      BY <3>2 DEF SqlCheckInRefresh, SqlCheck
    <3>3. CASE RefreshSelect
      BY <3>3, OutdatedIs DEF RefreshSelect, OnlineSessions, PrerunGoesOnIn
    <3>4. ASSUME NEW s \in Sessions, RefreshStats(s) \/ RefreshStatsTorn(s)
          PROVE  TypeOK'
      BY <3>4 DEF RefreshStats, RefreshStatsTorn, PutTorn
    <3>5. CASE RefreshDenied
      BY <3>5 DEF RefreshDenied, CursorInv
    <3>6. CASE RefreshThrows
      BY <3>6 DEF RefreshThrows, Dies, Release, Threads
    <3>7. CASE RefreshEndsEarly
      BY <3>7 DEF RefreshEndsEarly
    <3> QED BY <2>1, <3>1, <3>2, <3>3, <3>4, <3>5, <3>6, <3>7 DEF RefreshSessions
  <2>2. CASE Collect
    <3>1. ASSUME NEW r \in Records, StartPreCollector(r) PROVE TypeOK'
      BY <3>1 DEF StartPreCollector
    <3>2. ASSUME NEW r \in Records, CollectEnter(r) PROVE TypeOK'
      <4>1. CASE RefreshBegin
        <5>1. /\ pre' \in [Records -> PrePoints] /\ wLock' = r
              /\ UNCHANGED <<loopVars, colPc, urlLog, checked, cause, dbVars, aggVars>>
          BY <3>2 DEF CollectEnter, Acquire
        <5> QED BY <4>1, <5>1, BeginType DEF Threads
      <4>2. CASE UNCHANGED <<tableVars, prerunVars, refresh>> /\ mixed' \in BOOLEAN
        BY <3>2, <4>2 DEF CollectEnter, Acquire, Threads
      <4> QED BY <3>2, <4>1, <4>2 DEF CollectEnter
    <3>3. ASSUME NEW r \in Records, CollectAdd(r) PROVE TypeOK'
      BY <3>3 DEF CollectAdd, Release
    <3> QED BY <2>2, <3>1, <3>2, <3>3 DEF Collect
  <2>3. CASE CollectorWakes
    BY <2>3 DEF CollectorWakes
  <2>4. CASE FlushCollected
    <3>1. CASE FlushEnter
      BY <3>1 DEF FlushEnter, Acquire, Threads
    <3>2. ASSUME NEW s \in Sessions, FlushAction(s) PROVE TypeOK'
      BY <3>2 DEF FlushAction
    <3>3. CASE SqlCheckInFlush
      BY <3>3 DEF SqlCheckInFlush, SqlCheck
    <3>4. ASSUME NEW r \in Records, FlushInsert(r) PROVE TypeOK'
      <4>1. 1 \in 0..CountCap
        BY CountCapNat
      <4>2. cur \in Sessions
        BY <3>4 DEF FlushInsert, CursorInv
      <4>3. Plus(urlLog[cur][r], 1) \in 0..CountCap
        BY <4>1, <4>2, PlusType
      <4> DEFINE row == [urlLog[cur] EXCEPT ![r] = Plus(urlLog[cur][r], 1)]
      <4>4. row \in [Records -> 0..CountCap]
        BY <4>2, <4>3
      <4>5. urlLog' = [urlLog EXCEPT ![cur] = row] \/ urlLog' = urlLog
        BY <3>4 DEF FlushInsert
      <4> HIDE DEF row
      <4>6. urlLog' \in [Sessions -> [Records -> 0..CountCap]]
        BY <4>2, <4>4, <4>5
      <4> QED BY <3>4, <4>6 DEF FlushInsert
    <3>5. CASE FlushThrows
      BY <3>5 DEF FlushThrows, Dies, Release
    <3>6. CASE FlushClear
      BY <3>6 DEF FlushClear
    <3>7. CASE FlushExit
      BY <3>7 DEF FlushExit, createObjects, Release
    <3> QED BY <2>4, <3>1, <3>2, <3>3, <3>4, <3>5, <3>6, <3>7 DEF FlushCollected
  <2>5. CASE RefreshInfoEnter
    BY <2>5, BeginType DEF RefreshInfoEnter, Acquire, Threads
  <2>6. CASE RefreshInfoExit
    BY <2>6 DEF RefreshInfoExit, Release
  <2>7. CASE prerun
    BY <2>7, PrerunType, PrerunKeeps
  <2> QED BY <2>1, <2>2, <2>3, <2>4, <2>5, <2>6, <2>7 DEF CollectorNext
<1>5. CASE AggregatorStep
  <2> USE <1>5 DEF AggregatorStep, AggPoints, Loops, Tables
  <2>0. NoRows \in Counts
    BY CountCapNat DEF NoRows, Counts
  <2>1. CASE AggregatorWakes
    BY <2>1 DEF AggregatorWakes
  <2>2. CASE AggregateEnter
    BY <2>2 DEF AggregateEnter, Acquire, Threads
  <2>3. CASE AggregateNewDAO
    BY <2>3 DEF AggregateNewDAO
  <2>4. CASE SqlCheckInAggregate
    BY <2>4 DEF SqlCheckInAggregate, SqlCheck
  <2>5. CASE AggregateSelect
    <3>1. logs' \in Counts
      BY <2>0, <2>5 DEF AggregateSelect, Counts
    <3> QED BY <2>5, <3>1 DEF AggregateSelect, Rows
  <2>6. ASSUME NEW u \in Users, DefineUsersUids(u) PROVE TypeOK'
    <3>1. uids' \in SUBSET Users
      BY <2>6 DEF DefineUsersUids
    <3>2. left' \in SUBSET (Sessions \X Records)
      BY <2>6 DEF DefineUsersUids
    <3> QED BY <2>6, <3>1, <3>2 DEF DefineUsersUids
  <2>7. ASSUME NEW s \in Sessions, UpdateProtocols(s) PROVE TypeOK'
    <3>1. counted' \in [Tables -> [Records -> 0..CountCap]]
      BY <2>7, CountType DEF UpdateProtocols
    <3> QED BY <2>7, <3>1 DEF UpdateProtocols
  <2>8. ASSUME NEW s \in Sessions, NEW r \in Records, UpdatePopularity(s, r)
        PROVE  TypeOK'
    <3>1. counted' \in [Tables -> [Records -> 0..CountCap]]
      BY <2>8, CountType DEF UpdatePopularity
    <3> QED BY <2>8, <3>1 DEF UpdatePopularity
  <2>9. ASSUME NEW s \in Sessions, NEW r \in Records, UpdateCtryPopularity(s, r)
        PROVE  TypeOK'
    <3>1. counted' \in [Tables -> [Records -> 0..CountCap]]
      BY <2>9, CountType DEF UpdateCtryPopularity
    <3> QED BY <2>9, <3>1 DEF UpdateCtryPopularity
  <2>10. CASE LoopEnds
    BY <2>10 DEF LoopEnds, After, Rows
  <2>11. CASE AggregateDelete
    BY <2>0, <2>11 DEF AggregateDelete, AggregateExit, Release, Counts
  <2>12. CASE AggregateThrows
    BY <2>0, <2>12 DEF AggregateThrows, AggregateExit, Release
  <2> QED BY <2>1, <2>2, <2>3, <2>4, <2>5, <2>6, <2>7, <2>8, <2>9, <2>10,
             <2>11, <2>12 DEF AggregatorNext
<1>6. CASE UNCHANGED vars
  BY <1>6 DEF vars
<1> QED BY <1>1, <1>2, <1>3, <1>4, <1>5, <1>6 DEF Next

-----------------------------------------------------------------------------
(* The monitor *)

\* Every step keeps the lock with the thread that is inside the monitor.
LEMMA HolderStep ==
  ASSUME TypeOK, HolderInv, [Next]_vars
  PROVE  HolderInv'
<1> USE ThreadNames DEF HolderInv, AggInside, dbVars, tableVars, loopVars,
        prerunVars, colVars, aggVars
<1>0. pre \in [Records -> PrePoints]
  BY DEF TypeOK, ColTypeOK
<1>1. CASE Radius
  BY <1>1 DEF Radius
<1>2. CASE Administrator
  BY <1>2 DEF Administrator, DeleteUser
<1>3. CASE Reconfigurer
  BY <1>3 DEF Reconfigurer
<1>4. CASE CollectorStep
  <2> USE <1>4 DEF CollectorStep
  <2>1. CASE RefreshSessions
    <3>1. CASE UNCHANGED <<colPc, pre, wLock>>
      BY <3>1
    <3>2. CASE RefreshThrows
      BY <1>0, <3>2 DEF RefreshThrows, Dies, Release, AggPoints, Loops, Tables
    <3> QED BY <2>1, <3>1, <3>2 DEF RefreshSessions, RefreshNewDAO,
               SqlCheckInRefresh, RefreshSelect, RefreshStats, RefreshStatsTorn, RefreshDenied, RefreshEndsEarly
  <2>2. CASE Collect
    <3>1. ASSUME NEW r \in Records, StartPreCollector(r) PROVE HolderInv'
      BY <1>0, <3>1 DEF StartPreCollector
    <3>2. ASSUME NEW r \in Records, CollectEnter(r) PROVE HolderInv'
      BY <1>0, <3>2 DEF CollectEnter, Acquire
    <3>3. ASSUME NEW r \in Records, CollectAdd(r) PROVE HolderInv'
      BY <1>0, <3>3 DEF CollectAdd, Release
    <3> QED BY <2>2, <3>1, <3>2, <3>3 DEF Collect
  <2>3. CASE CollectorWakes
    BY <2>3 DEF CollectorWakes
  <2>4. CASE FlushCollected
    <3>1. CASE FlushEnter
      BY <3>1 DEF FlushEnter, Acquire
    <3>2. CASE UNCHANGED <<colPc, pre, wLock>>
      BY <3>2
    <3>3. CASE FlushThrows
      BY <1>0, <3>3 DEF FlushThrows, Dies, Release
    <3>4. CASE FlushExit
      BY <3>4 DEF FlushExit, Release
    <3> QED BY <2>4, <3>1, <3>2, <3>3, <3>4 DEF FlushCollected, FlushAction,
               SqlCheckInFlush, FlushInsert, FlushClear
  <2>5. CASE RefreshInfoEnter
    BY <2>5 DEF RefreshInfoEnter, Acquire
  <2>6. CASE RefreshInfoExit
    BY <2>6 DEF RefreshInfoExit, Release
  <2>7. CASE prerun
    BY <2>7, PrerunKeeps DEF PrerunPoints
  <2> QED BY <2>1, <2>2, <2>3, <2>4, <2>5, <2>6, <2>7 DEF CollectorNext
<1>5. CASE AggregatorStep
  <2> USE <1>5 DEF AggregatorStep, AggPoints, Loops, Tables
  <2>1. CASE AggregatorWakes
    BY <2>1 DEF AggregatorWakes
  <2>2. CASE AggregateEnter
    BY <2>2 DEF AggregateEnter, Acquire
  <2>3. CASE AggregateNewDAO
    BY <2>3 DEF AggregateNewDAO
  <2>4. CASE AggregateSelect
    BY <2>4 DEF AggregateSelect
  <2>5. CASE UNCHANGED <<aggPc, wLock>>
    BY <2>5
  <2>6. CASE LoopEnds
    BY <2>6 DEF LoopEnds, After
  <2>7. CASE AggregateDelete
    BY <2>7 DEF AggregateDelete, AggregateExit, Release
  <2>8. CASE AggregateThrows
    BY <2>8 DEF AggregateThrows, AggregateExit, Release
  <2> QED BY <2>1, <2>2, <2>3, <2>4, <2>5, <2>6, <2>7, <2>8
          DEF AggregatorNext, SqlCheckInAggregate, DefineUsersUids,
              UpdateProtocols, UpdatePopularity, UpdateCtryPopularity
<1>6. CASE UNCHANGED vars
  BY <1>6 DEF vars
<1> QED BY <1>1, <1>2, <1>3, <1>4, <1>5, <1>6 DEF Next

-----------------------------------------------------------------------------
(* Tables and cursors *)

\* The aggregator, the connection and the RADIUS side leave alone what the
\* Collector keeps in memory.
LEMMA OthersKeepTables ==
  ASSUME Radius \/ Administrator \/ Reconfigurer \/ AggregatorStep \/ UNCHANGED vars
  PROVE  UNCHANGED <<actions, actionsOfIps, collected, rest, cur, batch, seen,
                     todo, torn, mixed, colPc, pre, refresh>>
BY DEF Radius, Administrator, Reconfigurer, AggregatorStep, vars, colVars,
       tableVars, loopVars, prerunVars

\* Every step keeps what the thread inside the monitor has done of its loop.
LEMMA CursorStep ==
  ASSUME TypeOK, HolderInv, CursorInv, [Next]_vars
  PROVE  CursorInv'
<1> USE ThreadNames DEF CursorInv, dbVars, tableVars, loopVars, prerunVars,
        colVars, aggVars
<1>0. /\ pre \in [Records -> PrePoints]
      /\ collected \in [Sessions -> SUBSET Records]
      /\ cur \in Sessions \cup {NoSession}
  BY DEF TypeOK, ColTypeOK
<1>1. HolderInv'
  BY HolderStep
<1>2. CASE Radius \/ Administrator \/ Reconfigurer \/ AggregatorStep \/ UNCHANGED vars
  <2>1. UNCHANGED <<actions, actionsOfIps, collected, rest, cur, batch, colPc,
                    refresh>>
    BY <1>2, OthersKeepTables
  <2>2. refresh # "none" => wLock' \notin {"free", "aggregator"}
    <3>1. CASE colPc = "refreshing"
      BY <1>1, <2>1, <3>1 DEF HolderInv
    <3>2. CASE colPc # "refreshing" /\ refresh # "none"
      <4>1. wLock \in Records
        BY <3>2 DEF HolderInv, TypeOK, SharedTypeOK, Threads
      <4>2. pre' = pre
        BY <1>2, OthersKeepTables
      <4> QED BY <1>1, <4>1, <4>2 DEF HolderInv
    <3> QED BY <3>1, <3>2
  <2> QED BY <2>1, <2>2
<1>3. CASE CollectorStep
  <2> USE <1>3 DEF CollectorStep
  <2>1. CASE RefreshSessions
    <3>1. CASE RefreshNewDAO
      BY <1>0, <3>1 DEF RefreshNewDAO, TypeOK, ColTypeOK, RefreshPoints
    <3>2. CASE SqlCheckInRefresh
      BY <3>2 DEF SqlCheckInRefresh
    <3>3. CASE RefreshSelect
      BY <1>0, <3>3 DEF RefreshSelect
    <3>4. ASSUME NEW s \in Sessions, RefreshStats(s) \/ RefreshStatsTorn(s)
          PROVE  CursorInv'
      BY <1>0, <3>4 DEF RefreshStats, RefreshStatsTorn
    <3>5. CASE RefreshDenied
      BY <1>0, <3>5 DEF RefreshDenied
    <3>6. CASE RefreshThrows
      BY <1>0, <3>6 DEF RefreshThrows, Dies
    <3>7. CASE RefreshEndsEarly
      BY <1>0, <3>7 DEF RefreshEndsEarly
    <3> QED BY <2>1, <3>1, <3>2, <3>3, <3>4, <3>5, <3>6, <3>7 DEF RefreshSessions
  <2>2. CASE Collect
    <3>1. ASSUME NEW r \in Records, StartPreCollector(r) PROVE CursorInv'
      BY <3>1 DEF StartPreCollector
    <3>2. ASSUME NEW r \in Records, CollectEnter(r) PROVE CursorInv'
      <4>1. wLock = "free" /\ refresh = "none" /\ rest = {} /\ cur = NoSession
            /\ colPc \notin {"flushing", "refreshing"} /\ wLock' = r
        BY <3>2 DEF CollectEnter, Acquire, HolderInv
      <4> QED BY <1>0, <3>2, <4>1 DEF CollectEnter, RefreshBegin, createObjects
    <3>3. ASSUME NEW r \in Records, CollectAdd(r) PROVE CursorInv'
      <4>1. wLock = r /\ colPc # "flushing" /\ refresh = "none"
        BY <3>3 DEF CollectAdd, Release, HolderInv
      <4> QED BY <1>0, <3>3, <4>1 DEF CollectAdd
    <3> QED BY <2>2, <3>1, <3>2, <3>3 DEF Collect
  <2>3. CASE CollectorWakes
    BY <2>3 DEF CollectorWakes
  <2>4. CASE FlushCollected
    <3>1. CASE FlushEnter
      BY <3>1 DEF FlushEnter, Acquire
    <3>2. ASSUME NEW s \in Sessions, FlushAction(s) PROVE CursorInv'
      BY <1>0, <3>2, TrafficAssumption DEF FlushAction
    <3>3. CASE SqlCheckInFlush
      BY <3>3 DEF SqlCheckInFlush
    <3>4. ASSUME NEW r \in Records, FlushInsert(r) PROVE CursorInv'
      BY <3>4 DEF FlushInsert
    <3>5. CASE FlushThrows
      BY <1>0, <3>5 DEF FlushThrows, Dies
    <3>6. CASE FlushClear
      BY <1>0, <3>6 DEF FlushClear
    <3>7. CASE FlushExit
      BY <1>0, <3>7 DEF FlushExit, createObjects
    <3> QED BY <2>4, <3>1, <3>2, <3>3, <3>4, <3>5, <3>6, <3>7 DEF FlushCollected
  <2>5. CASE RefreshInfoEnter
    BY <2>5 DEF RefreshInfoEnter, Acquire, RefreshBegin, createObjects
  <2>6. CASE RefreshInfoExit
    BY <2>6 DEF RefreshInfoExit
  <2>7. CASE prerun
    <3>1. CASE PrerunCreate \/ PrerunSelect
      BY <1>0, <3>1 DEF PrerunCreate, PrerunSelect, createObjects, LockGoesOnIn
    <3>2. CASE UNCHANGED <<actions, collected, loopVars, refresh, wLock, batch>>
      BY <2>7, <3>2, PrerunKeeps DEF PrerunPoints
    <3> QED BY <2>7, <3>1, <3>2 DEF prerun, PrerunCheck, PrerunPut, PrerunFill,
               PrerunEnds
  <2> QED BY <2>1, <2>2, <2>3, <2>4, <2>5, <2>6, <2>7 DEF CollectorNext
<1> QED BY <1>2, <1>3 DEF Next

\* Every step of prerun() keeps account of what the two refreshes have met.
LEMMA PrerunMeets ==
  ASSUME TypeOK, CursorInv, PrerunInv, AloneInv, prerun
  PROVE  PrerunInv' /\ AloneInv'
<1> USE DEF PrerunInv, AloneInv, PrerunPoints, tableVars, loopVars, LockGoesOnIn
<1>0. actionsOfIps \in [Ips -> Sessions \cup {NoSession, Unlisted}]
  BY DEF TypeOK, ColTypeOK
<1>1. CASE PrerunCreate
  BY <1>1 DEF PrerunCreate, createObjects
<1>2. CASE PrerunCheck
  BY <1>2 DEF PrerunCheck
<1>3. CASE PrerunSelect
  <2>1. refresh # "none" => mixed
    BY <1>3 DEF PrerunSelect
  <2> QED BY <1>3, <2>1 DEF PrerunSelect
<1>4. ASSUME NEW s \in Sessions, PrerunPut(s)
      PROVE  PrerunInv' /\ AloneInv'
  <2>1. refresh # "none" => mixed
    BY <1>4 DEF PrerunPut
  <2> QED BY <1>4, <2>1 DEF PrerunPut
<1>5. CASE PrerunFill
  BY <1>5 DEF PrerunFill
<1>6. CASE PrerunEnds
  BY <1>6 DEF PrerunEnds
<1> QED BY <1>1, <1>2, <1>3, <1>4, <1>5, <1>6 DEF prerun

\* So does every step of the refresh inside the monitor.
LEMMA RefreshMeets ==
  ASSUME TypeOK, HolderInv, CursorInv, PrerunInv, AloneInv, RefreshSessions
  PROVE  PrerunInv' /\ AloneInv'
<1> USE DEF PrerunInv, AloneInv, PrerunPoints, tableVars, loopVars, prerunVars,
            colVars
<1>0. /\ actionsOfIps \in [Ips -> Sessions \cup {NoSession, Unlisted}]
      /\ pre \in [Records -> PrePoints]
      /\ refresh # "none" => colPc # "flushing"
  BY DEF TypeOK, ColTypeOK, CursorInv
<1>1. CASE RefreshNewDAO
  BY <1>1 DEF RefreshNewDAO
<1>2. CASE SqlCheckInRefresh
  BY <1>2 DEF SqlCheckInRefresh
<1>3. CASE RefreshSelect
  <2>1. ~mixed => Outdated(actionsOfIps) = actionsOfIps
    BY <1>0, <1>3 DEF RefreshSelect, Outdated
  <2>2. ~mixed => colPc \notin PrerunPoints
    BY <1>3 DEF RefreshSelect
  <2> QED BY <1>3, <2>1, <2>2 DEF RefreshSelect, PrerunGoesOnIn
<1>4. ASSUME NEW s \in Sessions, RefreshStats(s) \/ RefreshStatsTorn(s)
      PROVE  PrerunInv' /\ AloneInv'
  <2>1. ~mixed => colPc \notin PrerunPoints
    BY <1>4 DEF RefreshStats, RefreshStatsTorn
  <2> QED BY <1>4, <2>1 DEF RefreshStats, RefreshStatsTorn
<1>5. CASE RefreshDenied
  BY <1>5 DEF RefreshDenied
<1>6. CASE RefreshEndsEarly
  BY <1>6 DEF RefreshEndsEarly
<1>7. CASE RefreshThrows
  <2>1. refresh # "none" /\ refresh' = "none"
    BY <1>7 DEF RefreshThrows
  <2>2. ~mixed => colPc \notin PrerunPoints
    BY <2>1
  <2>3. UNCHANGED colPc \/ (colPc' = "dead" /\ colPc \in {"flushing", "refreshing"})
    BY <1>7 DEF RefreshThrows, Dies, Release, HolderInv
  <2>4. /\ UNCHANGED <<tableVars, todo, mixed>> /\ rest' = {}
        /\ torn' = torn \ {"lock"}
    BY <1>7 DEF RefreshThrows
  <2>5. PrerunInv'
    BY <2>1, <2>3, <2>4
  <2>6. AloneInv'
    BY <2>1, <2>2, <2>3, <2>4
  <2> QED BY <2>5, <2>6
<1> QED BY <1>1, <1>2, <1>3, <1>4, <1>5, <1>6, <1>7 DEF RefreshSessions

\* And every other step.
LEMMA MeetsStep ==
  ASSUME TypeOK, HolderInv, CursorInv, PrerunInv, AloneInv, [Next]_vars
  PROVE  PrerunInv' /\ AloneInv'
<1> USE DEF PrerunInv, AloneInv, PrerunPoints, tableVars, loopVars, prerunVars
<1>0. /\ actionsOfIps \in [Ips -> Sessions \cup {NoSession, Unlisted}]
      /\ pre \in [Records -> PrePoints]
      /\ torn \in SUBSET {"prerun", "lock"}
      /\ mixed \in BOOLEAN
  BY DEF TypeOK, ColTypeOK
<1>1. CASE Radius \/ Administrator \/ Reconfigurer \/ AggregatorStep \/ UNCHANGED vars
  BY <1>1, OthersKeepTables
<1>2. CASE CollectorStep
  <2>1. ASSUME NEW r \in Records, StartPreCollector(r)
        PROVE  PrerunInv' /\ AloneInv'
    BY <1>0, <2>1 DEF StartPreCollector
  <2>2. ASSUME NEW r \in Records, CollectEnter(r)
        PROVE  PrerunInv' /\ AloneInv'
    <3>1. refresh = "none" /\ colPc # "flushing"
      BY <2>2, ThreadNames DEF CollectEnter, Acquire, CursorInv, HolderInv
    <3>2. CASE actionsOfIps[RecIp[r]] = NoSession
      <4>1. RefreshBegin /\ UNCHANGED <<loopVars, colPc>>
        BY <2>2, <3>2 DEF CollectEnter
      <4>2. CASE colPc \in PrerunPoints
        <5>1. mixed' /\ actions' = {} /\ refresh' = "actionDAO"
          BY <4>1, <4>2 DEF RefreshBegin, createObjects
        <5>2. \/ UNCHANGED <<todo, torn>> /\ todo = {} /\ "prerun" \notin torn
              \/ /\ colPc \in {"put", "fill"} /\ todo' = {}
                 /\ torn' = torn \cup {"prerun"}
          BY <4>1, <4>2 DEF RefreshBegin, PrerunGoesOnIn
        <5> QED BY <3>1, <4>1, <4>2, <5>1, <5>2
      <4>3. CASE colPc \notin PrerunPoints
        <5>1. torn = {} /\ todo = {}
          BY <1>0, <3>1, <4>3
        <5> QED BY <3>1, <4>1, <4>3, <5>1
                DEF RefreshBegin, createObjects, PrerunGoesOnIn
      <4> QED BY <4>2, <4>3
    <3>3. CASE actionsOfIps[RecIp[r]] # NoSession
      <4>1. mixed' = (mixed \/ colPc \in PrerunPoints)
            /\ UNCHANGED <<tableVars, loopVars, prerunVars, refresh, colPc>>
        BY <2>2, <3>3 DEF CollectEnter
      <4> QED BY <1>0, <3>1, <4>1
    <3> QED BY <3>2, <3>3
  <2>3. ASSUME NEW r \in Records, CollectAdd(r)
        PROVE  PrerunInv' /\ AloneInv'
    <3>1. ~mixed => colPc \notin PrerunPoints
      BY <2>3 DEF CollectAdd
    <3> QED BY <1>0, <2>3, <3>1 DEF CollectAdd
  <2>4. CASE CollectorWakes
    BY <2>4 DEF CollectorWakes
  <2>5. CASE FlushEnter
    BY <2>5, ThreadNames DEF FlushEnter, Acquire, CursorInv
  <2>6. ASSUME NEW s \in Sessions, FlushAction(s)
        PROVE  PrerunInv' /\ AloneInv'
    BY <2>6 DEF FlushAction, CursorInv
  <2>7. CASE SqlCheckInFlush
    BY <2>7 DEF SqlCheckInFlush, colVars
  <2>8. ASSUME NEW r \in Records, FlushInsert(r)
        PROVE  PrerunInv' /\ AloneInv'
    BY <2>8 DEF FlushInsert
  <2>9. CASE FlushThrows
    BY <2>9, ThreadNames DEF FlushThrows, Dies, Release, CursorInv, HolderInv
  <2>10. CASE FlushClear
    BY <2>10 DEF FlushClear, CursorInv
  <2>11. CASE FlushExit
    <3>1. refresh = "none" /\ torn = {} /\ todo = {}
      BY <1>0, <2>11 DEF FlushExit, CursorInv
    <3> QED BY <2>11, <3>1 DEF FlushExit, createObjects
  <2>12. CASE RefreshInfoEnter
    <3>1. refresh = "none" /\ torn = {} /\ todo = {}
      BY <1>0, <2>12, ThreadNames DEF RefreshInfoEnter, Acquire, CursorInv, HolderInv
    <3> QED BY <2>12, <3>1 DEF RefreshInfoEnter, RefreshBegin, createObjects,
               PrerunGoesOnIn
  <2>13. CASE RefreshInfoExit
    BY <2>13 DEF RefreshInfoExit
  <2> QED BY <1>2, <2>1, <2>2, <2>3, <2>4, <2>5, <2>6, <2>7, <2>8, <2>9, <2>10,
             <2>11, <2>12, <2>13, PrerunMeets, RefreshMeets
          DEF CollectorStep, CollectorNext, Collect, FlushCollected
<1> QED BY <1>1, <1>2 DEF Next

\* Every step keeps the map and the list in agreement, and what is collected
\* in the list.
LEMMA TablesStep ==
  ASSUME TypeOK, CursorInv, PrerunInv, AloneInv, TablesInv, CollectedReachable,
         [Next]_vars
  PROVE  TablesInv' /\ CollectedReachable'
<1> USE DEF TablesInv, CollectedReachable, tableVars, loopVars
<1>0. /\ actionsOfIps \in [Ips -> Sessions \cup {NoSession, Unlisted}]
      /\ collected \in [Sessions -> SUBSET Records]
      /\ IpOf \in [Sessions -> Ips]
      /\ RecIp \in [Records -> Ips]
      /\ NoSession \notin Sessions
      /\ Unlisted \notin Sessions \cup {NoSession}
  BY TrafficAssumption, CollectorAssumption DEF TypeOK, ColTypeOK
<1>1. CASE Radius \/ Administrator \/ Reconfigurer \/ AggregatorStep \/ UNCHANGED vars
  BY <1>1, OthersKeepTables
<1>2. CASE CollectorStep
  <2>1. CASE RefreshSelect
    <3>1. \A s \in Sessions : collected'[s] = {}
      BY <2>1 DEF RefreshSelect, CursorInv
    <3>2. \A i \in Ips : actionsOfIps'[i] \in {NoSession, Unlisted}
      BY <1>0, <2>1, OutdatedIs DEF RefreshSelect
    <3>3. ~mixed' => \A i \in Ips : actionsOfIps'[i] = NoSession
      BY <1>0, <2>1, OutdatedIs DEF RefreshSelect, AloneInv
    <3> QED BY <1>0, <3>1, <3>2, <3>3
  <2>2. ASSUME NEW s \in Sessions, RefreshStats(s) \/ RefreshStatsTorn(s)
        PROVE  TablesInv' /\ CollectedReachable'
    <3>1. \A t \in Sessions : collected'[t] = {}
      BY <2>2 DEF RefreshStats, RefreshStatsTorn, CursorInv
    <3>2. CASE RefreshStats(s)
      <4>1. s \in actions
        BY <3>2 DEF RefreshStats, CursorInv
      <4> QED BY <1>0, <3>1, <3>2, <4>1 DEF RefreshStats
    <3>3. CASE RefreshStatsTorn(s)
      <4>1. mixed'
        BY <3>3 DEF RefreshStatsTorn, AloneInv
      <4> QED BY <1>0, <3>3, <4>1 DEF RefreshStatsTorn, PutTorn
    <3> QED BY <2>2, <3>2, <3>3
  <2>3. ASSUME NEW r \in Records, CollectEnter(r)
        PROVE  TablesInv' /\ CollectedReachable'
    <3>1. CASE actionsOfIps[RecIp[r]] = NoSession
      BY <1>0, <2>3, <3>1 DEF CollectEnter, RefreshBegin, createObjects
    <3>2. CASE actionsOfIps[RecIp[r]] # NoSession
      <4>1. UNCHANGED tableVars /\ (mixed => mixed')
        BY <2>3, <3>2 DEF CollectEnter
      <4> QED BY <4>1
    <3> QED BY <3>1, <3>2
  <2>4. ASSUME NEW r \in Records, CollectAdd(r)
        PROVE  TablesInv' /\ CollectedReachable'
    <3>1. ASSUME ~mixed, NEW s \in Sessions, collected'[s] # {}
          PROVE  s \in actions /\ actionsOfIps[IpOf[s]] = s
      <4>1. CASE s = actionsOfIps[RecIp[r]]
        BY <1>0, <4>1
      <4>2. CASE s # actionsOfIps[RecIp[r]]
        BY <1>0, <2>4, <3>1, <4>2 DEF CollectAdd
      <4> QED BY <4>1, <4>2
    <3> QED BY <2>4, <3>1 DEF CollectAdd
  <2>5. CASE FlushClear
    BY <1>0, <2>5 DEF FlushClear
  <2>6. CASE FlushExit
    BY <1>0, <2>6 DEF FlushExit, createObjects
  <2>7. CASE RefreshInfoEnter
    BY <1>0, <2>7 DEF RefreshInfoEnter, RefreshBegin, createObjects
  <2>8. CASE prerun
    <3>0. ~mixed' => ~mixed /\ \A s \in Sessions : collected'[s] = {}
      BY <2>8, PrerunKeeps DEF AloneInv
    <3>1. CASE PrerunCreate
      BY <1>0, <3>1 DEF PrerunCreate, createObjects
    <3>2. CASE PrerunSelect
      <4>1. \A i \in Ips : actionsOfIps'[i] \in {NoSession, Unlisted}
        BY <1>0, <3>2, OutdatedIs DEF PrerunSelect
      <4>2. ~mixed => \A i \in Ips : actionsOfIps'[i] = NoSession
        BY <1>0, <3>2, OutdatedIs DEF PrerunSelect, AloneInv
      <4> QED BY <1>0, <3>0, <4>1, <4>2
    <3>3. ASSUME NEW s \in Sessions, PrerunPut(s)
          PROVE  TablesInv' /\ CollectedReachable'
      <4>1. todo \subseteq actions /\ (~mixed => torn = {})
        BY DEF PrerunInv, AloneInv
      <4> QED BY <1>0, <3>0, <3>3, <4>1 DEF PrerunPut, PutTorn
    <3>4. CASE UNCHANGED <<actions, actionsOfIps, mixed>>
      BY <3>0, <3>4
    <3> QED BY <2>8, <3>1, <3>2, <3>3, <3>4 DEF prerun, PrerunCheck, PrerunFill,
               PrerunEnds
  <2>9. CASE RefreshNewDAO \/ SqlCheckInRefresh \/ RefreshDenied
             \/ RefreshEndsEarly \/ RefreshThrows
    BY <2>9 DEF RefreshNewDAO, SqlCheckInRefresh, RefreshDenied,
       RefreshEndsEarly, RefreshThrows, colVars
  <2>10. CASE UNCHANGED <<tableVars, mixed>>
    BY <2>10
  <2> QED BY <1>2, <2>1, <2>2, <2>3, <2>4, <2>5, <2>6, <2>7, <2>8, <2>9, <2>10
          DEF CollectorStep, CollectorNext, RefreshSessions, Collect,
              FlushCollected, StartPreCollector, CollectorWakes, FlushEnter,
              FlushAction, SqlCheckInFlush, FlushInsert, FlushThrows,
              RefreshInfoExit, colVars
<1> QED BY <1>1, <1>2 DEF Next

-----------------------------------------------------------------------------
(* Records *)

\* Every step keeps the traffic of an address with the sessions of the
\* address.
LEMMA AddressStep ==
  ASSUME TypeOK, CursorInv, TablesInv, AddressKept, [Next]_vars
  PROVE  AddressKept'
<1> USE DEF AddressKept, tableVars, loopVars
<1>0. /\ actionsOfIps \in [Ips -> Sessions \cup {NoSession, Unlisted}]
      /\ collected \in [Sessions -> SUBSET Records]
      /\ urlLog \in [Sessions -> [Records -> 0..CountCap]]
      /\ cur \in Sessions \cup {NoSession}
      /\ RecIp \in [Records -> Ips]
      /\ {NoSession, Unlisted} \cap Sessions = {}
  BY TrafficAssumption, CollectorAssumption DEF TypeOK, ColTypeOK, SharedTypeOK
<1>1. CASE UNCHANGED <<collected, urlLog>>
  BY <1>1
<1>2. ASSUME NEW r \in Records, CollectAdd(r)
      PROVE  AddressKept'
  <2>1. ASSUME NEW s \in Sessions, NEW q \in Records, q \in collected'[s]
        PROVE  IpOf[s] = RecIp[q]
    <3>1. CASE q \in collected[s]
      BY <3>1
    <3>2. CASE q \notin collected[s]
      <4>1. q = r /\ s = actionsOfIps[RecIp[r]]
        BY <1>0, <1>2, <2>1, <3>2 DEF CollectAdd
      <4> QED BY <1>0, <4>1 DEF TablesInv
    <3> QED BY <3>1, <3>2
  <2> QED BY <1>2, <2>1 DEF CollectAdd
<1>3. ASSUME NEW r \in Records, FlushInsert(r)
      PROVE  AddressKept'
  <2>1. cur \in Sessions /\ r \in collected[cur]
    BY <1>0, <1>3 DEF FlushInsert, CursorInv
  <2>2. ASSUME NEW s \in Sessions, NEW q \in Records, urlLog'[s][q] > 0
        PROVE  IpOf[s] = RecIp[q]
    <3>1. CASE s = cur /\ q = r
      BY <2>1, <3>1
    <3>2. CASE ~(s = cur /\ q = r)
      <4>1. urlLog'[s][q] = urlLog[s][q]
        BY <1>0, <1>3, <2>1, <3>2 DEF FlushInsert
      <4> QED BY <2>2, <4>1
    <3> QED BY <3>1, <3>2
  <2> QED BY <1>3, <2>2 DEF FlushInsert
<1>4. CASE AggregateDelete /\ UNCHANGED colVars
  BY <1>4 DEF AggregateDelete, NoRows, colVars
<1>5. CASE /\ \A s \in Sessions : collected'[s] \subseteq collected[s]
           /\ UNCHANGED urlLog
  BY <1>5
<1>6. CASE CollectorStep
  <2>1. CASE (\E r \in Records : CollectEnter(r)) \/ FlushClear \/ FlushExit
             \/ RefreshInfoEnter
    BY <1>0, <1>5, <2>1 DEF CollectEnter, FlushClear, FlushExit,
       RefreshInfoEnter, RefreshBegin, createObjects
  <2>2. CASE prerun
    BY <1>5, <2>2, PrerunKeeps
  <2> QED BY <1>1, <1>2, <1>3, <1>6, <2>1, <2>2 DEF CollectorStep, CollectorNext,
       RefreshSessions, Collect, FlushCollected, RefreshNewDAO,
       SqlCheckInRefresh, RefreshSelect, RefreshStats, RefreshStatsTorn, RefreshDenied, RefreshEndsEarly,
       RefreshThrows, StartPreCollector, CollectorWakes, FlushEnter,
       FlushAction, SqlCheckInFlush, FlushThrows, RefreshInfoExit, colVars
<1>7. CASE AggregatorStep
  BY <1>1, <1>4, <1>7 DEF AggregatorStep, AggregatorNext, AggregatorWakes,
     AggregateEnter, AggregateNewDAO, SqlCheckInAggregate, AggregateSelect,
     DefineUsersUids, UpdateProtocols, UpdatePopularity, UpdateCtryPopularity,
     LoopEnds, AggregateThrows, colVars
<1>8. CASE Radius \/ Administrator \/ Reconfigurer \/ UNCHANGED vars
  BY <1>1, <1>8 DEF Radius, Administrator, DeleteUser, Reconfigurer, vars, colVars
<1> QED BY <1>6, <1>7, <1>8 DEF Next

\* Steps that change neither what is collected nor url_log.
LEMMA RecordsKept ==
  ASSUME [Next]_vars, ~AggregateDelete, ~prerun,
         \A r \in Records : ~CollectEnter(r), \A r \in Records : ~CollectAdd(r),
         \A r \in Records : ~FlushInsert(r),
         ~FlushClear, ~FlushExit, ~RefreshInfoEnter
  PROVE  UNCHANGED <<collected, urlLog>>
BY DEF Next, vars, Radius, Administrator, Reconfigurer, CollectorStep,
       AggregatorStep, DeleteUser, CollectorNext, RefreshSessions, Collect,
       FlushCollected, RefreshNewDAO, SqlCheckInRefresh, RefreshSelect,
       RefreshStats, RefreshStatsTorn, RefreshDenied, RefreshEndsEarly, RefreshThrows, StartPreCollector,
       CollectorWakes, FlushEnter, FlushAction, SqlCheckInFlush, FlushThrows,
       RefreshInfoExit, AggregatorNext, AggregatorWakes, AggregateEnter,
       AggregateNewDAO, SqlCheckInAggregate, AggregateSelect, DefineUsersUids,
       UpdateProtocols, UpdatePopularity, UpdateCtryPopularity, LoopEnds,
       AggregateThrows, colVars, tableVars, loopVars

\* What is collected only shrinks, except when Collect adds a record.
LEMMA CollectedShrinks ==
  ASSUME TypeOK, [Next]_vars, \A r \in Records : ~CollectAdd(r)
  PROVE  \A s \in Sessions : collected'[s] \subseteq collected[s]
<1>0. collected \in [Sessions -> SUBSET Records]
  BY DEF TypeOK, ColTypeOK
<1>1. ASSUME NEW r \in Records, CollectEnter(r)
      PROVE  \A s \in Sessions : collected'[s] \subseteq collected[s]
  BY <1>1 DEF CollectEnter, RefreshBegin, createObjects, tableVars
<1>2. CASE FlushClear
  BY <1>0, <1>2 DEF FlushClear
<1>3. CASE FlushExit \/ RefreshInfoEnter
  BY <1>3 DEF FlushExit, RefreshInfoEnter, RefreshBegin, createObjects
<1>4. CASE prerun
  BY <1>4, PrerunKeeps
<1>5. CASE AggregateDelete
  <2>1. \/ UNCHANGED collected
        \/ \E r \in Records : CollectEnter(r)
        \/ FlushClear \/ FlushExit \/ RefreshInfoEnter \/ prerun
    BY DEF Next, vars, Radius, Administrator, Reconfigurer, CollectorStep,
       AggregatorStep, DeleteUser, CollectorNext, RefreshSessions, Collect,
       FlushCollected, RefreshNewDAO, SqlCheckInRefresh, RefreshSelect,
       RefreshStats, RefreshStatsTorn, RefreshDenied, RefreshEndsEarly, RefreshThrows, StartPreCollector,
       CollectorWakes, FlushEnter, FlushAction, SqlCheckInFlush, FlushInsert,
       FlushThrows, RefreshInfoExit, colVars, tableVars, loopVars
  <2> QED BY <1>1, <1>2, <1>3, <1>4, <2>1
<1>6. ASSUME NEW r \in Records, FlushInsert(r)
      PROVE  \A s \in Sessions : collected'[s] \subseteq collected[s]
  BY <1>6 DEF FlushInsert, tableVars
<1> QED BY <1>1, <1>2, <1>3, <1>4, <1>5, <1>6, RecordsKept

\* An insert counts one record of one session, the aggregation empties url_log,
\* and nothing else touches it.
LEMMA LogSteps ==
  ASSUME TypeOK, CursorInv, [Next]_vars
  PROVE  \/ UNCHANGED urlLog
         \/ AggregateDelete /\ urlLog' = NoRows
         \/ \E r \in Records :
              /\ FlushInsert(r) /\ cur \in Sessions /\ r \in collected[cur]
              /\ urlLog'[cur][r] = Plus(urlLog[cur][r], 1)
              /\ \A s \in Sessions : \A q \in Records :
                   ~(s = cur /\ q = r) => urlLog'[s][q] = urlLog[s][q]
<1>0. /\ urlLog \in [Sessions -> [Records -> 0..CountCap]]
      /\ cur \in Sessions \cup {NoSession}
  BY DEF TypeOK, ColTypeOK, SharedTypeOK
<1>1. CASE AggregateDelete
  BY <1>1 DEF AggregateDelete
<1>2. ASSUME NEW r \in Records, FlushInsert(r), ~UNCHANGED urlLog
      PROVE  /\ cur \in Sessions /\ r \in collected[cur]
             /\ urlLog'[cur][r] = Plus(urlLog[cur][r], 1)
             /\ \A s \in Sessions : \A q \in Records :
                  ~(s = cur /\ q = r) => urlLog'[s][q] = urlLog[s][q]
  <2>1. cur \in Sessions /\ r \in collected[cur]
    BY <1>0, <1>2 DEF FlushInsert, CursorInv
  <2>2. urlLog' = [urlLog EXCEPT ![cur][r] = Plus(urlLog[cur][r], 1)]
    BY <1>2 DEF FlushInsert
  <2> QED BY <1>0, <2>1, <2>2
<1>3. ASSUME NEW r \in Records, CollectEnter(r) \/ CollectAdd(r)
      PROVE  UNCHANGED urlLog
  BY <1>3 DEF CollectEnter, CollectAdd
<1>4. CASE FlushClear \/ FlushExit \/ RefreshInfoEnter \/ prerun
  BY <1>4, PrerunKeeps DEF FlushClear, FlushExit, RefreshInfoEnter
<1> QED BY <1>1, <1>2, <1>3, <1>4, RecordsKept

\* Collect leaves its record in one session at most, and only then is done.
LEMMA CollectedOnce ==
  ASSUME TypeOK, FreshInv, NEW r \in Records, CollectAdd(r)
  PROVE  /\ pre[r] = "collect" /\ pre' = [pre EXCEPT ![r] = "done"]
         /\ \A s \in Sessions : r \notin collected[s] /\ urlLog[s][r] = 0
         /\ \A s \in Sessions : \A q \in Records :
              q \in collected'[s] <=>
                q \in collected[s] \/ (q = r /\ s = actionsOfIps[RecIp[r]])
         /\ UNCHANGED <<urlLog, colPc, cur, batch>>
<1>1. collected \in [Sessions -> SUBSET Records]
  BY DEF TypeOK, ColTypeOK
<1> QED BY <1>1 DEF CollectAdd, FreshInv, loopVars

\* A thread that is done stays done, and only Collect makes it so; who is dead
\* stays dead.
LEMMA DoneSteps ==
  ASSUME TypeOK, HolderInv, [Next]_vars, \A r \in Records : ~CollectAdd(r)
  PROVE  \A r \in Records : /\ (pre'[r] = "done") <=> (pre[r] = "done")
                            /\ pre[r] = "dead" => pre'[r] = "dead"
<1> USE DEF colVars, tableVars, loopVars
<1>0. pre \in [Records -> PrePoints]
  BY DEF TypeOK, ColTypeOK
<1>1. CASE UNCHANGED pre
  BY <1>1
<1>2. ASSUME NEW q \in Records, StartPreCollector(q) \/ CollectEnter(q)
      PROVE  \A r \in Records : /\ (pre'[r] = "done") <=> (pre[r] = "done")
                                /\ pre[r] = "dead" => pre'[r] = "dead"
  BY <1>0, <1>2 DEF StartPreCollector, CollectEnter
<1>3. CASE Dies
  BY <1>0, <1>3, ThreadNames DEF Dies, Release, HolderInv
<1>4. CASE CollectorStep
  BY <1>1, <1>2, <1>3, <1>4, PrerunKeeps DEF CollectorStep, CollectorNext,
     RefreshSessions, Collect, FlushCollected, RefreshNewDAO, SqlCheckInRefresh, RefreshSelect,
     RefreshStats, RefreshStatsTorn, RefreshDenied, RefreshEndsEarly, RefreshThrows, CollectorWakes, FlushEnter,
     FlushAction, SqlCheckInFlush, FlushInsert, FlushThrows, FlushClear,
     FlushExit, RefreshInfoEnter, RefreshInfoExit
<1>5. CASE Radius \/ Administrator \/ Reconfigurer \/ AggregatorStep \/ UNCHANGED vars
  BY <1>1, <1>5, OthersKeepTables
<1> QED BY <1>4, <1>5 DEF Next

\* A record gets into the tables by Collect only, and into one session.
LEMMA FreshStep ==
  ASSUME TypeOK, HolderInv, CursorInv, FreshInv, [Next]_vars
  PROVE  FreshInv'
<1>0. pre \in [Records -> PrePoints]
  BY DEF TypeOK, ColTypeOK
<1>1. ASSUME NEW r \in Records, CollectAdd(r)
      PROVE  FreshInv'
  BY <1>0, <1>1, CollectedOnce DEF FreshInv
<1>2. CASE \A r \in Records : ~CollectAdd(r)
  <2>1. ASSUME NEW r \in Records, pre'[r] # "done"
        PROVE  \A s \in Sessions : r \notin collected'[s] /\ urlLog'[s][r] = 0
    <3>1. pre[r] # "done"
      BY <1>2, <2>1, DoneSteps
    <3>2. \A s \in Sessions : r \notin collected[s] /\ urlLog[s][r] = 0
      BY <3>1 DEF FreshInv
    <3>3. \A s \in Sessions : urlLog'[s][r] = 0
      BY <3>2, LogSteps DEF NoRows
    <3> QED BY <1>2, <3>2, <3>3, CollectedShrinks
  <2> QED BY <1>2, <2>1, CollectedShrinks DEF FreshInv
<1> QED BY <1>1, <1>2

\* The daemon stays dead; until it has cleared a list it stays at it, and no
\* record of the list is to be inserted again.
LEMMA FlushPosition ==
  ASSUME TypeOK, HolderInv, CursorInv, [Next]_vars,
         NEW s \in Sessions, NEW r \in collected'[s],
         \/ colPc = "dead"
         \/ colPc = "flushing" /\ cur = s /\ r \notin batch
  PROVE  \/ colPc' = "dead"
         \/ colPc' = "flushing" /\ cur' = s /\ r \notin batch'
<1> USE DEF colVars, tableVars, loopVars
<1>0. /\ collected \in [Sessions -> SUBSET Records]
      /\ s # NoSession
  BY TrafficAssumption DEF TypeOK, ColTypeOK
<1>1. CASE UNCHANGED <<colPc, cur, batch>>
  BY <1>1
<1>2. CASE RefreshSessions
  <2>1. refresh # "none" => colPc # "flushing"
    BY DEF CursorInv
  <2>2. CASE RefreshThrows
    BY <2>1, <2>2 DEF RefreshThrows, Dies
  <2> QED BY <1>1, <1>2, <2>1, <2>2 DEF RefreshSessions, RefreshNewDAO,
             SqlCheckInRefresh, RefreshSelect, RefreshStats, RefreshStatsTorn, RefreshDenied, RefreshEndsEarly
<1>3. CASE FlushCollected
  <2>1. CASE FlushThrows
    BY ThreadNames, <2>1 DEF FlushThrows, Dies, Release, HolderInv
  <2>2. CASE FlushClear
    BY <1>0, <2>2 DEF FlushClear
  <2>3. CASE FlushExit
    BY <2>3 DEF FlushExit, createObjects
  <2> QED BY <1>0, <1>1, <1>3, <2>1, <2>2, <2>3 DEF FlushCollected, FlushEnter,
             FlushAction, SqlCheckInFlush, FlushInsert
<1>4. CASE CollectorStep
  BY <1>1, <1>2, <1>3, <1>4, PrerunKeeps DEF CollectorStep, CollectorNext,
     Collect, StartPreCollector, CollectEnter, CollectAdd, CollectorWakes,
     RefreshInfoEnter, RefreshInfoExit, PrerunPoints
<1>5. CASE Radius \/ Administrator \/ Reconfigurer \/ AggregatorStep \/ UNCHANGED vars
  BY <1>1, <1>5, OthersKeepTables
<1> QED BY <1>4, <1>5 DEF Next

\* A record that is in memory and in url_log is not inserted once more.
LEMMA PendingStep ==
  ASSUME TypeOK, HolderInv, CursorInv, FreshInv, PendingInv, [Next]_vars
  PROVE  PendingInv'
<1> SUFFICES ASSUME NEW r \in Records, NEW s \in Sessions, NEW t \in Sessions,
                    r \in collected'[s], urlLog'[t][r] > 0
             PROVE  \/ colPc' = "dead"
                    \/ colPc' = "flushing" /\ cur' = s /\ r \notin batch'
  BY DEF PendingInv
<1>1. ASSUME NEW q \in Records, CollectAdd(q)
      PROVE  \/ colPc' = "dead"
             \/ colPc' = "flushing" /\ cur' = s /\ r \notin batch'
  BY <1>1, CollectedOnce DEF PendingInv
<1>2. CASE \A q \in Records : ~CollectAdd(q)
  <2>1. r \in collected[s]
    BY <1>2, CollectedShrinks
  <2>2. CASE urlLog[t][r] > 0
    BY <2>1, <2>2, FlushPosition DEF PendingInv
  <2>3. CASE ~(urlLog[t][r] > 0)
    <3>1. PICK q \in Records :
            /\ FlushInsert(q) /\ cur \in Sessions /\ q \in collected[cur]
            /\ \A x \in Sessions : \A y \in Records :
                 ~(x = cur /\ y = q) => urlLog'[x][y] = urlLog[x][y]
      BY <2>3, LogSteps DEF NoRows
    <3>2. t = cur /\ r = q
      BY <2>3, <3>1
    <3>3. s = cur
      BY <2>1, <3>1, <3>2 DEF FreshInv
    <3> QED BY <3>1, <3>2, <3>3 DEF FlushInsert
  <2> QED BY <2>2, <2>3
<1> QED BY <1>1, <1>2

\* So no step logs a record twice.
LEMMA LoggedStep ==
  ASSUME TypeOK, CursorInv, PendingInv, LoggedAtMostOnce, [Next]_vars
  PROVE  LoggedAtMostOnce'
<1>0. urlLog \in [Sessions -> [Records -> 0..CountCap]]
  BY DEF TypeOK, SharedTypeOK
<1>1. CASE UNCHANGED urlLog
  BY <1>1 DEF LoggedAtMostOnce
<1>2. CASE urlLog' = NoRows
  BY <1>2 DEF LoggedAtMostOnce, NoRows
<1>3. ASSUME NEW q \in Records,
             FlushInsert(q), cur \in Sessions, q \in collected[cur],
             urlLog'[cur][q] = Plus(urlLog[cur][q], 1),
             \A s \in Sessions : \A r \in Records :
               ~(s = cur /\ r = q) => urlLog'[s][r] = urlLog[s][r]
      PROVE  LoggedAtMostOnce'
  <2>1. \A s \in Sessions : ~(urlLog[s][q] > 0)
    BY <1>3 DEF PendingInv, FlushInsert
  <2>2. \A s \in Sessions : urlLog[s][q] = 0
    BY <1>0, <2>1, CountCapNat
  <2>3. urlLog'[cur][q] = 1
    BY <1>3, <2>2, PlusZero
  <2>4. \A s \in Sessions : s # cur => urlLog'[s][q] = 0
    BY <1>3, <2>2
  <2>5. ASSUME NEW r \in Records, r # q
        PROVE  \A s \in Sessions : urlLog'[s][r] = urlLog[s][r]
    BY <1>3, <2>5
  <2>6. ASSUME NEW r \in Records, NEW s \in Sessions, NEW t \in Sessions
        PROVE  /\ urlLog'[s][r] <= 1
               /\ urlLog'[s][r] > 0 /\ urlLog'[t][r] > 0 => s = t
    <3>1. CASE r = q
      BY <2>3, <2>4, <3>1
    <3>2. CASE r # q
      BY <2>5, <3>2 DEF LoggedAtMostOnce
    <3> QED BY <3>1, <3>2
  <2> QED BY <2>6 DEF LoggedAtMostOnce
<1> QED BY <1>1, <1>2, <1>3, LogSteps

-----------------------------------------------------------------------------
(* What holds whatever happens to the database *)

\* The parts hold initially, together.
LEMMA TrafficInit == Init => TrafficInv
<1> SUFFICES ASSUME Init PROVE TrafficInv
  OBVIOUS
<1>1. TypeOK
  BY InitType
<1>2. HolderInv
  BY ThreadNames DEF Init, ColInit, AggInit, HolderInv, AggInside, AggPoints,
     Loops, Tables
<1>3. CursorInv /\ TablesInv
  BY DEF Init, ColInit, CursorInv, TablesInv
<1>4. PrerunInv /\ AloneInv
  <2>1. /\ todo = {} /\ torn = {} /\ ~mixed /\ refresh = "none"
        /\ colPc = "create"
        /\ \A s \in Sessions : collected[s] = {}
        /\ \A r \in Records : pre[r] # "collect"
    BY DEF Init, ColInit
  <2> QED BY <2>1 DEF PrerunInv, AloneInv
<1>5. CollectedReachable /\ AddressKept /\ FreshInv /\ PendingInv
  BY CollectorAssumption DEF Init, ColInit, NoRows, CollectedReachable,
     AddressKept, FreshInv, PendingInv
<1>6. LoggedAtMostOnce
  BY DEF Init, NoRows, LoggedAtMostOnce
<1> QED BY <1>1, <1>2, <1>3, <1>4, <1>5, <1>6 DEF TrafficInv

\* Every step keeps them together.
LEMMA TrafficStep == TrafficInv /\ [Next]_vars => TrafficInv'
BY TypeStep, HolderStep, CursorStep, MeetsStep, TablesStep, AddressStep, FreshStep,
   PendingStep, LoggedStep DEF TrafficInv

\* The inductive invariant of the pipeline, for every number of sessions,
\* addresses and responses and every Reconnect (Collector, Aggregator).
THEOREM TrafficInvariant == Spec => []TrafficInv
BY TrafficInit, TrafficStep, PTL DEF Spec

\* Every variable of the pipeline keeps its type (Collector, Aggregator,
\* DBConnection).
THEOREM TypeCorrect == Spec => []TypeOK
BY TrafficInvariant, PTL DEF TrafficInv

\* What is collected in memory is where the next flush looks for it, unless a
\* Collect has run during prerun() and nobody has made the objects anew inside
\* the monitor since (Collector._refreshSessions, prerun, Collect).
THEOREM CollectedIsReachable == Spec => []CollectedReachable
BY TrafficInvariant, PTL DEF TrafficInv

\* Nobody is charged with the traffic of another address
\* (Collector.Collect, Collector.FlushCollected).
THEOREM AddressIsKept == Spec => []AddressKept
BY TrafficInvariant, PTL DEF TrafficInv

\* A response gets into url_log once at most, also when inserts are lost and
\* the daemon dies in the middle of a flush (Collector.FlushCollected).
THEOREM LoggedOnce == Spec => []LoggedAtMostOnce
BY TrafficInvariant, PTL DEF TrafficInv

-----------------------------------------------------------------------------
(* With a connection and users that stay *)

\* The parts that need the connection to stay hold initially.
LEMMA StableInit == Stable /\ Init => StableInv
BY CountCapNat DEF Stable, Init, DBInit, AggInit, StableInv, DBInv, LogsInv,
   CountedInv, BilledAtMostOnce, NoRows, Rows, Reading, Loops, Tables

\* With a connection, a statement is executed.
LEMMA StatementExecuted ==
  ASSUME DBInv
  PROVE  ~SqlIgnored /\ ~SqlThrows
BY DEF DBInv, SqlIgnored, SqlThrows, Ignored, Throws

\* Every user of the list is known when its rows are counted, so an
\* aggregation never throws; nor does a refresh that is alone with its list.
LEMMA NeverThrows ==
  ASSUME TypeOK, CursorInv, AloneInv, DBInv, LogsInv
  PROVE  (RefreshThrows => mixed) /\ ~FlushThrows /\ ~AggregateThrows
<1>1. (RefreshThrows => mixed) /\ ~FlushThrows
  <2>1. rest \in SUBSET Sessions /\ NoSession \notin Sessions
    BY TrafficAssumption DEF TypeOK, ColTypeOK
  <2> QED BY <2>1, StatementExecuted DEF RefreshThrows, FlushThrows, AloneInv
<1>2. ~AggregateThrows
  <2>1. ASSUME aggPc \in {"url_popularity", "ctry_popularity"}, NEW x \in left
        PROVE  UserOf[x[1]] \in uids
    BY <2>1 DEF LogsInv, Reading, Loops, Tables
  <2> QED BY <2>1, StatementExecuted DEF AggregateThrows
<1> QED BY <1>1, <1>2

\* With a connection that stays, no step makes a statement fail.
LEMMA DBStep ==
  ASSUME Stable, TypeOK, HolderInv, CursorInv, PrerunInv, AloneInv, DBInv, LogsInv,
         [Next]_vars
  PROVE  DBInv'
<1> USE DEF DBInv, dbVars, aggVars, colVars, tableVars, loopVars
<1>1. CASE Radius \/ UNCHANGED vars
  BY <1>1 DEF Radius, vars
<1>2. CASE Administrator
  BY <1>2 DEF Administrator, DeleteUser, Stable
<1>3. CASE Reconfigurer
  BY <1>3 DEF Reconfigurer, Reconfigure, ReconnectBegin, ReconnectClose,
     ReconnectCloseFails, ReconnectForget, ReconnectConnect, Stable
<1>4. CASE CollectorStep
  <2>1. UNCHANGED <<conn, reconf, users>>
    BY <1>4 DEF CollectorStep
  <2>2. ASSUME colPc' \in PrerunPoints \cup {"dead"}
        PROVE  colPc \in PrerunPoints \cup {"dead"}
    <3>1. CASE RefreshThrows
      <4>1. mixed /\ refresh # "none"
        BY <3>1, NeverThrows DEF RefreshThrows
      <4>2. UNCHANGED colPc \/ colPc \in {"flushing", "refreshing"}
        BY <3>1 DEF RefreshThrows, Dies, Release, HolderInv
      <4> QED BY <2>2, <4>1, <4>2 DEF PrerunInv, CursorInv
    <3> QED BY <1>4, <2>2, <3>1, NeverThrows, PrerunKeeps
            DEF CollectorStep, CollectorNext, RefreshSessions, Collect,
                FlushCollected, RefreshNewDAO, SqlCheckInRefresh, RefreshSelect,
                RefreshStats, RefreshStatsTorn, RefreshDenied, RefreshEndsEarly,
                StartPreCollector, CollectEnter, CollectAdd, CollectorWakes,
                FlushEnter, FlushAction, SqlCheckInFlush, FlushInsert,
                FlushClear, FlushExit, RefreshInfoEnter, RefreshInfoExit,
                PrerunPoints
  <2>3. colPc \in PrerunPoints \cup {"dead"} => urlLog' \in {urlLog, NoRows}
    BY LogSteps DEF FlushInsert, PrerunPoints
  <2> QED BY <2>1, <2>2, <2>3
<1>5. CASE AggregatorStep
  <2>1. urlLog' \in {urlLog, NoRows} /\ UNCHANGED <<conn, reconf, users, colPc>>
    BY <1>5 DEF AggregatorStep, AggregatorNext, AggregatorWakes, AggregateEnter,
     AggregateNewDAO, SqlCheckInAggregate, AggregateSelect, DefineUsersUids,
     UpdateProtocols, UpdatePopularity, UpdateCtryPopularity, LoopEnds,
     AggregateDelete, AggregateThrows, AggregateExit
  <2> QED BY <2>1
<1> QED BY <1>1, <1>2, <1>3, <1>4, <1>5 DEF Next

\* Only the aggregation moves the list, and only while it is outside of its
\* monitor does url_log grow.
LEMMA OthersKeepLogs ==
  ASSUME TypeOK, HolderInv, CursorInv, [Next]_vars, ~AggregatorStep
  PROVE  /\ UNCHANGED <<aggPc, logs, uids, left, counted>>
         /\ aggPc \in Reading => UNCHANGED urlLog
<1>1. UNCHANGED <<aggPc, logs, uids, left, counted>>
  BY DEF Next, vars, Radius, Administrator, DeleteUser, Reconfigurer,
     CollectorStep, aggVars
<1>2. ASSUME aggPc \in Reading
      PROVE  UNCHANGED urlLog
  <2>1. wLock = "aggregator"
    BY <1>2 DEF HolderInv, AggInside, AggPoints, Reading, Loops, Tables
  <2>2. colPc # "flushing"
    BY <2>1 DEF HolderInv
  <2>3. \A r \in Records : ~FlushInsert(r)
    BY <2>2 DEF FlushInsert
  <2> QED BY <2>3, PrerunKeeps DEF Next, vars, Radius, Administrator, DeleteUser,
     Reconfigurer, CollectorStep, CollectorNext, RefreshSessions, Collect,
     FlushCollected, RefreshNewDAO, SqlCheckInRefresh, RefreshSelect,
     RefreshStats, RefreshStatsTorn, RefreshDenied, RefreshEndsEarly, RefreshThrows, StartPreCollector,
     CollectEnter, CollectAdd, CollectorWakes, FlushEnter, FlushAction,
     SqlCheckInFlush, FlushThrows, FlushClear, FlushExit, RefreshInfoEnter,
     RefreshInfoExit
<1> QED BY <1>1, <1>2

\* The list that the aggregator reads stays url_log as it is, until it
\* deletes.
LEMMA LogsStep ==
  ASSUME TypeOK, HolderInv, CursorInv, AloneInv, DBInv, LogsInv, [Next]_vars
  PROVE  LogsInv'
<1> USE DEF LogsInv, Reading, Loops, Tables
<1>1. CASE ~AggregatorStep
  BY <1>1, OthersKeepLogs DEF Rows
<1>2. CASE AggregatorStep
  <2> USE <1>2 DEF AggregatorStep
  <2>1. CASE AggregatorWakes
    BY <2>1 DEF AggregatorWakes, Rows
  <2>2. CASE AggregateEnter \/ AggregateNewDAO \/ SqlCheckInAggregate
    BY <2>2 DEF AggregateEnter, AggregateNewDAO, SqlCheckInAggregate, aggVars, Rows
  <2>3. CASE AggregateSelect
    BY <2>3, StatementExecuted DEF AggregateSelect, Rows
  <2>4. ASSUME NEW u \in Users, DefineUsersUids(u) PROVE LogsInv'
    <3>1. uids' = uids \cup {u}
      BY <2>4, StatementExecuted DEF DefineUsersUids, DBInv
    <3>2. Rows(logs)' = Rows(logs)
      BY <2>4 DEF DefineUsersUids, Rows
    <3> QED BY <2>4, <3>1, <3>2 DEF DefineUsersUids
  <2>5. ASSUME NEW s \in Sessions, UpdateProtocols(s) PROVE LogsInv'
    BY <2>5 DEF UpdateProtocols, Rows
  <2>6. ASSUME NEW s \in Sessions, NEW r \in Records,
               UpdatePopularity(s, r) \/ UpdateCtryPopularity(s, r)
        PROVE  LogsInv'
    BY <2>6 DEF UpdatePopularity, UpdateCtryPopularity, Rows
  <2>7. CASE LoopEnds
    BY <2>7 DEF LoopEnds, After, Rows
  <2>8. CASE AggregateDelete
    BY <2>8 DEF AggregateDelete, AggregateExit, Rows, NoRows
  <2> QED BY <2>1, <2>2, <2>3, <2>4, <2>5, <2>6, <2>7, <2>8, NeverThrows
          DEF AggregatorNext
<1> QED BY <1>1, <1>2

\* A table counts the rows of one session that its loop has not passed: each
\* of them once, and it had counted none of them.
LEMMA CountOnce ==
  ASSUME TrafficInv, StableInv, NEW t \in Tables, NEW s \in Sessions,
         NEW R \in SUBSET Records, aggPc = t, \A r \in R : <<s, r>> \in left,
         Count(t, s, R)
  PROVE  /\ \A r \in Records :
              counted'[t][r] = IF r \in R THEN 1 ELSE counted[t][r]
         /\ \A u \in Tables \ {t} : counted'[u] = counted[u]
<1>0. /\ counted \in [Tables -> [Records -> 0..CountCap]]
      /\ urlLog \in [Sessions -> [Records -> 0..CountCap]]
  BY DEF TrafficInv, TypeOK, AggTypeOK, SharedTypeOK
<1>1. logs = urlLog
  BY DEF StableInv, LogsInv, Reading, Loops
<1>2. ASSUME NEW r \in R
      PROVE  counted[t][r] = 0 /\ logs[s][r] = 1
  <2>1. urlLog[s][r] > 0
    BY <1>1, <1>2 DEF StableInv, LogsInv, Rows
  <2>2. urlLog[s][r] = 1
    BY <1>0, <1>2, <2>1, CountCapNat DEF TrafficInv, LoggedAtMostOnce
  <2>3. ~Passed(t, <<s, r>>)
    BY <1>2 DEF Passed, Later, Tables
  <2> QED BY <1>1, <2>1, <2>2, <2>3 DEF StableInv, CountedInv
<1>3. counted' = [counted EXCEPT ![t] =
        [r \in Records |-> IF r \in R THEN Plus(counted[t][r], logs[s][r])
                                      ELSE counted[t][r]]]
  BY DEF Count
<1>4. \A r \in Records :
        counted'[t][r] = IF r \in R THEN Plus(counted[t][r], logs[s][r])
                                    ELSE counted[t][r]
  BY <1>0, <1>3
<1>5. \A r \in R : Plus(counted[t][r], logs[s][r]) = 1
  BY <1>2, PlusZero
<1> QED BY <1>0, <1>3, <1>4, <1>5

\* What the loops of an aggregation do to the three tables.
LEMMA LoopStep ==
  ASSUME TrafficInv, StableInv, NEW t \in Tables, NEW s \in Sessions,
         NEW R \in SUBSET Records, aggPc = t, \A r \in R : <<s, r>> \in left,
         UNCHANGED <<aggPc, urlLog, pre, collected>>,
         left' = left \ ({s} \X R),
         \A r \in Records :
           counted'[t][r] = IF r \in R /\ Counts1(t, r) THEN 1 ELSE counted[t][r],
         \A u \in Tables \ {t} : counted'[u] = counted[u]
  PROVE  CountedInv' /\ BilledAtMostOnce'
<1>0. /\ counted \in [Tables -> [Records -> 0..CountCap]]
      /\ urlLog \in [Sessions -> [Records -> 0..CountCap]]
  BY DEF TrafficInv, TypeOK, AggTypeOK, SharedTypeOK
<1>1. logs = urlLog /\ wLock = "aggregator"
  BY DEF TrafficInv, HolderInv, AggInside, AggPoints, StableInv, LogsInv,
         Reading, Loops, Tables
<1>2. ASSUME NEW r \in R
      PROVE  urlLog[s][r] > 0
  BY <1>1, <1>2 DEF StableInv, LogsInv, Rows
<1>3. ASSUME NEW r \in R
      PROVE  pre[r] = "done" /\ \A q \in Sessions : r \notin collected[q]
  <2>1. colPc # "flushing" /\ colPc # "dead"
    BY <1>1, <1>2 DEF TrafficInv, HolderInv, StableInv, DBInv, NoRows
  <2> QED BY <1>0, <1>2, <2>1 DEF TrafficInv, FreshInv, PendingInv
<1>4. ASSUME NEW u \in Tables, NEW q \in Sessions, NEW r \in Records,
             urlLog[q][r] > 0
      PROVE  counted'[u][r] =
               IF Passed(u, <<q, r>>)' /\ Counts1(u, r) THEN 1 ELSE 0
  <2>1. counted[u][r] =
          IF Passed(u, <<q, r>>) /\ Counts1(u, r) THEN 1 ELSE 0
    BY <1>4 DEF StableInv, CountedInv
  <2>2. CASE u = t /\ r \in R
    <3>1. q = s
      BY <1>2, <1>4, <2>2 DEF TrafficInv, LoggedAtMostOnce
    <3>2. <<q, r>> \in left /\ <<q, r>> \notin left'
      BY <2>2, <3>1
    <3>3. Passed(u, <<q, r>>)' /\ ~Passed(u, <<q, r>>)
      BY <2>2, <3>2 DEF Passed, Later, Tables
    <3> QED BY <2>1, <2>2, <3>3
  <2>3. CASE u = t /\ r \notin R
    <3>1. <<q, r>> \in left <=> <<q, r>> \in left'
      BY <2>3
    <3>2. Passed(u, <<q, r>>)' <=> Passed(u, <<q, r>>)
      BY <2>3, <3>1 DEF Passed
    <3> QED BY <2>1, <2>3, <3>2
  <2>4. CASE u # t
    <3>1. Passed(u, <<q, r>>)' <=> Passed(u, <<q, r>>)
      BY <2>4 DEF Passed
    <3> QED BY <2>1, <2>4, <3>1
  <2> QED BY <2>2, <2>3, <2>4
<1>5. ASSUME NEW u \in Tables, NEW r \in Records, counted'[u][r] > 0
      PROVE  pre'[r] = "done" /\ \A q \in Sessions : r \notin collected'[q]
  <2>1. CASE u = t /\ r \in R
    BY <1>3, <2>1
  <2>2. CASE ~(u = t /\ r \in R)
    <3>1. counted'[u][r] = counted[u][r]
      BY <2>2
    <3> QED BY <1>5, <3>1 DEF StableInv, CountedInv
  <2> QED BY <2>1, <2>2
<1>6. \A u \in Tables : \A r \in Records : counted'[u][r] <= 1
  BY <1>0 DEF StableInv, BilledAtMostOnce
<1> QED BY <1>4, <1>5, <1>6 DEF CountedInv, BilledAtMostOnce

\* A step of another thread leaves what is counted as the loops have passed
\* it.
LEMMA CountedOutside ==
  ASSUME TrafficInv, StableInv, [Next]_vars, ~AggregatorStep
  PROVE  CountedInv' /\ BilledAtMostOnce'
<1>0. /\ counted \in [Tables -> [Records -> 0..CountCap]]
      /\ urlLog \in [Sessions -> [Records -> 0..CountCap]]
      /\ pre \in [Records -> PrePoints]
      /\ CountCap \in Nat
  BY CountCapNat DEF TrafficInv, TypeOK, AggTypeOK, ColTypeOK, SharedTypeOK
<1>1. /\ UNCHANGED <<aggPc, logs, uids, left, counted>>
      /\ aggPc \in Reading => UNCHANGED urlLog
  BY OthersKeepLogs DEF TrafficInv
<1>2. ASSUME NEW t \in Tables, NEW r \in Records, counted'[t][r] > 0
      PROVE  pre'[r] = "done" /\ \A s \in Sessions : r \notin collected'[s]
  <2>1. pre[r] = "done" /\ \A s \in Sessions : r \notin collected[s]
    BY <1>1, <1>2 DEF StableInv, CountedInv
  <2>2. ASSUME NEW q \in Records, CollectAdd(q)
        PROVE  pre'[r] = "done" /\ \A s \in Sessions : r \notin collected'[s]
    BY <1>0, <2>1, <2>2, CollectedOnce DEF TrafficInv
  <2>3. CASE \A q \in Records : ~CollectAdd(q)
    BY <2>1, <2>3, DoneSteps, CollectedShrinks DEF TrafficInv
  <2> QED BY <2>2, <2>3
<1>3. ASSUME NEW t \in Tables, NEW s \in Sessions, NEW r \in Records,
             urlLog'[s][r] > 0
      PROVE  counted'[t][r] =
               IF Passed(t, <<s, r>>)' /\ Counts1(t, r) THEN 1 ELSE 0
  <2>1. Passed(t, <<s, r>>)' <=> Passed(t, <<s, r>>)
    BY <1>1 DEF Passed
  <2>2. CASE urlLog[s][r] > 0
    BY <1>1, <2>1, <2>2 DEF StableInv, CountedInv
  <2>3. CASE ~(urlLog[s][r] > 0)
    <3>1. urlLog' # urlLog /\ ~AggregateDelete
      <4>1. urlLog' # urlLog
        BY <1>3, <2>3
      <4>2. aggPc # "delete"
        BY <1>1, <4>1 DEF Reading
      <4> QED BY <4>1, <4>2 DEF AggregateDelete
    <3>2. PICK q \in Records :
            /\ cur \in Sessions /\ q \in collected[cur]
            /\ \A x \in Sessions : \A y \in Records :
                 ~(x = cur /\ y = q) => urlLog'[x][y] = urlLog[x][y]
      BY <3>1, LogSteps DEF TrafficInv
    <3>3. r = q
      BY <1>3, <2>3, <3>2
    <3>4. ~(counted[t][r] > 0)
      BY <3>2, <3>3 DEF StableInv, CountedInv
    <3>5. counted[t][r] = 0
      BY <1>0, <3>4
    <3>6. ~Passed(t, <<s, r>>)
      BY <1>1, <3>1 DEF Passed, Later, Reading, Loops, Tables
    <3> QED BY <1>1, <2>1, <3>5, <3>6
  <2> QED BY <2>2, <2>3
<1> QED BY <1>1, <1>2, <1>3 DEF CountedInv, StableInv, BilledAtMostOnce

\* So does a step of the aggregator.
LEMMA CountedInside ==
  ASSUME TrafficInv, StableInv, [Next]_vars, AggregatorStep
  PROVE  CountedInv' /\ BilledAtMostOnce'
<1>0. /\ left \in SUBSET (Sessions \X Records)
      /\ counted \in [Tables -> [Records -> 0..CountCap]]
  BY DEF TrafficInv, TypeOK, AggTypeOK
<1>1. UNCHANGED <<pre, collected>>
  BY DEF AggregatorStep, colVars, tableVars
<1>2. CASE /\ UNCHANGED <<counted, urlLog>>
           /\ \A t \in Tables : \A s \in Sessions : \A r \in Records :
                Passed(t, <<s, r>>)' <=> Passed(t, <<s, r>>)
  BY <1>1, <1>2 DEF StableInv, CountedInv, BilledAtMostOnce
<1>3. CASE AggregatorWakes \/ AggregateEnter \/ AggregateNewDAO
           \/ SqlCheckInAggregate \/ AggregateSelect
           \/ \E u \in Users : DefineUsersUids(u)
  <2>1. UNCHANGED <<counted, urlLog>>
    BY <1>3 DEF AggregatorWakes, AggregateEnter, AggregateNewDAO,
       SqlCheckInAggregate, AggregateSelect, DefineUsersUids, aggVars
  <2>2. \A t \in Tables : \A s \in Sessions : \A r \in Records :
          Passed(t, <<s, r>>)' <=> Passed(t, <<s, r>>)
    BY <1>3 DEF AggregatorWakes, AggregateEnter, AggregateNewDAO,
       SqlCheckInAggregate, AggregateSelect, DefineUsersUids, aggVars,
       Passed, Later, Tables
  <2> QED BY <1>2, <2>1, <2>2
<1>4. ASSUME NEW s \in Sessions, UpdateProtocols(s)
      PROVE  CountedInv' /\ BilledAtMostOnce'
  <2> DEFINE mine == {r \in Records : <<s, r>> \in left}
  <2>1. /\ aggPc = "protocols" /\ aggPc' = aggPc /\ urlLog' = urlLog
        /\ left' = left \ ({s} \X mine)
        /\ Count("protocols", s, mine)
    BY <1>4, StatementExecuted DEF UpdateProtocols, StableInv
  <2>2. "protocols" \in Tables /\ mine \in SUBSET Records
    BY DEF Tables
  <2>3. \A r \in mine : <<s, r>> \in left
    OBVIOUS
  <2> HIDE DEF mine
  <2>4. /\ \A r \in Records :
             counted'["protocols"][r] =
               IF r \in mine THEN 1 ELSE counted["protocols"][r]
        /\ \A u \in Tables \ {"protocols"} : counted'[u] = counted[u]
    BY <2>1, <2>2, <2>3, CountOnce
  <2>5. \A r \in Records : Counts1("protocols", r)
    BY DEF Counts1
  <2> QED BY <1>1, <2>1, <2>2, <2>3, <2>4, <2>5, LoopStep
<1>5. ASSUME NEW s \in Sessions, NEW r \in Records, UpdatePopularity(s, r)
      PROVE  CountedInv' /\ BilledAtMostOnce'
  <2>1. /\ aggPc = "url_popularity" /\ aggPc' = aggPc /\ urlLog' = urlLog
        /\ <<s, r>> \in left /\ left' = left \ {<<s, r>>}
        /\ Count("url_popularity", s, {r})
    BY <1>5, StatementExecuted DEF UpdatePopularity, StableInv
  <2>2. "url_popularity" \in Tables /\ {r} \in SUBSET Records
    BY DEF Tables
  <2>3. /\ \A q \in Records :
             counted'["url_popularity"][q] =
               IF q \in {r} THEN 1 ELSE counted["url_popularity"][q]
        /\ \A u \in Tables \ {"url_popularity"} : counted'[u] = counted[u]
    BY <2>1, <2>2, CountOnce
  <2>4. \A q \in Records : Counts1("url_popularity", q)
    BY DEF Counts1
  <2>5. left' = left \ ({s} \X {r})
    BY <2>1
  <2> QED BY <1>1, <2>1, <2>2, <2>3, <2>4, <2>5, LoopStep
<1>6. ASSUME NEW s \in Sessions, NEW r \in Records, UpdateCtryPopularity(s, r)
      PROVE  CountedInv' /\ BilledAtMostOnce'
  <2>1. /\ aggPc = "ctry_popularity" /\ aggPc' = aggPc /\ urlLog' = urlLog
        /\ <<s, r>> \in left /\ left' = left \ {<<s, r>>}
        /\ \/ r \in Located /\ Count("ctry_popularity", s, {r})
           \/ r \notin Located /\ UNCHANGED counted
    BY <1>6, StatementExecuted DEF UpdateCtryPopularity, StableInv
  <2>2. "ctry_popularity" \in Tables /\ {r} \in SUBSET Records
    BY DEF Tables
  <2>3. /\ \A q \in Records :
             counted'["ctry_popularity"][q] =
               IF q \in {r} /\ Counts1("ctry_popularity", q)
                 THEN 1 ELSE counted["ctry_popularity"][q]
        /\ \A u \in Tables \ {"ctry_popularity"} : counted'[u] = counted[u]
    <3>1. CASE r \in Located /\ Count("ctry_popularity", s, {r})
      BY <2>1, <2>2, <3>1, CountOnce DEF Counts1
    <3>2. CASE r \notin Located /\ UNCHANGED counted
      BY <3>2 DEF Counts1
    <3> QED BY <2>1, <3>1, <3>2
  <2>4. left' = left \ ({s} \X {r})
    BY <2>1
  <2> QED BY <1>1, <2>1, <2>2, <2>3, <2>4, LoopStep
<1>7. CASE LoopEnds
  <2>1. UNCHANGED <<counted, urlLog>> /\ left = {} /\ aggPc \in Loops
        /\ aggPc' = After[aggPc]
    BY <1>7 DEF LoopEnds
  <2>2. ASSUME NEW t \in Tables, NEW s \in Sessions, NEW r \in Records,
               urlLog[s][r] > 0
        PROVE  Passed(t, <<s, r>>)' <=> Passed(t, <<s, r>>)
    <3>1. aggPc' # "delete" => <<s, r>> \in left'
      <4>1. logs = urlLog
        BY <2>1 DEF StableInv, LogsInv, Reading
      <4>2. <<s, r>> \in Rows(logs)
        BY <2>2, <4>1 DEF Rows
      <4> QED BY <1>7, <4>2 DEF LoopEnds
    <3> QED BY <2>1, <3>1 DEF Passed, Later, After, Loops, Tables
  <2> QED BY <1>1, <2>1, <2>2 DEF StableInv, CountedInv, BilledAtMostOnce
<1>8. CASE AggregateDelete
  <2>1. urlLog' = NoRows /\ counted' = counted
    BY <1>8, StatementExecuted DEF AggregateDelete, AggregateExit, StableInv
  <2> QED BY <1>1, <2>1 DEF NoRows, StableInv, CountedInv, BilledAtMostOnce
<1> QED BY <1>3, <1>4, <1>5, <1>6, <1>7, <1>8, NeverThrows
        DEF AggregatorStep, AggregatorNext, TrafficInv, StableInv

\* Every step keeps the parts that need the connection to stay.
LEMMA StableStep ==
  ASSUME Stable, TrafficInv, StableInv, [Next]_vars
  PROVE  StableInv'
<1>1. DBInv'
  BY DBStep DEF TrafficInv, StableInv
<1>2. LogsInv'
  BY LogsStep DEF TrafficInv, StableInv
<1>3. CountedInv' /\ BilledAtMostOnce'
  BY CountedOutside, CountedInside
<1> QED BY <1>1, <1>2, <1>3 DEF StableInv

\* The part of the inductive invariant that needs a stable connection.
THEOREM StableInvariant ==
  ASSUME Stable
  PROVE  Spec => []StableInv
<1>1. Init => StableInv
  BY StableInit
<1>2. TrafficInv /\ StableInv /\ [Next]_vars => StableInv'
  BY StableStep
<1> QED BY <1>1, <1>2, TrafficInvariant, PTL DEF Spec

\* With a stable connection no table of the reports counts a response twice
\* (Aggregator.Aggregate).
THEOREM BilledOnce ==
  ASSUME Stable
  PROVE  Spec => []BilledAtMostOnce
BY StableInvariant, PTL DEF StableInv

\* A record leaves url_log when every table has counted it.
LEMMA DeleteAfterBilling ==
  ASSUME TrafficInv, StableInv, [Next]_vars,
         NEW s \in Sessions, NEW r \in Records,
         urlLog[s][r] > 0, urlLog'[s][r] = 0
  PROVE  /\ counted["protocols"][r] > 0
         /\ counted["url_popularity"][r] > 0
         /\ r \in Located => counted["ctry_popularity"][r] > 0
<1>1. AggregateDelete
  <2>1. ASSUME NEW q \in Records, cur \in Sessions,
               urlLog'[cur][q] = Plus(urlLog[cur][q], 1),
               \A x \in Sessions : \A y \in Records :
                 ~(x = cur /\ y = q) => urlLog'[x][y] = urlLog[x][y]
        PROVE  FALSE
    <3>1. s = cur /\ r = q
      BY <2>1
    <3>2. urlLog[cur][q] \in 0..CountCap /\ CountCap \in Nat /\ CountCap > 1
      BY <2>1, CountCapNat DEF TrafficInv, TypeOK, SharedTypeOK
    <3> QED BY <2>1, <3>1, <3>2 DEF Plus
  <2> QED BY <2>1, LogSteps DEF TrafficInv
<1>2. \A t \in Tables : Passed(t, <<s, r>>)
  BY <1>1 DEF AggregateDelete, Passed, Later, Tables
<1>3. \A t \in Tables : Counts1(t, r) => counted[t][r] = 1
  BY <1>2 DEF StableInv, CountedInv
<1> QED BY <1>3 DEF Counts1, Tables

\* With a stable connection a row leaves url_log only after every table of the
\* reports has counted it (Aggregator.Aggregate).
THEOREM LogIsKeptUntilBilled ==
  ASSUME Stable
  PROVE  Spec => LogKeptUntilBilled
<1>1. TrafficInv /\ StableInv /\ [Next]_vars =>
        [\A s \in Sessions : \A r \in Records :
           urlLog[s][r] > 0 /\ urlLog'[s][r] = 0 =>
             /\ counted["protocols"][r] > 0
             /\ counted["url_popularity"][r] > 0
             /\ r \in Located => counted["ctry_popularity"][r] > 0]_vars
  BY DeleteAfterBilling
<1> QED BY <1>1, TrafficInvariant, StableInvariant, PTL DEF Spec, LogKeptUntilBilled

-----------------------------------------------------------------------------
(***************************************************************************)
(* The pipeline and the ledger.  With a connection that is not replaced    *)
(* and users that are not deleted the pipeline implements TrafficLedger.   *)
(***************************************************************************)

Billed(r) == counted["protocols"][r] = 1
Logged(r) == \E s \in Sessions : urlLog[s][r] > 0
Held(r) == \E s \in Sessions : r \in collected[s]

\* A record that is in memory and in url_log is there for one session.
SameAccount ==
  \A r \in Records : \A s, t \in Sessions :
    r \in collected[s] /\ urlLog[t][r] > 0 => s = t

PhaseFacts ==
  \A r \in Records :
    /\ ledgerPhase[r] = IF Billed(r) THEN "billed"
                        ELSE IF Logged(r) THEN "logged"
                        ELSE IF Held(r) THEN "held"
                        ELSE IF pre[r] \in {"done", "dead"} THEN "lost"
                        ELSE "pending"
    /\ ledgerAccount[r] = IF ~Billed(r) /\ (Logged(r) \/ Held(r))
                            THEN {s \in Sessions : r \in collected[s] \/ urlLog[s][r] > 0}
                            ELSE {}
    /\ Billed(r) => pre[r] = "done" /\ ~Held(r)
    /\ Logged(r) \/ Held(r) => pre[r] = "done"

\* Where a record is, in the states the pipeline gets to.
LEMMA PhaseIs == TrafficInv /\ StableInv => PhaseFacts
<1> SUFFICES ASSUME TrafficInv, StableInv, NEW r \in Records
             PROVE  /\ ledgerPhase[r] = IF Billed(r) THEN "billed"
                                        ELSE IF Logged(r) THEN "logged"
                                        ELSE IF Held(r) THEN "held"
                                        ELSE IF pre[r] \in {"done", "dead"} THEN "lost"
                                        ELSE "pending"
                    /\ ledgerAccount[r] = IF ~Billed(r) /\ (Logged(r) \/ Held(r))
                         THEN {s \in Sessions : r \in collected[s] \/ urlLog[s][r] > 0}
                         ELSE {}
                    /\ Billed(r) => pre[r] = "done" /\ ~Held(r)
                    /\ Logged(r) \/ Held(r) => pre[r] = "done"
  BY DEF PhaseFacts
<1>1. "protocols" \in Tables BY DEF Tables
<1>2. ~(\E t \in Tables : counted[t][r] > 1)
  <2>1. \A t \in Tables : counted[t][r] \in Nat /\ counted[t][r] <= 1
    BY DEF TrafficInv, TypeOK, AggTypeOK, StableInv, BilledAtMostOnce
  <2> QED BY <2>1
<1>3. ledgerPhase[r] = IF Billed(r) THEN "billed"
                       ELSE IF Logged(r) THEN "logged"
                       ELSE IF Held(r) THEN "held"
                       ELSE IF pre[r] \in {"done", "dead"} THEN "lost"
                       ELSE "pending"
  BY <1>2 DEF ledgerPhase, Billed, Logged, Held
<1>4. ledgerAccount[r] = IF ~Billed(r) /\ (Logged(r) \/ Held(r))
                           THEN {s \in Sessions : r \in collected[s] \/ urlLog[s][r] > 0}
                           ELSE {}
  BY <1>3 DEF ledgerAccount
<1>5. Billed(r) => pre[r] = "done" /\ ~Held(r)
  BY <1>1 DEF StableInv, CountedInv, Billed, Held
<1>6. Logged(r) \/ Held(r) => pre[r] = "done"
  <2>1. \A s \in Sessions : urlLog[s][r] \in Nat
    BY DEF TrafficInv, TypeOK, SharedTypeOK
  <2> QED BY <2>1 DEF TrafficInv, FreshInv, Logged, Held
<1> QED BY <1>3, <1>4, <1>5, <1>6

\* A flush inserts for the session that has collected the record.
LEMMA SameAccountStep ==
  ASSUME TrafficInv, SameAccount, [Next]_vars
  PROVE  SameAccount'
<1>0. TypeOK /\ CursorInv /\ FreshInv
  BY DEF TrafficInv
<1>1. ASSUME NEW r \in Records, CollectAdd(r) PROVE SameAccount'
  BY <1>0, <1>1, CollectedOnce DEF SameAccount
<1>2. CASE \A r \in Records : ~CollectAdd(r)
  <2>1. \A s \in Sessions : collected'[s] \subseteq collected[s]
    BY <1>0, <1>2, CollectedShrinks
  <2>2. ASSUME NEW r \in Records, NEW t \in Sessions, urlLog'[t][r] > 0
        PROVE  urlLog[t][r] > 0 \/ r \in collected[t]
    BY <1>0, <2>2, LogSteps DEF NoRows
  <2> QED BY <1>0, <2>1, <2>2 DEF SameAccount, FreshInv
<1> QED BY <1>1, <1>2

\* Nothing is in memory or in url_log at first.
LEMMA SameAccountInit == Init => SameAccount
BY DEF Init, ColInit, SameAccount

-----------------------------------------------------------------------------
(* Moves of the ledger *)

Keeps(r) ==
  ledgerPhase'[r] = ledgerPhase[r] /\ ledgerAccount'[r] = ledgerAccount[r]

\* Two ledgers with the same entries are the same.
LEMMA LedgerFunctions ==
  /\ ledgerPhase = [r \in Records |-> ledgerPhase[r]]
  /\ ledgerAccount = [r \in Records |-> ledgerAccount[r]]
  /\ ledgerPhase' = [r \in Records |-> ledgerPhase'[r]]
  /\ ledgerAccount' = [r \in Records |-> ledgerAccount'[r]]
BY DEF ledgerPhase, ledgerAccount

\* Records that change phase and account alike, the others staying, are a Move
\* of the ledger.
LEMMA MoveIs ==
  ASSUME NEW R \in SUBSET Records, NEW from, NEW to, NEW S,
         \A r \in R : ledgerPhase[r] \in from
                      /\ ledgerPhase'[r] = to /\ ledgerAccount'[r] = S,
         \A r \in Records \ R : Keeps(r)
  PROVE  Ledger!Move(R, from, to, S)
<1>1. ledgerPhase' = [r \in Records |-> IF r \in R THEN to ELSE ledgerPhase[r]]
  BY LedgerFunctions DEF Keeps
<1>2. ledgerAccount' = [r \in Records |-> IF r \in R THEN S ELSE ledgerAccount[r]]
  BY LedgerFunctions DEF Keeps
<1> QED BY <1>1, <1>2 DEF Ledger!Move

\* What is where it was keeps its entry.
LEMMA SameEntry ==
  ASSUME PhaseFacts, PhaseFacts', NEW r \in Records,
         counted'["protocols"][r] = counted["protocols"][r],
         \A s \in Sessions : (r \in collected'[s]) <=> (r \in collected[s]),
         \A s \in Sessions : urlLog'[s][r] = urlLog[s][r],
         pre'[r] = pre[r]
  PROVE  Keeps(r)
<1>1. Billed(r)' <=> Billed(r) BY DEF Billed
<1>2. Logged(r)' <=> Logged(r) BY DEF Logged
<1>3. Held(r)' <=> Held(r) BY DEF Held
<1>4. {s \in Sessions : r \in collected'[s] \/ urlLog'[s][r] > 0}
        = {s \in Sessions : r \in collected[s] \/ urlLog[s][r] > 0}
  OBVIOUS
<1> QED BY <1>1, <1>2, <1>3, <1>4 DEF PhaseFacts, Keeps

-----------------------------------------------------------------------------
(* Steps of the pipeline *)

\* Only UpdateProtocols changes the counters of the protocols.
LEMMA ProtocolsKept ==
  ASSUME TypeOK, [Next]_vars, \A s \in Sessions : ~UpdateProtocols(s)
  PROVE  counted'["protocols"] = counted["protocols"]
<1> USE DEF aggVars
<1>0. counted \in [Tables -> [Records -> 0..CountCap]] /\ "protocols" \in Tables
  BY DEF TypeOK, AggTypeOK, Tables
<1>1. ASSUME NEW s \in Sessions, NEW r \in Records,
             UpdatePopularity(s, r) \/ UpdateCtryPopularity(s, r)
      PROVE  counted'["protocols"] = counted["protocols"]
  <2>1. \/ UNCHANGED counted
        \/ Count("url_popularity", s, {r})
        \/ Count("ctry_popularity", s, {r})
    BY <1>1 DEF UpdatePopularity, UpdateCtryPopularity
  <2> QED BY <1>0, <2>1 DEF Count
<1>2. CASE AggregatorStep
  BY <1>1, <1>2 DEF AggregatorStep, AggregatorNext, AggregatorWakes,
     AggregateEnter, AggregateNewDAO, SqlCheckInAggregate, AggregateSelect,
     DefineUsersUids, LoopEnds, AggregateDelete, AggregateThrows, AggregateExit
<1>3. CASE Radius \/ Administrator \/ Reconfigurer \/ CollectorStep \/ UNCHANGED vars
  BY <1>3 DEF Radius, Administrator, DeleteUser, Reconfigurer, CollectorStep, vars
<1> QED BY <1>2, <1>3 DEF Next

\* Collect holds its record for the session that has the address, or drops it.
LEMMA CollectMoves ==
  ASSUME TrafficInv, StableInv, SameAccount, PhaseFacts, PhaseFacts', [Next]_vars,
         NEW r \in Records, CollectAdd(r)
  PROVE  Ledger!Next
<1>0. TypeOK /\ FreshInv /\ TablesInv
  BY DEF TrafficInv
<1>1. /\ pre[r] = "collect" /\ pre' = [pre EXCEPT ![r] = "done"]
      /\ \A s \in Sessions : r \notin collected[s] /\ urlLog[s][r] = 0
      /\ \A s \in Sessions : \A q \in Records :
           q \in collected'[s] <=>
             q \in collected[s] \/ (q = r /\ s = actionsOfIps[RecIp[r]])
      /\ urlLog' = urlLog
  BY <1>0, CollectedOnce
<1>2. pre \in [Records -> PrePoints]
  BY <1>0 DEF TypeOK, ColTypeOK
<1>3. CollectorStep
  BY <1>1, <1>2, OthersKeepTables DEF Next
<1>4. counted' = counted
  BY <1>3 DEF CollectorStep, aggVars
<1>5. ASSUME NEW q \in Records \ {r} PROVE Keeps(q)
  BY <1>1, <1>2, <1>4, <1>5, SameEntry
<1>6. ledgerPhase[r] = "pending"
  BY <1>1 DEF PhaseFacts, Logged, Held
<1>7. ~Billed(r)' /\ ~Logged(r)' /\ pre'[r] = "done"
  BY <1>1, <1>2, <1>4 DEF PhaseFacts, Billed, Logged
<1>8. CASE actionsOfIps[RecIp[r]] \in Sessions
  <2> DEFINE s == actionsOfIps[RecIp[r]]
  <2>1. IpOf[s] = RecIp[r]
    BY <1>0, <1>8, TrafficAssumption, CollectorAssumption DEF TablesInv
  <2>2. ledgerPhase'[r] = "held" /\ ledgerAccount'[r] = {s}
    <3>1. Held(r)' BY <1>1, <1>8 DEF Held
    <3>2. {x \in Sessions : r \in collected'[x] \/ urlLog'[x][r] > 0} = {s}
      BY <1>1, <1>8
    <3> QED BY <1>7, <3>1, <3>2 DEF PhaseFacts
  <2>3. Ledger!Move({r}, {"pending"}, "held", {s})
    BY <1>5, <1>6, <2>2, MoveIs
  <2> QED BY <1>8, <2>1, <2>3 DEF Ledger!Next, Ledger!Hold
<1>9. CASE actionsOfIps[RecIp[r]] \notin Sessions
  <2>1. ledgerPhase'[r] = "lost" /\ ledgerAccount'[r] = {}
    <3>1. ~Held(r)' BY <1>1, <1>9 DEF Held
    <3> QED BY <1>7, <3>1 DEF PhaseFacts
  <2>2. Ledger!Move({r}, {"pending", "held"}, "lost", {})
    BY <1>5, <1>6, <2>1, MoveIs
  <2> QED BY <2>2 DEF Ledger!Next, Ledger!Lose
<1> QED BY <1>8, <1>9

\* An insert logs a record for the session it is held for.
LEMMA InsertMoves ==
  ASSUME TrafficInv, StableInv, SameAccount, PhaseFacts, PhaseFacts', [Next]_vars,
         NEW r \in Records, FlushInsert(r), cur \in Sessions, r \in collected[cur],
         urlLog'[cur][r] = Plus(urlLog[cur][r], 1),
         \A s \in Sessions : \A q \in Records :
           ~(s = cur /\ q = r) => urlLog'[s][q] = urlLog[s][q]
  PROVE  Ledger!Next
<1>1. r \in batch /\ batch' = batch \ {r} /\ UNCHANGED <<collected, pre>>
  BY DEF FlushInsert, tableVars
<1>2. CollectorStep
  BY <1>1, OthersKeepTables DEF Next
<1>3. counted' = counted
  BY <1>2 DEF CollectorStep, aggVars
<1>4. \A s \in Sessions : urlLog[s][r] = 0
  <2>1. \A s \in Sessions : urlLog[s][r] \in Nat
    BY DEF TrafficInv, TypeOK, SharedTypeOK
  <2>2. \A s \in Sessions : ~(urlLog[s][r] > 0)
    BY <1>1 DEF TrafficInv, PendingInv, FlushInsert
  <2> QED BY <2>1, <2>2
<1>5. urlLog'[cur][r] = 1
  BY <1>4, PlusZero
<1>6. \A s \in Sessions : r \in collected[s] => s = cur
  BY DEF TrafficInv, FreshInv
<1>7. ASSUME NEW q \in Records \ {r} PROVE Keeps(q)
  BY <1>1, <1>3, <1>7, SameEntry
<1>8. Held(r) /\ ~Logged(r) /\ ~Billed(r)
  <2>1. Held(r) /\ ~Logged(r) BY <1>4 DEF Held, Logged
  <2> QED BY <2>1 DEF PhaseFacts
<1>9. ledgerPhase[r] = "held" /\ ledgerAccount[r] = {cur}
  <2>1. {s \in Sessions : r \in collected[s] \/ urlLog[s][r] > 0} = {cur}
    BY <1>4, <1>6
  <2> QED BY <1>8, <2>1 DEF PhaseFacts
<1>10. ledgerPhase'[r] = "logged" /\ ledgerAccount'[r] = {cur}
  <2>1. Logged(r)' /\ ~Billed(r)'
    BY <1>3, <1>5, <1>8 DEF Logged, Billed
  <2>2. {s \in Sessions : r \in collected'[s] \/ urlLog'[s][r] > 0} = {cur}
    BY <1>1, <1>4, <1>5, <1>6
  <2> QED BY <2>1, <2>2 DEF PhaseFacts
<1>11. Ledger!Move({r}, {"held"}, "logged", ledgerAccount[r])
  BY <1>7, <1>9, <1>10, MoveIs
<1> QED BY <1>11 DEF Ledger!Next, Ledger!Log

\* One row of `protocols` bills the records of a session that the list has.
LEMMA BillMoves ==
  ASSUME TrafficInv, StableInv, SameAccount, PhaseFacts, PhaseFacts', [Next]_vars,
         NEW s \in Sessions, UpdateProtocols(s)
  PROVE  Ledger!Next
<1> DEFINE R == {r \in Records : <<s, r>> \in left}
<1>1. /\ aggPc = "protocols" /\ Count("protocols", s, R) /\ R # {}
      /\ left' = left \ ({s} \X R) /\ urlLog' = urlLog
  BY StatementExecuted DEF UpdateProtocols, StableInv
<1>2. \A r \in R : <<s, r>> \in left
  OBVIOUS
<1>3. R \in SUBSET Records /\ "protocols" \in Tables
  BY DEF Tables
<1> HIDE DEF R
<1>4. \A r \in Records :
        counted'["protocols"][r] = IF r \in R THEN 1 ELSE counted["protocols"][r]
  BY <1>1, <1>2, <1>3, CountOnce
<1>5. left' # left
  BY <1>1, <1>2, <1>3
<1>6. AggregatorStep
  BY <1>5, OthersKeepLogs DEF TrafficInv
<1>7. UNCHANGED <<pre, collected>>
  BY <1>6 DEF AggregatorStep, colVars, tableVars
<1>8. ASSUME NEW r \in R
      PROVE  ledgerPhase[r] = "logged" /\ ledgerPhase'[r] = "billed" /\ ledgerAccount'[r] = {}
  <2>1. logs = urlLog /\ <<s, r>> \in Rows(logs)
    BY <1>1, <1>2 DEF StableInv, LogsInv, Reading, Loops, Tables
  <2>2. urlLog[s][r] > 0
    BY <1>3, <2>1 DEF Rows
  <2>3. ~Passed("protocols", <<s, r>>)
    BY <1>1, <1>2 DEF Passed, Later
  <2>4. ~Billed(r)
    BY <1>3, <2>2, <2>3 DEF StableInv, CountedInv, Billed
  <2>5. Logged(r)
    BY <2>2 DEF Logged
  <2>6. Billed(r)'
    BY <1>3, <1>4 DEF Billed
  <2> QED BY <1>3, <2>4, <2>5, <2>6 DEF PhaseFacts
<1>9. ASSUME NEW r \in Records \ R PROVE Keeps(r)
  BY <1>1, <1>4, <1>7, <1>9, SameEntry
<1>10. Ledger!Move(R, {"logged"}, "billed", {})
  BY <1>3, <1>8, <1>9, MoveIs
<1> QED BY <1>3, <1>10 DEF Ledger!Next, Ledger!Bill

\* The other steps forget what is in memory, at most: a delete finds billed
\* records only.
LEMMA OtherMoves ==
  ASSUME TrafficInv, StableInv, SameAccount, PhaseFacts, PhaseFacts', [Next]_vars,
         \A r \in Records : ~CollectAdd(r),
         \A s \in Sessions : ~UpdateProtocols(s),
         \/ UNCHANGED urlLog
         \/ urlLog' = NoRows
  PROVE  Ledger!Next
<1> DEFINE Dropped(r) == Held(r) /\ ~Held(r)'
           Died(r) == pre[r] # "dead" /\ pre'[r] = "dead"
           R == {r \in Records : ~Logged(r) /\ ~Billed(r) /\ (Dropped(r) \/ Died(r))}
<1>0. TypeOK /\ HolderInv /\ FreshInv
  BY DEF TrafficInv
<1>1. \A s \in Sessions : collected'[s] \subseteq collected[s]
  BY <1>0, CollectedShrinks
<1>2. counted'["protocols"] = counted["protocols"]
  BY <1>0, ProtocolsKept
<1>3. \A r \in Records : /\ (pre'[r] = "done") <=> (pre[r] = "done")
                         /\ pre[r] = "dead" => pre'[r] = "dead"
  BY <1>0, DoneSteps
<1>4. \A s \in Sessions : \A r \in Records : urlLog[s][r] \in 0..CountCap /\ CountCap \in Nat
  BY <1>0, CountCapNat DEF TypeOK, SharedTypeOK
<1>5. ASSUME NEW r \in Records PROVE Billed(r) \/ \A s \in Sessions : urlLog'[s][r] = urlLog[s][r]
  <2>1. CASE \E s \in Sessions : urlLog[s][r] > 0 /\ urlLog'[s][r] = 0
    <3>1. counted["protocols"][r] > 0
      BY <2>1, DeleteAfterBilling
    <3>2. counted["protocols"][r] \in Nat /\ counted["protocols"][r] <= 1
      BY <1>0 DEF TypeOK, AggTypeOK, StableInv, BilledAtMostOnce, Tables
    <3> QED BY <3>1, <3>2 DEF Billed
  <2>2. CASE \A s \in Sessions : ~(urlLog[s][r] > 0 /\ urlLog'[s][r] = 0)
    BY <1>4, <2>2 DEF NoRows
  <2> QED BY <2>1, <2>2
<1>6. ASSUME NEW r \in R
      PROVE  ledgerPhase[r] \in {"pending", "held"} /\ ledgerPhase'[r] = "lost"
             /\ ledgerAccount'[r] = {}
  <2>1. ~Billed(r)' /\ ~Logged(r)'
    BY <1>2, <1>5 DEF Billed, Logged
  <2>2. CASE Dropped(r)
    <3>1. pre[r] = "done" /\ pre'[r] = "done"
      BY <1>3, <2>2 DEF PhaseFacts
    <3> QED BY <2>1, <2>2, <3>1 DEF PhaseFacts
  <2>3. CASE Died(r)
    <3>1. pre[r] \notin {"done", "dead"}
      BY <1>3, <2>3
    <3> QED BY <2>1, <2>3, <3>1 DEF PhaseFacts
  <2> QED BY <2>2, <2>3
<1>7. ASSUME NEW r \in Records, r \notin R PROVE Keeps(r)
  <2>1. CASE Billed(r)
    <3>1. Billed(r)' BY <1>2, <2>1 DEF Billed
    <3> QED BY <2>1, <3>1 DEF PhaseFacts, Keeps
  <2>2. CASE ~Billed(r) /\ Logged(r)
    <3>1. ~Billed(r)' /\ Logged(r)'
      BY <1>2, <1>5, <2>2 DEF Billed, Logged
    <3>2. {s \in Sessions : r \in collected'[s] \/ urlLog'[s][r] > 0}
            = {s \in Sessions : r \in collected[s] \/ urlLog[s][r] > 0}
      <4>1. \A s \in Sessions : urlLog'[s][r] = urlLog[s][r] BY <1>5, <2>2
      <4>2. \A s \in Sessions : r \in collected[s] => urlLog[s][r] > 0
        BY <2>2 DEF Logged, SameAccount
      <4> QED BY <1>1, <4>1, <4>2
    <3> QED BY <2>2, <3>1, <3>2 DEF PhaseFacts, Keeps
  <2>3. CASE ~Billed(r) /\ ~Logged(r) /\ Held(r)
    <3>1. ~Billed(r)' /\ ~Logged(r)' /\ Held(r)'
      BY <1>2, <1>5, <1>7, <2>3 DEF Billed, Logged
    <3>2. {s \in Sessions : r \in collected'[s] \/ urlLog'[s][r] > 0}
            = {s \in Sessions : r \in collected[s] \/ urlLog[s][r] > 0}
      <4>1. \A s \in Sessions : urlLog'[s][r] = urlLog[s][r] BY <1>5, <2>3
      <4>2. PICK s \in Sessions : r \in collected'[s] BY <3>1 DEF Held
      <4>3. \A x \in Sessions : r \in collected[x] => x = s
        BY <1>0, <1>1, <4>2 DEF FreshInv
      <4> QED BY <1>1, <4>1, <4>2, <4>3
    <3> QED BY <2>3, <3>1, <3>2 DEF PhaseFacts, Keeps
  <2>4. CASE ~Billed(r) /\ ~Logged(r) /\ ~Held(r)
    <3>1. ~Billed(r)' /\ ~Logged(r)' /\ ~Held(r)'
      BY <1>1, <1>2, <1>5, <2>4 DEF Billed, Logged, Held
    <3>2. pre'[r] \in {"done", "dead"} <=> pre[r] \in {"done", "dead"}
      BY <1>3, <1>7, <2>4
    <3> QED BY <2>4, <3>1, <3>2 DEF PhaseFacts, Keeps
  <2> QED BY <2>1, <2>2, <2>3, <2>4
<1>8. Ledger!Move(R, {"pending", "held"}, "lost", {})
  <2>1. R \in SUBSET Records OBVIOUS
  <2> HIDE DEF R
  <2> QED BY <1>6, <1>7, <2>1, MoveIs
<1> QED BY <1>8 DEF Ledger!Next, Ledger!Lose

\* Every step is a step of the ledger or leaves the ledger alone.
LEMMA LedgerStep ==
  ASSUME TrafficInv, StableInv, SameAccount, PhaseFacts, PhaseFacts', [Next]_vars
  PROVE  [Ledger!Next]_(Ledger!ledgerVars)
<1>1. \/ UNCHANGED urlLog
      \/ AggregateDelete /\ urlLog' = NoRows
      \/ \E r \in Records :
           /\ FlushInsert(r) /\ cur \in Sessions /\ r \in collected[cur]
           /\ urlLog'[cur][r] = Plus(urlLog[cur][r], 1)
           /\ \A s \in Sessions : \A q \in Records :
                ~(s = cur /\ q = r) => urlLog'[s][q] = urlLog[s][q]
  BY LogSteps DEF TrafficInv
<1> QED BY <1>1, CollectMoves, InsertMoves, BillMoves, OtherMoves

\* Every record is pending in the ledger at first.
LEMMA LedgerInit ==
  ASSUME Init, PhaseFacts
  PROVE  Ledger!Init
<1>1. ASSUME NEW r \in Records
      PROVE  ledgerPhase[r] = "pending" /\ ledgerAccount[r] = {}
  BY DEF Init, ColInit, PhaseFacts
<1> QED BY <1>1, LedgerFunctions DEF Ledger!Init

\* While the connection is not replaced and no user is deleted, the Collector and
\* the Aggregator implement the ledger: a response is held, logged and billed
\* once, for one session of its address, and lost only from memory.
THEOREM PipelineImplementsLedger ==
  ASSUME Stable
  PROVE  Spec => LedgerSpec
<1>1. Init => SameAccount
  BY SameAccountInit
<1>2. TrafficInv /\ SameAccount /\ [Next]_vars => SameAccount'
  BY SameAccountStep
<1>3. Spec => []SameAccount
  BY <1>1, <1>2, TrafficInvariant, PTL DEF Spec
<1>4. Spec => []PhaseFacts
  BY PhaseIs, TrafficInvariant, StableInvariant, PTL
<1>5. Init /\ PhaseFacts => Ledger!Init
  BY LedgerInit
<1>6. TrafficInv /\ StableInv /\ SameAccount /\ PhaseFacts /\ PhaseFacts' /\ [Next]_vars
        => [Ledger!Next]_(Ledger!ledgerVars)
  BY LedgerStep
<1> QED BY <1>3, <1>4, <1>5, <1>6, TrafficInvariant, StableInvariant, PTL
        DEF Spec, LedgerSpec, Ledger!Spec

=============================================================================
