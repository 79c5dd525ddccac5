------------------------------ MODULE UrlAccess ------------------------------
(***************************************************************************)
(* The tables of cadbis.proxy.Collector that say what an address may do:   *)
(* its session (actionsOfIps) with the denied urls of the tariff, and the  *)
(* statistics of user and tariff.  A connection reads them without a lock  *)
(* (CheckAccessToUrl) while the daemon and the PreCollectors rebuild them; *)
(* the first refresh of the daemon, prerun(), does not take wLock either.  *)
(*                                                                         *)
(* All addresses are those of sessions that are on line, of one tariff.    *)
(* What a refresh does to collected traffic is the matter of Collector.    *)
(***************************************************************************)
EXTENDS ProxyScenario

CONSTANTS
  Sessions,     \* how many sessions are on line
  DeniedHosts,  \* the hosts that a regular expression of url_denied matches
  MaxFlushes    \* bound: periods of the daemon

ASSUME AccessAssumption ==
  /\ Sessions \in Nat \ {0}
  /\ DeniedHosts \subseteq Hosts
  /\ MaxFlushes \in Nat

VARIABLES
  actionsOfIps, \* the list the Action of an address belongs to, 0 for none
  statsOfIps,   \* usersStatsOfIps, packetsStatsOfIps and dayTraffics
  actions,      \* the list `actions`: 0 when empty
  made,         \* lists made so far
  deniedUrls,   \* Actions whose list of denied urls is filled
  refresher,    \* where a thread is in _refreshSessions
  i,            \* the variable of its loop
  old,          \* lists that were in `actions` since it came to this point
  wLock,        \* which of them is in the monitor
  flushes,      \* periods to come
  mixed         \* history: a refresh has begun during prerun(), and nobody has
                \* made the objects anew inside the monitor since

tableVars == <<actionsOfIps, statsOfIps, actions, made, deniedUrls>>
refreshVars == <<refresher, i, old, wLock, flushes, mixed>>
accessVars == <<tableVars, refreshVars>>

\* The addresses, in the order of the list.
Ips == 1..Sessions

\* The daemon, and the PreCollector that is in the monitor.
Refreshers == {"daemon", "collect"}
LoopPoints == {"stats", "put", "clear", "denied"}
RefreshPoints == {"idle", "wait", "create", "select", "dead"} \cup LoopPoints

AccessTypeOK ==
  /\ actionsOfIps \in [Ips -> Nat]
  /\ statsOfIps \in [Ips -> {"none", "null", "ok", "exceeded"}]
  /\ {actions, made} \subseteq Nat
  /\ deniedUrls \subseteq Nat \X Ips
  /\ refresher \in [Refreshers -> RefreshPoints]
  /\ i \in [Refreshers -> Ips]
  /\ old \in [Refreshers -> SUBSET Nat]
  /\ wLock \in Refreshers \cup {"free"}
  /\ flushes \in 0..MaxFlushes
  /\ mixed \in BOOLEAN

\* prerun() is still to come, or is over.
AccessInit ==
  /\ i = [r \in Refreshers |-> 1]
  /\ old = [r \in Refreshers |-> {}]
  /\ wLock = "free"
  /\ flushes = MaxFlushes
  /\ mixed = FALSE
  /\ IF Has("prerun")
       THEN /\ refresher = [r \in Refreshers |-> IF r = "daemon" THEN "create"
                                                                 ELSE "idle"]
            /\ actionsOfIps = [ip \in Ips |-> 0]
            /\ statsOfIps = [ip \in Ips |-> "none"]
            /\ actions = 0 /\ made = 0
            /\ deniedUrls = {}
       ELSE /\ refresher = [r \in Refreshers |-> "idle"]
            /\ actionsOfIps = [ip \in Ips |-> 1]
            /\ statsOfIps \in [Ips -> {"ok", "exceeded"}]
            /\ actions = 1 /\ made = 1
            /\ deniedUrls = {1} \X Ips

-----------------------------------------------------------------------------
(* createObjects, getActiveSessions and _refreshSessions *)

EmptyTables ==
  /\ actionsOfIps' = [ip \in Ips |-> 0]
  /\ statsOfIps' = [ip \in Ips |-> "none"]
  /\ actions' = 0
  /\ UNCHANGED <<made, deniedUrls>>

\* The monitor is left, also with an exception.
Release(r) == wLock' = IF wLock = r THEN "free" ELSE wLock

\* The fields are read anew at the next point; who replaces the list takes it
\* from under the loops of others.
Arrives(r) == old' = [old EXCEPT ![r] = {}]

ReplacesList(r) ==
  old' = [q \in Refreshers |->
            IF q # r /\ refresher[q] \in LoopPoints THEN old[q] \cup {actions}
                                                     ELSE old[q]]

Goto(r, point) ==
  refresher' = [refresher EXCEPT ![r] = point] /\ UNCHANGED <<wLock, flushes, mixed>>

Returns(r) ==
  /\ refresher' = [refresher EXCEPT ![r] = "idle"]
  /\ i' = [i EXCEPT ![r] = 1]
  /\ Release(r)
  /\ UNCHANGED <<flushes, mixed>>

\* An exception ends the thread: the daemon for ever, a PreCollector is one
\* of many.
Throws(r) ==
  /\ refresher' = [refresher EXCEPT ![r] = IF r = "daemon" THEN "dead" ELSE "idle"]
  /\ i' = [i EXCEPT ![r] = 1]
  /\ Arrives(r)
  /\ Release(r)
  /\ UNCHANGED <<flushes, mixed, tableVars>>

\* The daemon refreshes outside the monitor.
Prerunning ==
  refresher["daemon"] \in {"create", "select"} \cup LoopPoints /\ wLock # "daemon"

CreateObjects(r) ==
  /\ refresher[r] = "create"
  /\ EmptyTables
  /\ ReplacesList(r)
  /\ refresher' = [refresher EXCEPT ![r] = "select"]
  /\ mixed' = IF wLock = r THEN Prerunning ELSE mixed
  /\ UNCHANGED <<i, wLock, flushes>>

SelectSessions(r) ==
  /\ refresher[r] = "select"
  /\ \/ /\ actions' = made + 1
        /\ made' = made + 1
        /\ Goto(r, "stats")
        /\ ReplacesList(r)
        /\ UNCHANGED <<actionsOfIps, statsOfIps, deniedUrls, i>>
     \/ /\ Has("failures")
        /\ actions' = 0
        /\ Returns(r)
        /\ ReplacesList(r)
        /\ UNCHANGED <<actionsOfIps, statsOfIps, made, deniedUrls>>
     \/ Has("failures") /\ Throws(r)

\* The lists a thread may have found in `actions` since it came to its point;
\* the empty one stands for the moment in which all objects were new.
Found(r) == old[r] \cup {actions}
Lists(r) == Found(r) \ {0}

\* What a thread puts may be lost in a map that has been replaced, or in one
\* into which the other thread puts.
PutLost(r) ==
  0 \in Found(r) \/ \E q \in Refreshers \ {r} : refresher[q] = refresher[r]

\* Urls may be divided between two lists, or lost in one that the other thread
\* fills.
FillLost(r) ==
  \/ \E a, b \in Lists(r) : a # b
  \/ \E q \in Refreshers \ {r} : refresher[q] = "denied" /\ i[q] = i[r]

\* The statistics come before the session, which comes before its denied urls.
PutStats(r) ==
  /\ refresher[r] = "stats"
  /\ \/ /\ actions # 0
        /\ \/ \E s \in {"ok", "exceeded"} \cup (IF Has("failures") THEN {"null"} ELSE {}) :
                statsOfIps' = [statsOfIps EXCEPT ![i[r]] = s]
           \/ PutLost(r) /\ UNCHANGED statsOfIps
        /\ Goto(r, "put")
        /\ Arrives(r)
        /\ UNCHANGED <<actionsOfIps, actions, made, deniedUrls, i>>
     \/ actions = 0 /\ Returns(r) /\ Arrives(r) /\ UNCHANGED tableVars
     \/ (actions = 0 \/ Has("failures")) /\ Throws(r)

\* The Action may be one of a list that has been replaced meanwhile.
PutAction(r) ==
  /\ refresher[r] = "put"
  /\ \/ /\ \/ \E a \in Lists(r) : actionsOfIps' = [actionsOfIps EXCEPT ![i[r]] = a]
           \/ PutLost(r) /\ UNCHANGED actionsOfIps
        /\ Goto(r, "clear")
        /\ Arrives(r)
        /\ UNCHANGED <<statsOfIps, actions, made, deniedUrls, i>>
     \/ actions = 0 /\ Throws(r)

\* The list is cleared, found by the index again.
ClearDeniedUrls(r) ==
  /\ refresher[r] = "clear"
  /\ \/ /\ \E a \in Lists(r) : deniedUrls' = deniedUrls \ {<<a, i[r]>>}
        /\ Goto(r, "denied")
        /\ Arrives(r)
        /\ UNCHANGED <<actionsOfIps, statsOfIps, actions, made, i>>
     \/ actions = 0 /\ Throws(r)

NextSession(r) ==
  /\ IF i[r] = Sessions
       THEN Returns(r)
       ELSE Goto(r, "stats") /\ i' = [i EXCEPT ![r] = @ + 1]
  /\ Arrives(r)

\* Mutant: the list that is filled is the one of the list before.
FillDeniedUrlsOfPrevious(r) ==
  /\ refresher[r] = "denied"
  /\ \/ /\ \/ \E a \in Lists(r) : deniedUrls' = deniedUrls \cup {<<a - 1, i[r]>>}
           \/ (FillLost(r) \/ Has("failures")) /\ UNCHANGED deniedUrls
        /\ NextSession(r)
        /\ UNCHANGED <<actionsOfIps, statsOfIps, actions, made>>
     \/ (actions = 0 \/ Has("failures")) /\ Throws(r)

\* The list is found by the index once more.  Without a result of the select it
\* stays empty.
FillDeniedUrls(r) ==
  /\ refresher[r] = "denied"
  /\ \/ /\ \/ \E a \in Lists(r) : deniedUrls' = deniedUrls \cup {<<a, i[r]>>}
           \/ (FillLost(r) \/ Has("failures")) /\ UNCHANGED deniedUrls
        /\ NextSession(r)
        /\ UNCHANGED <<actionsOfIps, statsOfIps, actions, made>>
     \/ (actions = 0 \/ Has("failures")) /\ Throws(r)

RefreshSessions(r) ==
  \/ CreateObjects(r) \/ SelectSessions(r) \/ PutStats(r) \/ PutAction(r)
  \/ ClearDeniedUrls(r) \/ FillDeniedUrls(r)

-----------------------------------------------------------------------------
(* Who refreshes *)

\* FlushCollected ends with createObjects; RefreshInfo has to get the monitor
\* again.
FlushCollected ==
  /\ Has("flush")
  /\ flushes > 0
  /\ refresher["daemon"] = "idle"
  /\ wLock = "free"
  /\ EmptyTables
  /\ refresher' = [refresher EXCEPT !["daemon"] = "wait"]
  /\ flushes' = flushes - 1
  /\ mixed' = FALSE
  /\ UNCHANGED <<i, old, wLock>>

RefreshInfo ==
  /\ refresher["daemon"] = "wait"
  /\ wLock = "free"
  /\ wLock' = "daemon"
  /\ refresher' = [refresher EXCEPT !["daemon"] = "create"]
  /\ UNCHANGED <<i, old, flushes, mixed, tableVars>>

\* Collect refreshes for an address it does not know.
Collect(ip) ==
  /\ wLock = "free"
  /\ IF actionsOfIps[ip] = 0
       THEN /\ wLock' = "collect"
            /\ refresher' = [refresher EXCEPT !["collect"] = "create"]
       ELSE UNCHANGED <<wLock, refresher>>
  /\ UNCHANGED <<i, old, flushes, mixed, tableVars>>

AccessStep ==
  \/ \E r \in Refreshers : RefreshSessions(r)
  \/ FlushCollected
  \/ RefreshInfo

-----------------------------------------------------------------------------
(* What a connection reads *)

\* getActionByUserIp and the list of the Action it returns.
ActionOf(ip) == actionsOfIps[ip]
ListOf(action, ip) == IF <<action, ip>> \in deniedUrls THEN DeniedHosts ELSE {}

\* The answer of CheckAccessToUrl if nothing changed meanwhile.
UrlAllowed(ip, host) ==
  ActionOf(ip) # 0 =>
    /\ statsOfIps[ip] # "exceeded"
    /\ host \notin ListOf(ActionOf(ip), ip)

-----------------------------------------------------------------------------
(* Properties *)

Refreshing == \E r \in Refreshers : refresher[r] \notin {"idle", "dead"}

\* When nobody refreshes, every session is in the tables with its limits and
\* its denied urls.  The refresh of prerun(), which is not in the monitor, and
\* one of a PreCollector spoil the tables for each other: an Action may stay
\* without its denied urls, an address without statistics.  But however they
\* met, and whichever of them an exception has ended: the damage is gone with
\* the first refresh in the monitor after prerun(), be it the one of the next
\* period or one for an address that is not known.
TablesComplete ==
  ~Has("failures") /\ ~mixed /\ ~Refreshing =>
    \A ip \in Ips :
      /\ statsOfIps[ip] \in {"ok", "exceeded"}
      /\ actionsOfIps[ip] # 0
      /\ <<actionsOfIps[ip], ip>> \in deniedUrls

=============================================================================
