# CADBiS in TLA+

CADBiS bills and restricts the internet access of the users of a local network.
This directory holds TLA+ models of its core: how the traffic of a response gets
from a proxy connection into the bills, and what the daemons that share the
database do to each other on the way; how a request is checked against tables that
are rebuilt meanwhile; how sessions are accounted for; how the limits of a day are
computed; and how the administrator's page keeps in step with its server. TLC
checks the models on small instances; TLAPS proves the safety properties that the
passing runs check, all but one (`EditsReachMemory`), for instances of every size.

## The system

| Part | Source | State it keeps | Operations |
|---|---|---|---|
| Proxy | `CADBiS_proxy/src/cadbis/proxy/Proxy.java`, `ProxyConnection.java` | one thread per client connection: sockets, a timeout, an error counter, the category of the host | accept, read, forward, deny, hand the traffic of a response to a PreCollector |
| Collector | `proxy/Collector.java`, `subthreads/PreCollector.java` | tables of the users on line by address, the traffic collected for each, the lock `wLock` | Collect, CheckAccessToUrl, AddDenied..., FlushCollected and RefreshInfo every `collector_period` |
| Aggregator | `proxy/Aggregator.java` | tables `url_log`, `protocols`, `url_popularity`, `ctry_popularity` | Aggregate every `aggregator_period` |
| Database access | `db/AbstractDAO.java`, `db/DBConnection.java`, `proxy/Reconfigurer.java` | one JDBC connection for all threads | query, update, Reconnect every `reconf_period` |
| Categorizer | `proxy/Categorizer.java`, `subthreads/CategoryRecognizer.java`, `httpparser/ContentAnalyzer.java` | category of every known host, hosts under analysis | recognizeAndAddCategory, getCategoryForUrl, reloadData |
| Limits | `Checker.java`, `PacketsTodayLimits.java` | limits of the day for each tariff, filled on first use by whatever thread asks | checkTrafficLimits, checkAccessTime, getPacketDayTrafficLimit, recalcTrafficLimits |
| Session accounting | `CADBiS_jradius/src/cadbis/CADBiS.java`, `jradius/CADBiSHandler.java`, `Killer.java`, `Notifier.java` | `activeSessions`, table `actions` | authorize, Start, Alive, Stop, KillInactiveUsers, restart |
| JRadius server | `CADBiS_jradius/src/net/jradius` | sessions, locks, request queue | vendored |
| Ajax pages | `SMPHPToolkit/js/smphptoolkit`, `SMPHPToolkit/ajax`, `CADBiS_website/.../admin_cats_match_*.php` | grids with hidden inputs, callbacks, requests under way; table `url_categories_match` | update, setAction, the commands of the backend |
| Web site | `CADBiS_website`, `SMPHPToolkit` | the same database | administration (`DrClass.php`), reports, CMS, forum |
| Others | `CADBiS_aggregator`, `CADBiS_winservice`, `CADBiS_categorizer`, `CADBiS_docs` | | the older C++ aggregator, a Windows client for messages, an empty class, documents |

The parts meet in three places. The *database* is shared by everybody: RADIUS
inserts a row of `actions` when a session starts and closes it when it stops, the
Collector reads the rows that are `Online`, it writes `url_log`, the Aggregator
reads and deletes `url_log`. The *connection* to it is one object for all threads
of the proxy, and the Reconfigurer replaces it while they use it. The monitor
*`Collector.wLock`* excludes Collect, FlushCollected, RefreshInfo and Aggregate
from each other, but neither the checks of access nor the Reconfigurer.

What is hard: threads that run between a flush and the refresh after it; tables
that are replaced while objects of the old ones are still in use; statements that
silently do nothing or throw because the connection is being replaced, in the
middle of a flush or an aggregation; maps that are filled while others read them;
answers that overtake each other; sessions that start, stop and share an
address while their traffic is still in memory; daemons that die. `PROJECT.json`
lists these hazards at their lines with the properties that watch them.

What makes each part correct:

* Collector: traffic goes to a session of the right address, stays where the next
  flush finds it, and is written once.
* Aggregator: what is written is billed once and deleted only then.
* Database access: no failure of a statement blocks the others or repeats a write.
* Access checks: a denied user or host is denied whatever a refresh does.
* Categorizer: a host is recognised once and a recognised host keeps its category.
* Limits: the limits of the day never sum up to more than what is left of the month,
  and every tariff has one.
* Ajax pages: a command is performed once, and both grids show the table afterwards.
* Session accounting: one row for each session, on line exactly while the user is.

## Modules

| Module | What it models |
|---|---|
| `DBConnection` | the shared connection, `Reconnect` step by step, and the outcomes of a statement: executed, ignored, exception |
| `TrafficState` | what Collector and Aggregator share: rows of `actions`, `url_log`, the monitor |
| `Collector` | `_refreshSessions`, `Collect`, `FlushCollected`, `RefreshInfo`, one action per database statement, and `prerun`, which refreshes outside the monitor |
| `Aggregator` | the control of `Aggregate()`: select, uids, the three tables, delete, the exception handler |
| `TrafficAccounting` | composes them with the RADIUS side and an administrator; fairness and properties |
| `TrafficLedger` | what the pipeline promises: a response is held, logged and billed once, and lost only from memory |
| `TrafficInvariants` | the inductive invariant of the pipeline, in two parts |
| `ReportTables` | what the Aggregator writes: the texts of the protocols, merged by hash code, and the rating of urls by month |
| `SessionAccounting` | the RADIUS side: authorization, Start, Alive, Stop, inactive sessions, the kill program, crash and restart |
| `SessionRegister` | what the accounting promises: a session gets in after its link came up, and when it is out it is out |
| `DayLimits` | `PacketsTodayLimits`: the limits of the day, computed by whoever asks first, and who asks meanwhile |
| `ProxyScenario` | the hosts, and the features of a scenario, for the four modules below |
| `UrlAccess` | the Collector's tables of sessions, statistics and denied urls, read without a lock while they are rebuilt |
| `Categorizer` | recognition of hosts by several threads, the map, the table, the reload, the edits of the administration |
| `ProxyConnection` | the thread of a client: its loop, the check of a request, the threads it starts, the log of denials |
| `ProxyAccess` | composes the three; fairness and properties |
| `AjaxBuffer` | `ajax_buffer` of the web site: requests, answers that replace inputs, callbacks, broken connections |
| `CategoryPage` | the page of two grids that refresh each other, its manager of commands and the backend |
| `TrafficAccounting_proofs`, `SessionAccounting_proofs`, `Categorizer_proofs`, `ProxyAccess_proofs`, `CategoryPage_proofs`, `DayLimits_proofs`, `ReportTables_proofs` | theorems and proofs |
| `Sums`, `Sums_proofs` | sums over finite sets, for `DayLimits` and `ReportTables`, and what holds of them |
| `MC...` | instances for TLC |

### The pipeline of traffic

A *record* is the traffic of one response, the arguments of one call of
`Collect`; one PreCollector thread (`pre[r]`) carries each. A *session* is a row
of `actions`, and an Action object of the Collector is named by its session:
`collected[s]` is `CollectedUrls` of the object that the tables hold for `s`, and
`createObjects`, which replaces all objects, empties it. `actions` and
`actionsOfIps` are the list and the map of the Collector. `urlLog[s][r]` counts
rows, saturating at `CountCap`, and `counted[t][r]` says how often a table of the
reports has counted a record; the amounts, dates and texts of the rows do not
influence the control and are left out.

Code inside `wLock` is interleaved with the Reconfigurer, the RADIUS side and the
administrator only, so it is cut into steps where it touches the database: the
creation of a DAO waits for `dcLock` (`NewDAO`), a statement tests the connection
(`SqlCheck`) and then reads it again to run. Between these two reads a Reconnect
may close the connection (an `SQLException`, which is logged), or set it to null
(a `NullPointerException`, which nobody inside the DAO catches). Without a
connection at the test a statement returns without doing anything. Each action
that stands for a statement therefore has an executed and an ignored form, and
the exception is an action of its own: it leaves the monitor and ends the
Collector daemon or the PreCollector (`Dies`), and is caught in `Aggregate()`.

The first refresh of the daemon, `prerun`, is outside `wLock`, so that a PreCollector
may be in the same code. Each of the two then goes on, with its index, in a list that
the other has put in the place of its own: `todo` and `rest`, what is still to come of
a loop, become any part of the new list (`PrerunGoesOnIn`, `LockGoesOnIn`). A
statement of line 88 that has read the list before it was replaced puts an Action of
the old list into the new map, or its put goes into the old map: `torn` names the
refreshes that may, and the map then holds `Unlisted`, an Action nobody flushes. If
the list has become empty the index throws. `mixed` is a history that says whether a
Collect has run during `prerun` and nobody has made the objects anew in the monitor
since; while it is true the code does collect traffic that no flush finds.

Sets replace lists where the order of the elements does not matter: the loops
of the code pick the remaining rows in any order, which includes the order of
the code. The map and the list are read from `actions` at different statements
and may differ when RADIUS opens or closes sessions between them.

`ReportTables` takes the aggregation apart that `Aggregator` treats as counting.
It runs inside `wLock`, and statements work. A *page* is a url with a content
type, a response is a page of length 1, so that the lengths of the code are
counts; a *text* is a bag of pages, and an item of `proto_logs` belongs to a hash
code, which two pages may have in common. The steps are those of
`makeProtocols`: parse the texts and the new rows of all sessions into one map,
group it by the session that owns an item, erase the old texts of the owners,
append the new ones.

### Session accounting

A row of `actions` is `<<sid, n>>`: the unique id of the code is made of the
session id and the time, and here a number that nothing refers to is taken
again. `online` holds the rows whose `terminate_cause` is `Online`, `age` the
time since `last_change`, `activeSessions` the map of `CADBiS`, by session id.
A processor of the JRadius server takes a packet (`Receive`) and runs
`CADBiSHandler.handle` as a sequence of steps, each with one statement and the
memory accesses before it. There is no lock: the locks of JRadius belong to
sessions that the handler never sets.

`setting` is chosen once and says what may happen. With `races` a change of the
`HashMap` may be lost while another thread is about to use it, and a read may
throw. An exception in the handler is answered with `RLM_MODULE_FAIL`, which is no
answer to the NAS; the packet stays in `net` and is handled again. With `repeats`
an answer may be lost too, and the same packet may be in two processors. `failures`
adds what statements without a connection do at each step: count nothing, read
nothing, throw; in `checkAccessNow` an exception grants the access when it comes
after the user was read. With `closing` the web site closes rows, with `late`
packets are not handled in time. `refused` stands for everything that `Checker`
decides from the user and the tariff alone (blocked, hours, traffic, time); the two
checks that count rows are steps of their own. The NAS, the network and the clock
are external: what the code relies on is that a packet is sent again until it is
answered or given up, that Alives follow the answer to a Start, and that a Stop is
sent when the link goes down. A session has a port of its own, there is one
tariff, and the NAS is taken to send `Calling-Station-Id`, without which
`Killer.run` does nothing (the handler passes the two addresses in the order of
`SessionStart`, but `SessionAlive` declares them the other way round).

### The limits of the day

`Objects` are instances of `PacketsTodayLimits`; the Collector replaces
`dayLimits` at every refresh, the RADIUS server makes one when it starts. The
fields (`usedMonthTraffic`, `restDaysCount`, `allowedDayTraffic`) and the maps of
an object are shared by the threads that hold it (`mine`), and `recalcTrafficLimits`
is cut at each of its accesses to them: a thread that finds `dayTrafficLimits` null
replaces the maps another one is filling, and goes on with whatever numbers are in
the fields by then. `todo[t]` holds the tariffs a loop has left, taken in the order
of the query. At the end the code logs every limit and unboxes it, which throws
when another thread has just replaced the map (`LogLimits`); `dayTrafficLimits`
stands for `monthTrafficLimits` there. The exception ends the thread of a
connection, but RADIUS catches it and grants the access (`Throws`).

Traffic is counted where the queries look: `month` is the traffic of the sessions
that `getMonthTraffic` sums up, `today` that of `getDayTraffic`, which has only the
sessions that began today, `lastDay` that of sessions of the last day of the month
before, which the query by multiples of 24 hours partly includes. `Rounded` returns
both results where a product is exactly a half, because the coefficients are
floating point numbers. `left` is a history: the rest of the month when an object
was made.

### Access through the proxy

A behaviour keeps one *scenario*, a set of features (the proxy starts, the
daemons wake up, statements fail, ...), so that each property can say what it
presupposes. The Collector's tables are those of one list of sessions after the
other: `actionsOfIps[ip]` is the number of the list an Action is from, `deniedUrls`
the Actions whose denied urls have been read, `statsOfIps` the three maps of
statistics, which are read and tested together and whose checks come to one
answer, within the limits or not, drawn when a statistic is read. Two threads may
be in `_refreshSessions`: the PreCollector inside `wLock`, and the daemon, whose
first refresh is outside. The loop has a step where it puts the statistics of a
session, one where it puts the Action, one where it clears the denied urls and one
where it fills them, because each reads the fields again: `old` are the lists that
were in `actions` since a thread came to its point, and what it has in its hands may
be of any of them, so that an Action may stay without its denied urls. A put may be
lost when its map has been replaced or when the other thread puts at the same time.
What two threads do to the inner table of a `HashMap` while it grows (other entries
lost, an endless loop) is left out. `mixed` is the same history as in `Collector`.

A recogniser is a `CategoryRecognizer` thread with the buffer of its connection: a
text is the set of the hosts it has come from, because the buffer is shared with
the connection and is not emptied when the host changes, and the category is a
function of it. `recognizeCategory` runs statements for the keywords; it throws
with a text that cannot be analysed, with statements that fail, or when a statement
has left the list of categories empty, and the host then stays in `current_analysis`.
That is a `HashSet` without a lock, so that with `races` a change of it may be lost.
With `edits` the administration changes `url_categories_match` behind the memory
(`AddUrlCategoryMatch`, `UpdateUrlCategoryMatch`, `DeleteUrlCategoryMatch`), in one
statement each; a unique index on the host refuses the second row of a host, to the
recogniser and to the update, and `replace into` takes the place of the first. `edited`
is a history: whether the row of a host was edited before the last reload began or
since.

A connection is a record of local variables; each step reads one of the shared
tables, as the check does, or one socket. The client and the server are external:
the client sends requests of one or several chunks (`bodies`), waits for a response
or not (`pipelining`), and the server answers in its time. With `limits` other
connections compute the limits of the day while this one asks for them: it may find
none, or a null that it unboxes (`PacketsTodayLimits.java:50` and `66`), which ends
its thread with both sockets open. `allowed` is a history:
whether there was a moment since the request was read at which the tables, read at
once, would have let it pass.

### The page of the categories

`inputs`, `shown`, `onSuccess` and `window` are the page: the hidden inputs inside
each grid, the rows it shows, the callback of its buffer and the dialog that is
open. `calls` are the requests under way, which may overtake each other; a request
carries the inputs and the callback of the moment it was sent, as the closures of
`ajaxbuffer.js` do, and an answer replaces the grid together with its inputs. A
command of the administrator sets the inputs (`Armed`) and updates the first grid,
whose callback updates the second, whose callback updates the first. The backend
performs a command (`Perform`) and renders afterwards (`Render`), two steps between
which other requests are served. `performed` is a history.

## Runs

| Run | Instance | Shows |
|---|---|---|
| `traffic_stable` | two sessions at one address, two responses, no Reconnect, from the start of the proxy | traffic is billed once and to a session of its address, the refinement of `TrafficLedger`, no row is deleted that is not billed; what is collected is where a flush finds it, but after a meeting with `prerun` |
| `traffic_reconnect` | one session, one response, Reconnect at any moment, a user who may be deleted, `FairSpec` | although statements fail and threads die, the monitor becomes free again and again, every `Collect` returns, and once the connection stays what is left in `url_log` gets billed |
| `traffic_refresh_loses` | two sessions | *violated*: traffic leaves the memory without reaching `url_log` |
| `traffic_reconnect_loses` | one session, one response, Reconnect | *violated*: rows of `url_log` are deleted that no table has counted |
| `session_accounting` | three settings: repeated packets on two processors; races, failures, the web site, late packets, a port limit and a crash; two sessions and a crash | who is up and reported in time keeps an `Online` row, and one; a refused user does not stay connected; the refinement of `SessionRegister` |
| `session_ended` | repeats, races, the web site, late packets and a crash, `FairSpec` | the rows of an ended session get closed for good |
| `session_simultaneous` | two sessions of a login that may be used once | *violated*: both come up |
| `proxy_access` | one connection, two requests, three hosts, twelve scenarios, `FairSpec` | when nobody refreshes the tables are complete, but after a meeting with `prerun`; a request is forwarded only if a state of the tables allows it; categories in memory have their rows, and the edits of the administration reach the memory; connections, analyses and reloads end |
| `denied_is_logged` | the same, a flush | *violated*: a denied attempt gets into no table |
| `category_page` | two urls, two categories, four habits of user and network | commands stay whole, are performed once and leave nothing armed; the grids agree; refreshing ends |
| `report_tables` | two sessions, two pages of one url, four configurations, the end of a month | no response is missing in the protocols or the rating; what only one session has is counted exactly |
| `day_limits` | two tariffs, two threads, two objects, seven settings | every tariff has its limit when the last thread is through; the limits keep within the rest of the month; nobody is granted access by those of a month that is used up |

The violations are recorded as findings. `Collect` refreshes all users when
one address is unknown and so drops what was collected for the others since the
last flush; `getItemsByQuery` never returns null, so a select that was not
executed leads to the delete all the same; the simultaneous use is tested at
authorization, before the row that counts exists; and the logger of a denied
attempt looks for a session that a flush has just removed.

Bounds. In the pipeline two responses are needed for one to arrive while the other
is being flushed, and two sessions at one address for a map entry that changes its
owner and for a refresh on somebody else's account. `CountCap = 2` tells once from
more than once; in `traffic_reconnect`, where it is not asked how often, one response
of one session is enough, and it is of no country. Each session starts and stops once and each record is sent once,
but the daemons and the Reconfigurer run for ever. Symmetry is not used there,
because the instances fix which session has which address.

For the sessions, one is enough where the property speaks of a session and the
hard cases are its own packets in two processors; two compete for the processor and
for the count. `MaxRows = 2` is what two processors with the same Start need. One
or two ticks of `timeout` are enough to be before, at and after it. Crashes are
bounded, so that a server that is started again stays up in the end. `UpIsOnline`
and `RefusedIsKilled` presuppose packets that are handled in time: without it the
code does lose sessions that are up, and a late Alive does not bring them back. With
lost answers *and* a crash `UpIsOnline` does not hold either: of the two rows that a
repeated Start leaves, an unordered query decides which one is restored (a hazard in
`PROJECT.json`); hence two settings.

In the proxy one connection of two chunks meets every change of the tables, since
other connections do not write them; two recognisers are enough to find a host
missing at once. One flush, one reload and one edit are one change of the tables at
every moment of a check, and one edit before, during or after the reload that reads it.
One session is on line in the runs. How two threads spoil the tables for each other
at different places of the list is left to `ProxyTablesComplete`, which is about any
number of sessions.
The list of denied hosts and the denied categories are constant. `Timeout = 2` and `MaxErrors = 1` leave a moment before the last.
The three hosts are one that is denied by url, one that is known to be of a denied
category, and one whose content is of that category. On the page there are as many
commands as it takes for one to overtake another, and `MaxIds` new ids are always
enough (`RefreshEnds` would fail if a request could not be performed for want of
one), and the habits separate what a user who waits can rely on from what holds for
everybody.

In the limits two threads are enough for one to replace what the other computes
with; the settings have a month of two days, so that it ends, and small numbers at
which shares are halves, rests are negative and a tariff exceeds its share. Two
objects are the one in use and the one somebody still holds. The threads that ask
for limits are symmetric there, as the processors are in `session_simultaneous`.

Fairness. Threads that were started run: that is what the fairness of a scheduler
gives. The daemons wake up (`Thread.sleep` returns) and a Reconnect that has begun
ends: weak fairness. Threads that wait for a monitor have strong fairness: monitors
of Java are not fair, but the daemons sleep minutes between two uses of `wLock` and
there is one PreCollector per response, so that nobody is passed over for ever. For
the sessions: processors that have taken a packet go on, the daemon, the clock, the
restart, the kill program and what the NAS does of itself (Alives, giving up)
happen, and a Start or Alive that is waiting again and again is taken (the listener
queues requests in their order). In the proxy connections, recognisers, loggers and
a reload that has begun go on; clients and servers need not do anything, and no
daemon needs to wake up: a connection ends by its own clock. On the page a
request is answered sooner or later, or given up by the browser; the user need not
do anything. In the pipeline nothing is assumed of RADIUS, of administrators, of
new requests, or that a Reconnect begins.

## Proofs

All theorems hold for every value of the constants.

`TrafficAccounting_proofs`: `TrafficInvariant`, and from it `TypeCorrect`,
`CollectedIsReachable`, `AddressIsKept`, `LoggedOnce`; under `Stable` (the
connection is not replaced, no user is deleted) `StableInvariant`, and from it
`BilledOnce` and `LogIsKeptUntilBilled`. None of the properties is inductive alone.
`CollectedIsReachable` is about a Collector without a meeting of `prerun` and a
Collect, or after it: `PrerunInv` says where `prerun` can be and which of the two loops
has met the other, and `AloneInv` that without a meeting (`~mixed`) each refresh is
alone with its tables. From the first time on that somebody makes the objects anew
inside the monitor after `prerun`, nobody else is in them, so that a meeting is over.
That a response is logged once rests on `PendingInv`: a record that is both in
memory and in `url_log` has been passed by the running flush, or the daemon that
would insert it once more is dead. `PendingInv` rests on the position of the loops
(`CursorInv`), on who is in the monitor (`HolderInv`: every holder is determined by
the program counters), on the tables (`TablesInv`: an entry of the map leads to a
session of the list with that address) and on `FreshInv` (a record is nowhere before
its Collect has returned, and in one session afterwards). For the second part,
`LogsInv` says that the list the Aggregator works on is `url_log` as it is, because
the Collector cannot write in between, and `CountedInv` that a table has counted a
logged record exactly if its loop has passed the row.

The same module has `PipelineImplementsLedger`. Each step of the pipeline moves
every record from one phase of the ledger to the next, or leaves it; the account a
record is held for stays the same because only a session of its address can have
it.

`SessionAccounting_proofs`: `SessionInvariant`, and from it `SessionTypes` and
`SessionHasOneOnlineRow`; `OrderlyInvariant`, and from it `WhoIsUpIsOnline`; and
`AccountingImplementsRegister`. A second row could come from a Start that is handled
again. The invariant says what a processor that is about to insert has in its hands
(`JobInv`), that nothing of a session is under way before its link came up
(`LinkInv`), and that, unless answers are lost, a packet has one processor and no row
of a session is Online as long as its Start is under way (`StartInv`). Most steps
only let rows and packets go (`Ebb`), so that one lemma covers them.

`WhoIsUpIsOnline` is a race between the clock and the Alives. While the Start of a
session is under way (`StartingInv`) the model's clock waits for it, so that its rows
are of age 0, and the entry of the map is a row that is Online or one that a
processor is about to insert. Afterwards (`StartedInv`) there is a row that is
`Fresh`: not older than the time since the last Alive, unless the next one waits in
the net, and whoever has taken that one will update this row, or the row is as young
as can be. `KillInactiveUsers` closes only what is older than `Timeout`, so a fresh
row stays; a restart restores it, because it is then the only row of its session.
The last point needs `StartInv`, hence no repeated packets, and is why the property
does not claim repeats and crashes together (`Orderly`). What other sessions do is
`Calm`: one lemma covers all steps that a session does not notice.

`AccountingImplementsRegister` needs both invariants. A session of the register is
`expected`, `online` or `closed`; the mapping reads it off the rows, the link and
whether a Start of it waits or is handled (`phase`). Each kind of step is one of the
register or a stutter (`HangsUpRefines`, `ComesUpRefines`, `OpensRefines`,
`EbbRefines`): what only lets go closes rows or drops Starts, never both at once. That
a row is closed while a Start is left happens with repeats only (`StartInv`). In order
there are two more things to show: no row that is `Fresh` is closed while its link is
up (`YoungRowStays`), and a Start comes to its end only with a row (`StartEndsOnline`),
because a crash finds it still in the net. Without order the register lets sessions
be missed and closed, and still none comes back.

`Categorizer_proofs`: `CatInvariant`, and from it `CatMemoryBacked` and
`CatInsertsSucceed`. `HostKnown` says that a thread that analyses has a host,
`OneInside` that one thread at most is inside `rwLock`, `UnreadInTable` that what a
reload has still to enter is in the table unless the administration has edited it,
`ReadOut` that rows wait to be entered only while a reload fills the map, and
`MapCoversTable` that without a reload the map has every row that was not edited, and
what is about to be inserted. The edits are in the specification, and so the two
theorems except the hosts they touched; what becomes of those is `EditsReachMemory`,
which is model-checked.

`ProxyAccess_proofs`: `ProxyTypes`, and `ProxyCategorizes`, that every step of the
proxy is a step of the Categorizer or leaves it alone; with it the theorems of the
Categorizer carry over to the proxy (`ProxyMemoryBacked`, `ProxyInsertsSucceed`).
`AccessInvariant` gives the other two. `ProxyTablesComplete` rests on `AloneInv`, that
where no refresh has met that of `prerun`, which is outside the monitor, a thread in
the loop is the only one and its list stays in place, and on `FillInv`: when no thread
is before its loop, every address is filled or the thread still comes to it, at its
place in the list (`WillFill`). After a meeting (`mixed`) neither holds, until a
refresh in the monitor has begun after both. `ProxyForwardsAllowed` rests on `CheckInv`,
which says of a check in progress what the tables read so far have in common with
those read at once: while a chunk has never been allowed, what has been read either
denies it already or leaves a table to read that will (`CheckedSoFar`). An address
that loses its session is allowed at that moment, which the history notes; so it
has to be shown that while it keeps its session nothing that denies goes away. That
is `MonitorInv`: once the proxy has started, who is in the monitor (`Busy`) is there
alone, and a refresh has yet to come only to addresses without a session (`ToCome`),
so that it never replaces a statistic or a list of one that has it. The theorem
leaves out the refresh of `prerun`, limits that two connections compute at once
(those are `DayLimits`), and a reload next to a flush (`OneRebuilder`): there a
check may put together what never held at one moment.

`CategoryPage_proofs`: `PageTypes`, whose invariant says that no two requests are in
one slot, so that fewer requests than slots leave one free (they map into the
slots one to one, and not onto them); `PageInvariant` for everybody
(`CommandsStayWhole`, `NothingStaysArmed`: inputs are armed only while a request is
under way whose answer will disarm them), and `PatientInvariant` for users who wait
(`CommandsPerformedOnce`, `GridsShowTheTable`): either the page is at rest, with
both grids as the table is, or a request is under way that carries the command or is
one of the refreshes it sets off, and its answer is that of the table.

`DayLimits_proofs`: `LimitsInvariant`, and from it `LimitsTypes`,
`LimitsAreComplete`, `GrantsAreWithinRest`; `ShareInv`, and from it
`LimitsAreWithinRest`. `CompleteInv` says that an object whose
limits are not complete has a thread that will complete them: the last one that
replaced a map still has every tariff before it, and what the others put does not
hinder it (`OthersHelp`). `LeftInv` carries the sign of the rest through the division,
the shares and the rounding: a positive limit comes from a positive rest, although
the threads mix their numbers. `ShareInv` says for each tariff that its limit is at
most the part of the rest that its rank gives it and what rounding adds
(`LimitShare`), from which the sum follows; without a midnight all threads write the
same days and the same allowance into the fields (`FieldShare`), and with one the
only thread finds what it has written (`ThreadShare`).

`ReportTables_proofs`: `ReportInvariant`, and from it `ReportTypes`,
`ProtocolsAreComplete`, `OwnPagesAreExact`, `RatingIsComplete`. `ItemInv` says what
the map of items is while it is built: the item of a key counts what the sessions
parsed so far have of it, and belongs to one that has the key. `ProtocolInv` follows
a protocol through the erasing and the writing: what is in the texts and what is
still to be written come to at least what is due. `RatingInv` does the same for the
rating, with the rows that the loop has not treated yet taken off.

`Sums_proofs`: the sums of the two modules are folds, which are defined by
`CHOOSE` of a recursive function. That the function exists (`FoldsExist`), and what
sums do (`SumRemove`, `SumMonotone`, `SumPlus`, `SumSwap`, ...), is proved by
induction over finite sets. The induction theorems of the library have an operator as
parameter, so it goes through sets instead: of the subsets that violate a statement
one of the least cardinality is chosen (`SmallestSet`, from the well-foundedness of
the natural numbers).

Assumptions: those the modules state on their constants (`TrafficAssumption`,
`ThreadNames`, `AggregatorAssumption`, `DbReconnectAssumption`, `SessionAssumption`,
`ScenarioAssumption`, `AccessAssumption`, `CategoryAssumption`,
`ConnectionAssumption`, `PageAssumption`, `InputsAssumption`, `LimitsAssumption`,
`ReportAssumption`, `ItemAssumption`). Where sums are taken the sets are finite: the
tariffs and threads in `LimitsAssumption`, the sessions and pages in
`ReportAssumption`. TLC evaluates the assumptions in the runs.

Only model-checked: the liveness properties, which are out of the prover's reach
(`LoggedIsBilled`, `CollectReturns`, `MonitorIsLeft`, `RefusedIsKilled`,
`EndedIsClosed`, `AnalysisEnds`, `ReloadEnds`, `ConnectionEnds`, `RefreshEnds`), and
of the safety properties `EditsReachMemory`. Only by theorem: that a response is
logged once when the daemon dies between the inserts of two sessions (`LoggedOnce`;
the run with a Reconnect has one session).

The hypotheses are needed. Without `Stable`, `BilledAtMostOnce` does not hold: an
exception after `UpdateProtocols` leaves rows that the next aggregation counts again;
and neither do `LogKeptUntilBilled` and `LedgerSpec`, because an aggregation that
could not read the rows deletes them. After a meeting with `prerun` neither
`CollectedReachable` nor `TablesComplete` holds (see the observations). Without `Orderly`, `UpIsOnline` does not: late packets, races of the
map, statements that fail and the web site each close or lose the row of somebody
who is up.

## Observations

Besides the findings, and within what the properties allow, the code does this:

* `Checker.checkPacketUsage` tests `port_limit <= count`, and the count includes the
  session itself when it is alive: with as many sessions as the tariff allows, each
  is killed at its next Alive.
* `this._show_progress` (`ajaxbuffer.js:60`) is never set, so that the progress
  window of a request never opens; the answer still closes the dialog on top.
* A page that two sessions share gets into the protocol of one of them, and the text
  of the other is read and added again by a later aggregation.
* The update of `url_popularity` has no month: from the second month on the rows of
  earlier months grow with the current one.
* The RADIUS server computes the limits of the day once in its life (`CADBiS.java:47`):
  they stay those of the day it was started.
* `getDayTraffic` counts the sessions that began today only; a session over midnight
  counts for no limit of a day.
* `Collector.prerun` refreshes without the monitor (`Collector.java:56-60`),
  while connections may be served already. When a `Collect` refreshes at the same
  time, an `Action` of the one list may be put into the map of the other: what is collected
  there is seen by no flush, and the denied urls of its session are not read, until
  the next refresh in the monitor.
* When two connections compute the limits of the day at once, one finds the map of
  the other without its tariff, and the `null` it unboxes ends its thread
  (`ProxyConnection.java:168`) with both sockets open.
* When a statement of `recognizeCategory` fails, or there are no categories, the host
  stays in `current_analysis` and is not analysed again before the next start.
* The insert of a recogniser is refused when the administration has written a row for
  the host meanwhile; the memory has the category of the recogniser then, until the
  next reload.
* The inactive interval is 600000 in the configuration, used as seconds, under a
  comment that says five minutes.

## Not modelled

Of the proxy: the parsing and rewriting of headers, encodings, the pages of a
refusal, the scoring of words, the accept loop, the column length of protocols and
the amounts by country. Of the RADIUS side: the message that `Notifier` sends, several
tariffs. Of the Ajax pages: sorting, paging and filters, which travel in the same
inputs, and the pages with one grid, which are a special case. In the tables of the
proxy, what two threads that grow one `HashMap` do to its buckets, beyond the loss of
an entry; the categories, the words and the denials of a tariff do not change. The web site renders
pages over the database, one request at a time, without a protocol between requests;
the statements of `CBilling` that change rows under the daemons are actions of the
modules above. The JRadius server is vendored; the C++ programs are a batch
predecessor of the Aggregator and a window that shows messages; `CADBiS_categorizer`
is an empty class.

The JavaScript of the repository (some 66,000 lines in 197 files) is third party code
but for a few hundred lines: prototype, scriptaculous, window and FCKeditor, in
several copies. What the pages rely on of it (`Ajax.Request`, `Dialog`) is part of
`AjaxBuffer` and `CategoryPage`; the system itself is in Java and PHP.

`PROJECT.json` names every component with its status.

## Plan

1. *Done*: the pipeline of traffic with its ledger, session accounting, the proxy
   with its tables and categories, the reports, the limits of the day, the page of
   the categories; their runs and proofs.
2. To prove next: `EditsReachMemory` (a row edited before a reload begins is in
   memory when it has ended, unless it is edited again); an abstract page that performs each command once, with
   `CategoryPage` as its implementation for a patient user.
3. To model next: `UrlAccess` with two sessions as an instance of its own; two administrators who overwrite each other on the page of the
   tariffs' ranks; several tariffs and ports that are used again in
   `SessionAccounting`; the limits of the day composed with `UrlAccess`.
