----------------------------- MODULE Categorizer -----------------------------
(***************************************************************************)
(* cadbis.proxy.Categorizer: the category of a host, found by a            *)
(* CategoryRecognizer thread in what the host has answered, kept in the    *)
(* map url_cat and in the table url_categories_match, and read again from  *)
(* the table every categorizer_period.  Recognisers exclude each other by  *)
(* rwLock, but not the reload, which has only the monitor of the object.   *)
(* The table has a unique index on url: it refuses a second row of a host, *)
(* and execSql ignores that.  The administration edits the table too, on a *)
(* page of the website (CBilling), and the proxy notices with the reload.  *)
(*                                                                         *)
(* What a text says is abstracted to the hosts it comes from.              *)
(***************************************************************************)
EXTENDS ProxyScenario

CONSTANTS
  Cids,           \* categories, Unrecognized among them
  Unrecognized,   \* category 0
  NoCid,          \* the null of url_cat.get
  CategoryOf,     \* the category the analysis finds for the pages of a host
  DeniedCids,     \* url_categories_denied of the tariff
  KnownRows,      \* the rows of url_categories_match at the start
  Recognizers,    \* CategoryRecognizer threads
  MaxReloads,     \* bound: periods of the daemon
  MaxEdits        \* bound: edits of the administration

Row(host, cid) == [url |-> host, cid |-> cid]

ASSUME CategoryAssumption ==
  /\ Unrecognized \in Cids
  /\ NoCid \notin Cids
  /\ CategoryOf \in [Hosts -> Cids]
  /\ DeniedCids \subseteq Cids
  /\ KnownRows \subseteq [url : Hosts, cid : Cids]
  /\ \A x, y \in KnownRows : x.url = y.url => x = y
  /\ {MaxReloads, MaxEdits} \subseteq Nat

VARIABLES
  url_cat,          \* the map of the hosts that have a category
  catsAccessDenied, \* the categories that are denied
  rows,             \* the table url_categories_match
  current_analysis, \* the set of the hosts that are analysed
  rec,              \* the threads: where they are, host, text and result
  reload,           \* where reloadData is
  unread,           \* rows of its result that are not in the map yet
  reloads,          \* periods to come
  edits,            \* edits to come
  edited            \* history: the hosts whose row was edited, and whether that
                    \* was before the last reload began ("old") or since ("new")

editVars == <<edits, edited>>
catVars == <<url_cat, catsAccessDenied, rows, current_analysis, rec, reload,
             unread, reloads, editVars>>

RecPoints == {"unborn", "begin", "add", "analyse", "enter", "insert", "done",
              "dead"}
ReloadPoints == {"idle", "select", "fill", "denied", "dead"}

AllRows == [url : Hosts, cid : Cids]

CatTypeOK ==
  /\ url_cat \in [Hosts -> Cids \cup {NoCid}]
  /\ catsAccessDenied \in SUBSET DeniedCids
  /\ rows \in SUBSET AllRows
  /\ current_analysis \in SUBSET Hosts
  /\ rec \in [Recognizers -> [pc : RecPoints, host : Hosts \cup {NoHost},
                              content : SUBSET Hosts, cid : Cids]]
  /\ reload \in ReloadPoints
  /\ unread \in SUBSET AllRows
  /\ reloads \in 0..MaxReloads
  /\ edits \in 0..MaxEdits
  /\ edited \in [Hosts -> {"none", "new", "old"}]

Unborn == [pc |-> "unborn", host |-> NoHost, content |-> {}, cid |-> Unrecognized]

CatInit ==
  /\ url_cat \in [Hosts -> Cids \cup {NoCid}]
  /\ \A h \in Hosts : \A c \in Cids : url_cat[h] = c <=> Row(h, c) \in KnownRows
  /\ catsAccessDenied = DeniedCids
  /\ rows = KnownRows
  /\ current_analysis = {}
  /\ rec = [t \in Recognizers |-> Unborn]
  /\ reload = "idle"
  /\ unread = {}
  /\ reloads = MaxReloads
  /\ edits = MaxEdits
  /\ edited = [h \in Hosts |-> "none"]

\* getCategoryForUrl
CategoryForUrl(host) == IF host = NoHost THEN NoCid ELSE url_cat[host]

-----------------------------------------------------------------------------
(* CategoryRecognizer.run and recognizeAndAddCategory *)

Moves(t, point) == rec' = [rec EXCEPT ![t].pc = point]

\* The connection starts the thread for a host.
StartRecognizer(t, host) ==
  /\ rec[t].pc = "unborn"
  /\ rec' = [rec EXCEPT ![t].pc = "begin", ![t].host = host]
  /\ UNCHANGED <<url_cat, catsAccessDenied, rows, current_analysis, reload,
                 unread, reloads, editVars>>

OnlyRec ==
  UNCHANGED <<url_cat, catsAccessDenied, rows, reload, unread, reloads, editVars>>

\* The text is read when the thread runs.  Nothing is done without a host or
\* for a host that is being analysed.
Begin(t, content) ==
  /\ rec[t].pc = "begin"
  /\ IF rec[t].host = NoHost \/ rec[t].host \in current_analysis
       THEN Moves(t, "done")
       ELSE rec' = [rec EXCEPT ![t].pc = "add", ![t].content = content]
  /\ UNCHANGED current_analysis
  /\ OnlyRec

\* current_analysis is a HashSet without a lock: a change may be lost when
\* another thread is about to make one.
Racing(t) ==
  /\ Has("races")
  /\ \E u \in Recognizers \ {t} : rec[u].pc \in {"add", "enter"}

SetAnalysis(t, new) ==
  current_analysis' = new \/ (Racing(t) /\ UNCHANGED current_analysis)

AddAnalysis(t) ==
  /\ rec[t].pc = "add"
  /\ SetAnalysis(t, current_analysis \cup {rec[t].host})
  /\ Moves(t, "analyse")
  /\ OnlyRec

\* recognizeCategory, whose statements keep keywords and count them.  What it
\* throws, but for an unknown charset, leaves the host in current_analysis: for
\* a text that cannot be analysed, a statement that fails, or a list of
\* categories that a failing statement has left empty.
Recognize(t) ==
  /\ rec[t].pc = "analyse"
  /\ \/ \E c \in {CategoryOf[h] : h \in rec[t].content} \cup {Unrecognized} :
          rec' = [rec EXCEPT ![t].pc = "enter", ![t].cid = c]
     \/ (Has("throws") \/ Has("failures")) /\ Moves(t, "dead")
  /\ UNCHANGED current_analysis
  /\ OnlyRec

RwLockFree == \A t \in Recognizers : rec[t].pc # "insert"

\* Mutants: the category that was found last wins; a host that has a category
\* already stays in current_analysis.
AddToMapAlways(t) ==
  LET host == rec[t].host
  IN  /\ rec[t].pc = "enter"
      /\ RwLockFree
      /\ SetAnalysis(t, current_analysis \ {host})
      /\ url_cat' = [url_cat EXCEPT ![host] = rec[t].cid]
      /\ Moves(t, "insert")
      /\ UNCHANGED <<catsAccessDenied, rows, reload, unread, reloads, editVars>>

AddToMapRemovesNew(t) ==
  LET host == rec[t].host
  IN  /\ rec[t].pc = "enter"
      /\ RwLockFree
      /\ IF url_cat[host] = NoCid
           THEN /\ SetAnalysis(t, current_analysis \ {host})
                /\ url_cat' = [url_cat EXCEPT ![host] = rec[t].cid]
                /\ Moves(t, "insert")
           ELSE UNCHANGED <<current_analysis, url_cat>> /\ Moves(t, "done")
      /\ UNCHANGED <<catsAccessDenied, rows, reload, unread, reloads, editVars>>

AddToMap(t) ==
  LET host == rec[t].host
  IN  /\ rec[t].pc = "enter"
      /\ RwLockFree
      /\ SetAnalysis(t, current_analysis \ {host})
      /\ IF url_cat[host] = NoCid
           THEN /\ url_cat' = [url_cat EXCEPT ![host] = rec[t].cid]
                /\ Moves(t, "insert")
           ELSE /\ UNCHANGED url_cat
                /\ Moves(t, "done")
      /\ UNCHANGED <<catsAccessDenied, rows, reload, unread, reloads, editVars>>

\* addUrlCategoryMatch
Insert(x) == rows' = IF \E y \in rows : y.url = x.url THEN rows ELSE rows \cup {x}

\* Mutant: the category that is written is not the one in the map.
AddMatchOfContent(t) ==
  /\ rec[t].pc = "insert"
  /\ \E c \in {CategoryOf[h] : h \in rec[t].content} : Insert(Row(rec[t].host, c))
  /\ Moves(t, "done")
  /\ UNCHANGED <<url_cat, catsAccessDenied, current_analysis, reload, unread,
                 reloads, editVars>>

AddMatch(t) ==
  /\ rec[t].pc = "insert"
  /\ \/ /\ Insert(Row(rec[t].host, rec[t].cid))
        /\ Moves(t, "done")
     \/ /\ Has("failures")
        /\ Moves(t, "done") \/ Moves(t, "dead")
        /\ UNCHANGED rows
  /\ UNCHANGED <<url_cat, catsAccessDenied, current_analysis, reload, unread,
                 reloads, editVars>>

Recognizer(t) == AddAnalysis(t) \/ Recognize(t) \/ AddToMap(t) \/ AddMatch(t)

-----------------------------------------------------------------------------
(* reloadData *)

OnlyReload == UNCHANGED <<rows, current_analysis, rec, edits>>

\* Mutant: the map is kept, and the rows are put into it.
ReloadBeginKeepsMap ==
  /\ Has("reload")
  /\ reloads > 0
  /\ reload = "idle"
  /\ reload' = "select"
  /\ reloads' = reloads - 1
  /\ edited' = [h \in Hosts |-> IF edited[h] = "new" THEN "old" ELSE edited[h]]
  /\ UNCHANGED <<url_cat, catsAccessDenied, unread>>
  /\ OnlyReload

ReloadBegin ==
  /\ Has("reload")
  /\ reloads > 0
  /\ reload = "idle"
  /\ reload' = "select"
  /\ reloads' = reloads - 1
  /\ url_cat' = [h \in Hosts |-> NoCid]
  /\ edited' = [h \in Hosts |-> IF edited[h] = "new" THEN "old" ELSE edited[h]]
  /\ UNCHANGED <<catsAccessDenied, unread>>
  /\ OnlyReload

ReloadSelect ==
  /\ reload = "select"
  /\ \/ unread' = rows /\ reload' = "fill"
     \/ Has("failures") /\ unread' = {} /\ reload' \in {"fill", "dead"}
  /\ UNCHANGED <<url_cat, catsAccessDenied, reloads, edited>>
  /\ OnlyReload

\* Mutant: the test is the wrong way round.
ReloadFillKnown(x) ==
  /\ reload = "fill"
  /\ x \in unread
  /\ unread' = unread \ {x}
  /\ url_cat' = IF url_cat[x.url] # NoCid THEN [url_cat EXCEPT ![x.url] = x.cid]
                                          ELSE url_cat
  /\ UNCHANGED <<catsAccessDenied, reload, reloads, edited>>
  /\ OnlyReload

ReloadFill(x) ==
  /\ reload = "fill"
  /\ x \in unread
  /\ unread' = unread \ {x}
  /\ url_cat' = IF url_cat[x.url] = NoCid THEN [url_cat EXCEPT ![x.url] = x.cid]
                                          ELSE url_cat
  /\ UNCHANGED <<catsAccessDenied, reload, reloads, edited>>
  /\ OnlyReload

\* The denied categories are forgotten before they are read.
ReloadForgetDenied ==
  /\ reload = "fill"
  /\ unread = {}
  /\ reload' = "denied"
  /\ catsAccessDenied' = {}
  /\ UNCHANGED <<url_cat, unread, reloads, edited>>
  /\ OnlyReload

ReloadDenied ==
  /\ reload = "denied"
  /\ \/ catsAccessDenied' = DeniedCids /\ reload' = "idle"
     \/ /\ Has("failures")
        /\ reload' \in {"idle", "dead"}
        /\ UNCHANGED catsAccessDenied
  /\ UNCHANGED <<url_cat, unread, reloads, edited>>
  /\ OnlyReload

ReloadData ==
  \/ ReloadSelect \/ ReloadForgetDenied \/ ReloadDenied
  \/ \E x \in unread : ReloadFill(x)

-----------------------------------------------------------------------------
(* The page of the administration: an edit is one statement *)

Edits(hosts) ==
  /\ Has("edits")
  /\ edits > 0
  /\ edits' = edits - 1
  /\ edited' = [h \in Hosts |-> IF h \in hosts THEN "new" ELSE edited[h]]
  /\ UNCHANGED <<url_cat, catsAccessDenied, current_analysis, rec, reload, unread,
                 reloads>>

\* A row of the host gives way to the new one: `replace into`.
AddUrlCategoryMatch(x) ==
  /\ rows' = {y \in rows : y.url # x.url} \cup {x}
  /\ Edits({x.url})

\* The unique index refuses the host of another row.
UpdateUrlCategoryMatch(x, y) ==
  /\ x \in rows
  /\ \A z \in rows \ {x} : z.url # y.url
  /\ rows' = (rows \ {x}) \cup {y}
  /\ Edits({x.url, y.url})

DeleteUrlCategoryMatch(x) ==
  /\ x \in rows
  /\ rows' = rows \ {x}
  /\ Edits({x.url})

Administration ==
  \E x \in AllRows :
    \/ AddUrlCategoryMatch(x)
    \/ \E y \in AllRows : UpdateUrlCategoryMatch(x, y)
    \/ DeleteUrlCategoryMatch(x)

-----------------------------------------------------------------------------
(* The component by itself: a connection may start any recogniser *)

CatNext ==
  \/ \E t \in Recognizers :
       \/ \E h \in Hosts \cup {NoHost} : StartRecognizer(t, h)
       \/ \E C \in SUBSET Hosts : Begin(t, C)
       \/ Recognizer(t)
  \/ ReloadBegin
  \/ ReloadData
  \/ Administration

CatSpec ==
  /\ scenario \in Scenarios /\ CatInit
  /\ [][CatNext /\ UNCHANGED scenario]_<<catVars, scenario>>

-----------------------------------------------------------------------------
(* Properties *)

\* While statements work, a category in memory is that of the row of the host,
\* or its row is being inserted: whichever of several recognisers comes first,
\* no host is refused for a category nobody can find in the table.  Two things
\* come between them: a reload that empties the map lets a recogniser enter
\* another category than that of the row, and an edit is not in memory before
\* the reload that begins after it.  A row that is edited while a reload reads
\* the table waits for the next one.
MemoryBacked ==
  ~Has("failures") =>
    \A h \in Hosts : url_cat[h] # NoCid =>
      \/ Row(h, url_cat[h]) \in rows
      \/ \E t \in Recognizers :
           rec[t].pc = "insert" /\ rec[t].host = h /\ rec[t].cid = url_cat[h]
      \/ Has("reload") /\ \E x \in rows : x.url = h
      \/ edited[h] = "new"

\* Though several threads may analyse a host at once, because
\* current_analysis is tested without a lock and changes of it get lost, the
\* table is never asked to take a second row of a host, which it would refuse
\* without anybody noticing: the map is tested again inside rwLock.  A reload
\* empties the map meanwhile, so that this needs a proxy that does not reload;
\* and a host whose row the administration has edited may have one that is not
\* in the map, but no other host.
InsertsSucceed ==
  ~Has("reload") =>
    \A t \in Recognizers : rec[t].pc = "insert" =>
      \A x \in rows : x.url # rec[t].host \/ edited[rec[t].host] # "none"

\* What the administration has changed reaches the memory with the first reload
\* that begins after it: between reloads, as long as nothing has been analysed
\* and statements work, the memory has exactly the rows of the table, but for
\* hosts edited since that reload began.
EditsReachMemory ==
  /\ ~Has("failures")
  /\ \A t \in Recognizers : rec[t].pc = "unborn"
  /\ reload = "idle"
  => \A h \in Hosts, c \in Cids :
      edited[h] # "new" => (url_cat[h] = c <=> Row(h, c) \in rows)

\* No host stays in current_analysis, where it would keep other threads from
\* analysing it, unless the analysis throws or a change of the set is lost.
AnalysisEnds ==
  []<>(\/ current_analysis = {}
       \/ Has("throws") \/ Has("failures") \/ Has("races"))

\* A reload takes the categories of all hosts and the denials of all tariffs
\* away and gives them back: while statements work, the hosts of the table get
\* a category again, unless they are edited, and the categories are denied
\* again.
ReloadEnds ==
  []<>(\/ /\ \A x \in KnownRows : url_cat[x.url] # NoCid \/ edited[x.url] # "none"
          /\ catsAccessDenied = DeniedCids
       \/ Has("failures"))

=============================================================================
