--------------------------- MODULE ProxyConnection ---------------------------
(***************************************************************************)
(* cadbis.proxy.ProxyConnection: the thread of one client.  Its loop reads *)
(* what the client has sent, checks whether the address may have the host, *)
(* forwards the request or answers with the page of a refusal, and hands   *)
(* on what the server has sent; reads never block, so that the connection  *)
(* ends only by idle time, by errors, or with a refusal.                   *)
(*                                                                         *)
(* The check reads the tables of UrlAccess and Categorizer one by one and  *)
(* without a lock.  A step of the thread ends where it reads or changes    *)
(* what others use.  Clients and servers are external: a client sends when *)
(* it likes, a request has one response, in one piece.                     *)
(***************************************************************************)
EXTENDS UrlAccess, Categorizer, Sequences

CONSTANTS
  Connections,   \* accepted sockets
  IpOf,          \* address of the client
  Timeout,       \* timeout, in units of waitrwtime
  MaxErrors,     \* maxerrorscount
  MaxRequests    \* bound: chunks that a client sends

ASSUME ConnectionAssumption ==
  /\ IpOf \in [Connections -> Ips]
  /\ {Timeout, MaxErrors, MaxRequests} \subseteq Nat \ {0}
  /\ Recognizers = Connections \X (1..MaxRequests)

VARIABLES
  con,         \* the local variables of the threads, and where they are
  server,      \* external: the hosts whose responses a connection will get
  collects,    \* PreCollectors under way: who is charged, who has answered
  loggers,     \* AccessDeniedAttemptLoggers under way
  deniedLog    \* rows of url_denied_log and url_categories_denied_log

conVars == <<con, server, collects, loggers, deniedLog>>

ConPoints == {"loop", "connect", "action", "stats", "limits", "list", "urls",
              "category", "tariff", "rights", "send", "receive", "closed",
              "leaked"}
AnyHost == Hosts \cup {NoHost}
Attempts == Connections \X {"url", "category"}

Locals ==
  [pc : ConPoints, chunks : 0..MaxRequests, host : AnyHost, busy : BOOLEAN,
   idle : 0..Timeout, errors : 0..(MaxErrors + 1), connected : BOOLEAN,
   act : Nat, cid : Cids \cup {NoCid}, denied : BOOLEAN, ended : BOOLEAN,
   parsed : BOOLEAN, need : BOOLEAN, content : SUBSET Hosts,
   started : 0..MaxRequests]

ConTypeOK ==
  /\ con \in [Connections -> Locals]
  /\ server \in [Connections -> Seq(Hosts)]
  /\ collects \in SUBSET (Connections \X (0..MaxRequests) \X AnyHost \X AnyHost)
  /\ loggers \in SUBSET Attempts
  /\ deniedLog \in SUBSET Attempts

ConInit ==
  /\ con = [c \in Connections |->
       [pc |-> "loop", chunks |-> 0, host |-> NoHost, busy |-> FALSE, idle |-> 0,
        errors |-> 0, connected |-> FALSE, act |-> 0, cid |-> NoCid,
        denied |-> FALSE, ended |-> FALSE, parsed |-> FALSE, need |-> FALSE,
        content |-> {}, started |-> 0]]
  /\ server = [c \in Connections |-> <<>>]
  /\ collects = {}
  /\ loggers = {}
  /\ deniedLog = {}

Becomes(c, k) == con' = [con EXCEPT ![c] = k]
At(c, point) == con[c].pc = point
To(c, point) == Becomes(c, [con[c] EXCEPT !.pc = point])

\* A step that only the thread itself notices.
Local == UNCHANGED <<server, collects, loggers, deniedLog, catVars>>

-----------------------------------------------------------------------------
(* The head of the loop, and what the client has sent *)

\* Mutant: nobody looks at the time.
GoesWithoutTimeout(c) ==
  con[c].errors < MaxErrors /\ ~con[c].ended

Goes(c) ==
  con[c].idle < Timeout /\ con[c].errors < MaxErrors /\ ~con[c].ended

Close(c) ==
  /\ At(c, "loop")
  /\ ~Goes(c)
  /\ To(c, "closed")
  /\ Local

\* A chunk; all but the first of a request have no Host header.  The parser of
\* the response is replaced.
ChunkArrives(c, h) ==
  /\ At(c, "loop") /\ Goes(c)
  /\ con[c].chunks < MaxRequests
  /\ IF h = NoHost THEN Has("bodies") /\ con[c].chunks > 0
                   ELSE Has("pipelining") \/ server[c] = <<>>
  /\ Becomes(c, [con[c] EXCEPT !.pc = IF con[c].connected THEN "action" ELSE "connect",
                               !.chunks = @ + 1, !.host = h, !.busy = TRUE,
                               !.idle = 0, !.parsed = FALSE])
  /\ Local

NothingArrives(c) ==
  /\ At(c, "loop") /\ Goes(c)
  /\ To(c, "receive")
  /\ Local

ReadFails(c) ==
  /\ At(c, "loop") /\ Goes(c)
  /\ Has("errors")
  /\ Becomes(c, [con[c] EXCEPT !.pc = "receive", !.errors = @ + 1])
  /\ Local

\* A chunk that finds no server is lost.
Connect(c) ==
  /\ At(c, "connect")
  /\ \/ Becomes(c, [con[c] EXCEPT !.pc = "action", !.connected = TRUE])
     \/ Has("errors") /\ Becomes(c, [con[c] EXCEPT !.pc = "receive", !.errors = @ + 1])
  /\ Local

-----------------------------------------------------------------------------
(* The check: Collector.CheckAccessToUrl, then the category of the host *)

GetAction(c) ==
  /\ At(c, "action")
  /\ LET a == ActionOf(IpOf[c])
     IN  Becomes(c, [con[c] EXCEPT !.pc = IF a = 0 THEN "category" ELSE "stats",
                                   !.act = a, !.denied = FALSE])
  /\ Local

\* Three times containsKey.
HasStats(c) ==
  /\ At(c, "stats")
  /\ To(c, IF statsOfIps[IpOf[c]] = "none" THEN "list" ELSE "limits")
  /\ Local

\* A CADBiSException of the Checker: answerExceedLimits.
ExceedsLimits(c) ==
  /\ Becomes(c, [con[c] EXCEPT !.pc = "receive", !.denied = TRUE, !.ended = TRUE])
  /\ loggers' = loggers \cup {<<c, "url">>}
  /\ UNCHANGED <<server, collects, deniedLog, catVars>>

\* A NullPointerException or an IndexOutOfBoundsException is not caught: the
\* thread ends and nobody closes the sockets.
Leaks(c) == To(c, "leaked") /\ Local

\* The statistics may be gone since containsKey, or only the traffic of the
\* day, which is not compared then.  While another connection computes the
\* limits of the day, that of the tariff may be missing, and is not compared; or
\* both compute, and one finds a null in the map that the other has replaced.
CheckLimits(c) ==
  LET s == statsOfIps[IpOf[c]]
  IN  /\ At(c, "limits")
      /\ \/ (s \in {"none", "null"} \/ Has("limits")) /\ Leaks(c)
         \/ s = "exceeded" /\ ExceedsLimits(c)
         \/ (s \in {"ok", "none"} \/ Has("limits")) /\ To(c, "list") /\ Local

\* The list belongs to the Action that was read: its size, and its elements.
\* The Action is a local variable of the method, forgotten with the last step.
EnterList(c) ==
  /\ At(c, "list")
  /\ IF ListOf(con[c].act, IpOf[c]) = {}
       THEN Becomes(c, [con[c] EXCEPT !.pc = "category", !.act = 0])
       ELSE To(c, "urls")
  /\ Local

MatchDeniedUrls(c) ==
  LET L == ListOf(con[c].act, IpOf[c])
  IN  /\ At(c, "urls")
      /\ \/ /\ Becomes(c, [con[c] EXCEPT !.pc = "category", !.act = 0,
                                           !.denied = con[c].host \in L])
            /\ Local
         \/ L = {} /\ Leaks(c)

GetCategory(c) ==
  /\ At(c, "category")
  /\ LET cid == CategoryForUrl(con[c].host)
     IN  Becomes(c, [con[c] EXCEPT !.pc = IF cid = NoCid THEN "send" ELSE "tariff",
                                   !.cid = cid])
  /\ Local

GetTariff(c) ==
  /\ At(c, "tariff")
  /\ To(c, IF ActionOf(IpOf[c]) = 0 THEN "send" ELSE "rights")
  /\ Local

\* Mutant: the category is looked at, but the request goes on.
CheckCategoryNotDenied(c) ==
  /\ At(c, "rights")
  /\ IF con[c].cid \in catsAccessDenied
       THEN /\ Becomes(c, [con[c] EXCEPT !.pc = "send", !.ended = TRUE])
            /\ loggers' = loggers \cup {<<c, "url">>, <<c, "category">>}
       ELSE To(c, "send") /\ UNCHANGED loggers
  /\ UNCHANGED <<server, collects, deniedLog, catVars>>

\* checkAccessToCategory; answerAccessDenied logs the attempt as one to a url,
\* the connection once more as one to a category.
CheckCategory(c) ==
  /\ At(c, "rights")
  /\ IF con[c].cid \in catsAccessDenied
       THEN /\ Becomes(c, [con[c] EXCEPT !.pc = "send", !.denied = TRUE, !.ended = TRUE])
            /\ loggers' = loggers \cup {<<c, "url">>, <<c, "category">>}
       ELSE To(c, "send") /\ UNCHANGED loggers
  /\ UNCHANGED <<server, collects, deniedLog, catVars>>

Forward(c) ==
  /\ At(c, "send")
  /\ ~con[c].denied
  /\ \/ /\ server' = IF con[c].host = NoHost THEN server
                     ELSE [server EXCEPT ![c] = Append(@, con[c].host)]
        /\ To(c, "receive")
     \/ /\ Has("errors")
        /\ Becomes(c, [con[c] EXCEPT !.pc = "receive", !.errors = @ + 1])
        /\ UNCHANGED server
  /\ UNCHANGED <<collects, loggers, deniedLog, catVars>>

DoNotForward(c) ==
  /\ At(c, "send")
  /\ con[c].denied
  /\ To(c, "receive")
  /\ Local

-----------------------------------------------------------------------------
(* The answer: what the server has sent, or the page of a refusal *)

\* The recogniser gets a reference to the text, not a copy.
MayAnalyse(c, k, due) ==
  IF k.need /\ k.cid = NoCid /\ due
    THEN /\ StartRecognizer(<<c, k.started + 1>>, k.host)
         /\ Becomes(c, [k EXCEPT !.need = FALSE, !.started = @ + 1])
    ELSE Becomes(c, k) /\ UNCHANGED catVars

\* isNeedToCheckContent
Checked == IF Has("analysis") THEN BOOLEAN ELSE {FALSE}

\* Whether a read or a write fails.
Errors == IF Has("errors") THEN {0, 1} ELSE {0}

Waited(c) == con[c].idle > Timeout \div 4

\* The buffer for the text is never emptied: once it was full, when an analysis
\* began, it stays so.
StillFull(c) == IF con[c].started > 0 THEN BOOLEAN ELSE {FALSE}

\* Mutant: isReadWrite is not reset, so that the time never ends.
ReceiveNothingBusy(c) ==
  /\ At(c, "receive")
  /\ ~con[c].denied
  /\ \E failed \in IF con[c].connected THEN Errors ELSE {0}, full \in StillFull(c) :
       MayAnalyse(c, [con[c] EXCEPT !.pc = "loop", !.errors = @ + failed],
                  full \/ Waited(c))
  /\ UNCHANGED <<server, collects, loggers, deniedLog>>

\* Time is only looked at when nothing was read or written.
ReceiveNothing(c) ==
  /\ At(c, "receive")
  /\ ~con[c].denied
  /\ \E failed \in IF con[c].connected THEN Errors ELSE {0}, full \in StillFull(c) :
       MayAnalyse(c, [con[c] EXCEPT !.pc = "loop", !.busy = FALSE,
                                    !.errors = @ + failed,
                                    !.idle = IF con[c].busy THEN @ ELSE @ + 1],
                  full \/ Waited(c))
  /\ UNCHANGED <<server, collects, loggers, deniedLog>>

Replied(k) == [k EXCEPT !.pc = "loop", !.busy = FALSE, !.idle = 0]

\* The headers of the first response after a chunk say whether the text is to
\* be analysed; the buffer for the text may be full by then.
Respond(c) ==
  /\ At(c, "receive")
  /\ ~con[c].denied /\ con[c].connected /\ server[c] # <<>>
  /\ \E need \in IF con[c].parsed THEN {con[c].need} ELSE Checked,
        full \in BOOLEAN, failed \in Errors :
       /\ MayAnalyse(c, [Replied(con[c]) EXCEPT
                           !.errors = @ + failed, !.parsed = TRUE, !.need = need,
                           !.content = IF need /\ con[c].cid = NoCid
                                         THEN @ \cup {Head(server[c])} ELSE @],
                     full \/ Waited(c))
       /\ collects' = IF failed = 1 THEN collects
                      ELSE collects \cup {<<c, con[c].chunks, con[c].host, Head(server[c])>>}
  /\ server' = [server EXCEPT ![c] = Tail(@)]
  /\ UNCHANGED <<loggers, deniedLog>>

\* A denied url is answered here, the other refusals are already in the
\* buffer; the answer counts as traffic of the host, of no bytes.
Refuse(c) ==
  /\ At(c, "receive")
  /\ con[c].denied
  /\ \E failed \in Errors :
       /\ Becomes(c, [Replied(con[c]) EXCEPT !.errors = @ + failed, !.ended = TRUE])
       /\ collects' = IF failed = 1 THEN collects
                      ELSE collects \cup {<<c, con[c].chunks, con[c].host, con[c].host>>}
  /\ loggers' = IF con[c].ended THEN loggers ELSE loggers \cup {<<c, "url">>}
  /\ UNCHANGED <<server, deniedLog, catVars>>

Check(c) ==
  \/ GetAction(c) \/ HasStats(c) \/ CheckLimits(c) \/ EnterList(c)
  \/ MatchDeniedUrls(c) \/ GetCategory(c) \/ GetTariff(c) \/ CheckCategory(c)

Run(c) ==
  \/ Close(c) \/ NothingArrives(c) \/ ReadFails(c)
  \/ (\E h \in AnyHost : ChunkArrives(c, h))
  \/ Connect(c) \/ Check(c) \/ Forward(c) \/ DoNotForward(c)
  \/ ReceiveNothing(c) \/ Respond(c) \/ Refuse(c)

-----------------------------------------------------------------------------
(* The threads that a connection starts *)

\* PreCollector.run
PreCollect(x) ==
  /\ x \in collects
  /\ collects' = collects \ {x}
  /\ Collect(IpOf[x[1]])
  /\ UNCHANGED <<con, server, loggers, deniedLog, catVars>>

\* CategoryRecognizer.run: the text of the connection as it is now.
ReadContent(t) ==
  /\ Begin(t, con[t[1]].content)
  /\ UNCHANGED conVars

\* AccessDeniedAttemptLogger.run looks the session up again: without one the
\* thread ends with a NullPointerException.
LogAttempt(x) ==
  /\ x \in loggers
  /\ loggers' = loggers \ {x}
  /\ \/ ActionOf(IpOf[x[1]]) # 0 /\ deniedLog' = deniedLog \cup {x}
     \/ (ActionOf(IpOf[x[1]]) = 0 \/ Has("failures")) /\ UNCHANGED deniedLog
  /\ UNCHANGED <<con, server, collects, catVars>>

=============================================================================
