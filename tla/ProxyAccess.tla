----------------------------- MODULE ProxyAccess -----------------------------
(***************************************************************************)
(* A client's way through CADBiS_proxy: the threads of the connections,    *)
(* the tables of the Collector they check with, and the Categorizer.       *)
(***************************************************************************)
EXTENDS ProxyConnection

VARIABLE allowed   \* history: at some moment since the chunk of a connection
                   \* arrived the tables would have let it pass

vars == <<scenario, accessVars, catVars, conVars, allowed>>

TypeOK ==
  /\ scenario \in Scenarios
  /\ AccessTypeOK
  /\ CatTypeOK
  /\ ConTypeOK
  /\ allowed \in [Connections -> BOOLEAN]

\* What a check would say that reads all the tables at once.
Allows(c) ==
  LET k == con[c]
      cid == CategoryForUrl(k.host)
  IN  /\ UrlAllowed(IpOf[c], k.host)
      /\ ActionOf(IpOf[c]) # 0 => cid \notin catsAccessDenied

Observe ==
  allowed' = [c \in Connections |->
    Allows(c)' \/ (allowed[c] /\ con'[c].chunks = con[c].chunks)]

Init ==
  /\ scenario \in Scenarios
  /\ AccessInit
  /\ CatInit
  /\ ConInit
  /\ allowed = [c \in Connections |-> FALSE]

Connection(c) == Run(c) /\ UNCHANGED accessVars
Tables == AccessStep /\ UNCHANGED <<catVars, conVars>>
PreCollector(x) == PreCollect(x) /\ UNCHANGED tableVars
Recognition(t) ==
  /\ ReadContent(t) \/ (Recognizer(t) /\ UNCHANGED conVars)
  /\ UNCHANGED accessVars
Logger(x) == LogAttempt(x) /\ UNCHANGED accessVars
CategorizerWakes == ReloadBegin /\ UNCHANGED <<accessVars, conVars>>
Reload == ReloadData /\ UNCHANGED <<accessVars, conVars>>
Edit == Administration /\ UNCHANGED <<accessVars, conVars>>

Step ==
  \/ \E c \in Connections : Connection(c)
  \/ Tables
  \/ \E x \in collects : PreCollector(x)
  \/ \E t \in Recognizers : Recognition(t)
  \/ \E x \in loggers : Logger(x)
  \/ CategorizerWakes
  \/ Reload
  \/ Edit

Next == Step /\ Observe /\ UNCHANGED scenario

Spec == Init /\ [][Next]_vars

\* Threads that are started run.  A client need not send, nor a server answer,
\* and the daemons need not wake up.
Fairness ==
  /\ \A c \in Connections : WF_vars(Connection(c) /\ Observe /\ UNCHANGED scenario)
  /\ \A t \in Recognizers : WF_vars(Recognition(t) /\ Observe /\ UNCHANGED scenario)
  /\ \A x \in Attempts :
       WF_vars(Logger(x) /\ Observe /\ UNCHANGED scenario)
  /\ WF_vars(Reload /\ Observe /\ UNCHANGED scenario)

FairSpec == Spec /\ Fairness

-----------------------------------------------------------------------------
(* Properties *)

\* A request goes to the server only if, at some moment since it was read, the
\* tables as a whole let it pass: a check that reads them one by one, while a
\* daemon rebuilds them, lets nothing through that no state of them allows.
\* Two threads that rebuild at once (the refresh of prerun() is not in the
\* monitor, that of the Categorizer in another one) do let such requests pass,
\* and so do connections that compute the limits of the day at once.
ForwardedWasAllowed ==
  [][\A c \in Connections :
       Len(server'[c]) > Len(server[c]) =>
         \/ allowed[c]
         \/ Has("prerun") \/ Has("limits") \/ (Has("reload") /\ Has("flush"))]_vars

\* A connection ends though neither side ever closes it, and its sockets are
\* closed unless the tables are rebuilt during a check, the limits of the day
\* are computed by several connections at once, or statements fail.
ConnectionEnds ==
  \A c \in Connections :
    <>(\/ At(c, "closed")
       \/ /\ At(c, "leaked")
          /\ scenario \cap {"prerun", "flush", "limits", "failures"} # {})

\* denied_access.html:28-29, the page of a refusal: the server has remembered
\* the request in any case and will report the attempt to the administration.
DeniedIsLogged ==
  \A x \in Attempts : x \in loggers ~> x \in deniedLog

=============================================================================
