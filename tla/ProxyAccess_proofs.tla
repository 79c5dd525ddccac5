-------------------------- MODULE ProxyAccess_proofs --------------------------
(***************************************************************************)
(* Proofs about ProxyAccess, for any connections, hosts, sessions, bounds  *)
(* and scenarios: its types; that the Categorizer of the composition is    *)
(* the one of the module Categorizer, whose theorems it inherits; that the *)
(* tables of the checker are complete after a refresh that nothing         *)
(* disturbs; and that what is forwarded was allowed.                       *)
(***************************************************************************)
EXTENDS ProxyAccess, Categorizer_proofs

-----------------------------------------------------------------------------
(* The locals of a connection *)

\* Where an error has not been counted in this turn of the loop yet.
Before == ConPoints \ {"loop", "receive", "closed", "leaked"}

\* Errors and idle time stay below their limits as long as the loop goes on;
\* what is checked is a chunk.
Counted(k) ==
  /\ k.pc \in Before => k.chunks > 0
  /\ k.pc \in Before => k.errors < MaxErrors
  /\ k.pc = "receive" => k.errors <= MaxErrors
  /\ k.pc \in Before \cup {"receive"} => k.idle < Timeout

\* A chunk has one more text analysed at most: if there is one to be analysed,
\* or if the headers are still to come that may ask for it.
Texts(k) ==
  /\ k.started <= k.chunks
  /\ k.need \/ (~k.parsed /\ k.chunks > 0) => k.started + 1 <= k.chunks
  /\ k.need /\ ~k.parsed => k.started + 2 <= k.chunks

Good(k) == k \in Locals /\ Counted(k) /\ Texts(k)

\* A server answers what was sent.
ConInv ==
  /\ ConTypeOK
  /\ \A c \in Connections : Good(con[c]) /\ (server[c] # <<>> => con[c].chunks > 0)

\* A thread changes its own locals, to good ones, and does not forget chunks.
Improves(c, k) == Good(k) /\ Becomes(c, k) /\ k.chunks >= con[c].chunks

\* The constants the arithmetic needs.
LEMMA Bounds == Timeout \in Nat \ {0} /\ MaxErrors \in Nat \ {0} /\ MaxRequests \in Nat \ {0}
BY ConnectionAssumption

\* A thread that only goes on.
LEMMA GoesOn ==
  ASSUME NEW r, Good(r), NEW p \in ConPoints,
         p \in Before => r.pc \in Before,
         p = "receive" => r.pc \in Before \cup {"receive"}
                            \/ (r.errors < MaxErrors /\ r.idle < Timeout)
  PROVE  Good([r EXCEPT !.pc = p])
BY Bounds DEF Good, Locals, Counted, Texts, Before, ConPoints

\* A thread that counts an error and goes to receive.
LEMMA ErrorGood ==
  ASSUME NEW r, Good(r), r.errors < MaxErrors, r.idle < Timeout
  PROVE   Good([r EXCEPT !.pc = "receive", !.errors = @ + 1])
<1> DEFINE k == [r EXCEPT !.pc = "receive", !.errors = @ + 1]
<1>1. r \in Locals /\ Counted(r) /\ Texts(r)
  BY DEF Good
<1>2. r.errors \in Nat /\ r.errors + 1 \in 0..(MaxErrors + 1)
  BY <1>1, Bounds DEF Locals
<1>3. k = [r EXCEPT !.pc = "receive", !.errors = r.errors + 1]
  BY <1>1 DEF Locals
<1>4. k \in Locals
  BY <1>1, <1>2, <1>3 DEF Locals, ConPoints
<1>5. k.pc = "receive" /\ k.errors = r.errors + 1 /\ k.idle = r.idle
  BY <1>1, <1>3 DEF Locals
<1>6. Counted(k)
  BY <1>2, <1>5, Bounds DEF Counted, Before
<1>7. Texts(k)
  BY <1>1, <1>3 DEF Locals, Texts
<1> QED BY <1>4, <1>6, <1>7 DEF Good

\* A chunk starts the time again.
LEMMA ChunkGood ==
  ASSUME NEW r, Good(r), NEW p \in {"action", "connect"}, NEW h \in AnyHost,
         r.errors < MaxErrors, r.chunks < MaxRequests
  PROVE  Good([r EXCEPT !.pc = p, !.chunks = @ + 1, !.host = h, !.busy = TRUE,
                        !.idle = 0, !.parsed = FALSE])
<1> DEFINE k == [r EXCEPT !.pc = p, !.chunks = @ + 1, !.host = h, !.busy = TRUE,
                          !.idle = 0, !.parsed = FALSE]
<1>1. r \in Locals /\ Counted(r) /\ Texts(r)
  BY DEF Good
<1>2. k = [r EXCEPT !.pc = p, !.chunks = r.chunks + 1, !.host = h, !.busy = TRUE,
                    !.idle = 0, !.parsed = FALSE]
  BY <1>1 DEF Locals
<1>3. r.chunks + 1 \in 0..MaxRequests /\ 0 \in 0..Timeout /\ p \in ConPoints
  BY <1>1, Bounds DEF Locals, ConPoints
<1>4. k \in Locals
  BY <1>1, <1>2, <1>3 DEF Locals
<1>5. /\ k.pc = p /\ k.errors = r.errors /\ k.idle = 0 /\ k.chunks = r.chunks + 1
      /\ k.started = r.started /\ k.need = r.need /\ k.parsed = FALSE
  BY <1>1, <1>2 DEF Locals
<1>6. Counted(k)
  BY <1>1, <1>5, Bounds DEF Counted, Locals
<1>7. Texts(k)
  BY <1>1, <1>5 DEF Texts, Locals
<1> QED BY <1>4, <1>6, <1>7 DEF Good

\* What a check changes are the place, the Action, the category and the refusal.
LEMMA CheckGood ==
  ASSUME NEW r, Good(r), r.pc \in Before, NEW k \in Locals,
         k.pc \in ConPoints \ {"loop"},
         k.errors = r.errors, k.idle = r.idle, k.chunks = r.chunks,
         k.started = r.started, k.need = r.need, k.parsed = r.parsed
  PROVE  Good(k)
BY Bounds DEF Good, Locals, Counted, Texts, Before

\* Back to the loop, with an error perhaps.
LEMMA TurnGood ==
  ASSUME NEW r, Good(r), r.pc = "receive", NEW k \in Locals, k.pc = "loop",
         k.chunks = r.chunks, k.started = r.started,
         \/ k.need = r.need /\ k.parsed = r.parsed
         \/ r.chunks > 0 /\ k.parsed /\ (r.parsed => k.need = r.need)
  PROVE  Good(k)
BY Bounds DEF Good, Locals, Counted, Texts, Before

\* A text that is analysed is not to be analysed any more.
LEMMA AnalysedGood ==
  ASSUME NEW k, Good(k), k.pc = "loop", k.need
  PROVE  /\ k.started + 1 \in 1..MaxRequests
         /\ Good([k EXCEPT !.need = FALSE, !.started = @ + 1])
<1> DEFINE l == [k EXCEPT !.need = FALSE, !.started = @ + 1]
<1>1. k \in Locals /\ Counted(k) /\ Texts(k)
  BY DEF Good
<1>2. k.started + 1 \in 1..MaxRequests
  BY <1>1, Bounds DEF Locals, Texts
<1>3. l = [k EXCEPT !.need = FALSE, !.started = k.started + 1]
  BY <1>1 DEF Locals
<1>4. l \in Locals
  <2>1. k.started + 1 \in 0..MaxRequests
    BY <1>2, Bounds
  <2> QED BY <1>1, <1>3, <2>1 DEF Locals
<1>5. /\ l.pc = "loop" /\ l.chunks = k.chunks /\ l.started = k.started + 1
      /\ l.need = FALSE /\ l.parsed = k.parsed
  BY <1>1, <1>3 DEF Locals
<1>6. Counted(l) /\ Texts(l)
  BY <1>1, <1>5 DEF Counted, Texts, Locals, Before
<1> QED BY <1>2, <1>4, <1>6 DEF Good

-----------------------------------------------------------------------------
(* What a thread does to its locals *)

\* A thread that counts an error.
LEMMA ErrorImproves ==
  ASSUME ConInv, NEW c \in Connections,
         con[c].errors < MaxErrors, con[c].idle < Timeout,
         Becomes(c, [con[c] EXCEPT !.pc = "receive", !.errors = @ + 1])
  PROVE  \E k : Improves(c, k)
<1> DEFINE r == con[c]
           k == [r EXCEPT !.pc = "receive", !.errors = @ + 1]
<1>1. Good(r)
  BY DEF ConInv
<1>2. Good(k)
  BY <1>1, ErrorGood
<1>3. k.chunks >= r.chunks
  BY <1>1 DEF Good, Locals
<1> QED BY <1>2, <1>3 DEF Improves

\* A thread that goes on in the check.
LEMMA CheckedImproves ==
  ASSUME ConInv, NEW c \in Connections, con[c].pc \in Before,
         NEW k \in Locals, Becomes(c, k), k.pc # "loop",
         k.errors = con[c].errors, k.idle = con[c].idle, k.chunks = con[c].chunks,
         k.started = con[c].started, k.need = con[c].need, k.parsed = con[c].parsed
  PROVE  \E l : Improves(c, l)
<1>1. Good(con[c]) /\ con[c] \in Locals
  BY DEF ConInv, Good
<1>2. k.pc \in ConPoints \ {"loop"} /\ k.chunks >= con[c].chunks
  BY <1>1 DEF Locals
<1>3. Good(k)
  BY <1>1, <1>2, CheckGood
<1> QED BY <1>2, <1>3 DEF Improves

\* The loop up to the check.
LEMMA LoopImproves ==
  ASSUME ConInv, NEW c \in Connections,
         \/ Close(c) \/ NothingArrives(c) \/ ReadFails(c) \/ Connect(c)
         \/ \E h \in AnyHost : ChunkArrives(c, h)
  PROVE  \E k : Improves(c, k)
<1> DEFINE r == con[c]
<1>g. Good(r) /\ r \in Locals /\ Counted(r)
  BY DEF ConInv, Good
<1>1. CASE Close(c) \/ NothingArrives(c)
  <2>1. PICK p \in {"closed", "receive"} :
          /\ Becomes(c, [r EXCEPT !.pc = p])
          /\ p = "receive" => r.idle < Timeout /\ r.errors < MaxErrors
    BY <1>1 DEF Close, NothingArrives, To, Goes
  <2>2. Good([r EXCEPT !.pc = p])
    BY <1>g, <2>1, GoesOn DEF ConPoints, Before
  <2>3. [r EXCEPT !.pc = p].chunks >= r.chunks
    BY <1>g DEF Locals
  <2> QED BY <2>1, <2>2, <2>3 DEF Improves
<1>2. CASE ReadFails(c)
  BY <1>2, ErrorImproves DEF ReadFails, Goes
<1>3. CASE Connect(c)
  <2>1. r.pc = "connect" /\ r.pc \in Before /\ r.errors < MaxErrors /\ r.idle < Timeout
    BY <1>3, <1>g DEF Connect, At, Counted, Before, ConPoints
  <2>2. CASE Becomes(c, [r EXCEPT !.pc = "action", !.connected = TRUE])
    <3> DEFINE k == [r EXCEPT !.pc = "action", !.connected = TRUE]
    <3>1. k \in Locals
      BY <1>g DEF Locals, ConPoints
    <3> QED BY <2>1, <2>2, <3>1, <1>g, CheckedImproves DEF Locals
  <2>3. CASE Becomes(c, [r EXCEPT !.pc = "receive", !.errors = @ + 1])
    BY <2>1, <2>3, ErrorImproves
  <2> QED BY <1>3, <2>2, <2>3 DEF Connect
<1>4. ASSUME NEW h \in AnyHost, ChunkArrives(c, h)
      PROVE  \E k : Improves(c, k)
  <2>1. PICK p \in {"action", "connect"} :
          Becomes(c, [r EXCEPT !.pc = p, !.chunks = @ + 1, !.host = h, !.busy = TRUE,
                               !.idle = 0, !.parsed = FALSE])
    BY <1>4 DEF ChunkArrives
  <2> DEFINE k == [r EXCEPT !.pc = p, !.chunks = @ + 1, !.host = h, !.busy = TRUE,
                            !.idle = 0, !.parsed = FALSE]
  <2>2. r.errors < MaxErrors /\ r.chunks < MaxRequests
    BY <1>4 DEF ChunkArrives, Goes
  <2>3. Good(k)
    BY <1>g, <2>2, ChunkGood
  <2>4. k.chunks >= r.chunks
    BY <1>g DEF Locals
  <2> QED BY <2>1, <2>3, <2>4 DEF Improves
<1> QED BY <1>1, <1>2, <1>3, <1>4

\* The check, and forwarding.
LEMMA CheckImproves ==
  ASSUME ConInv, AccessTypeOK, CatTypeOK, NEW c \in Connections,
         Check(c) \/ Forward(c) \/ DoNotForward(c)
  PROVE  \E k : Improves(c, k)
<1> DEFINE r == con[c]
<1>g. Good(r) /\ r \in Locals /\ Counted(r)
  BY DEF ConInv, Good
<1>b. r.pc \in Before /\ r.errors < MaxErrors /\ r.idle < Timeout /\ r.pc # "loop"
  BY <1>g DEF Check, GetAction, HasStats, CheckLimits, EnterList, MatchDeniedUrls,
              GetCategory, GetTariff, CheckCategory, Forward, DoNotForward, At,
              Counted, Before, ConPoints
<1>c. ActionOf(IpOf[c]) \in Nat /\ CategoryForUrl(r.host) \in Cids \cup {NoCid}
  BY <1>g, ConnectionAssumption
     DEF AccessTypeOK, CatTypeOK, ActionOf, CategoryForUrl, Locals, AnyHost
<1>1. ASSUME NEW p \in ConPoints \ {"loop"}, To(c, p) PROVE \E k : Improves(c, k)
  <2>1. Good([r EXCEPT !.pc = p])
    BY <1>g, <1>b, GoesOn
  <2>2. [r EXCEPT !.pc = p].chunks >= r.chunks
    BY <1>g DEF Locals
  <2> QED BY <1>1, <2>1, <2>2 DEF Improves, To
<1>2. ASSUME NEW k \in Locals, Becomes(c, k), k.pc # "loop",
             k.errors = r.errors, k.idle = r.idle, k.chunks = r.chunks,
             k.started = r.started, k.need = r.need, k.parsed = r.parsed
      PROVE  \E l : Improves(c, l)
  BY <1>2, <1>b, CheckedImproves
<1>3. CASE GetAction(c)
  <2>1. PICK p \in {"category", "stats"} :
          Becomes(c, [r EXCEPT !.pc = p, !.act = ActionOf(IpOf[c]), !.denied = FALSE])
    BY <1>3 DEF GetAction
  <2> DEFINE k == [r EXCEPT !.pc = p, !.act = ActionOf(IpOf[c]), !.denied = FALSE]
  <2>2. k \in Locals
    BY <1>g, <1>c DEF Locals, ConPoints
  <2> QED BY <2>1, <2>2, <1>2, <1>g DEF Locals
<1>4. CASE HasStats(c) \/ GetTariff(c) \/ DoNotForward(c)
  BY <1>4, <1>1 DEF HasStats, GetTariff, DoNotForward, ConPoints
<1>5. CASE CheckLimits(c)
  <2>1. CASE Leaks(c) \/ To(c, "list")
    BY <2>1, <1>1 DEF Leaks, ConPoints
  <2>2. CASE ExceedsLimits(c)
    <3> DEFINE k == [r EXCEPT !.pc = "receive", !.denied = TRUE, !.ended = TRUE]
    <3>1. k \in Locals
      BY <1>g DEF Locals, ConPoints
    <3> QED BY <2>2, <3>1, <1>2, <1>g DEF ExceedsLimits, Locals
  <2> QED BY <1>5, <2>1, <2>2 DEF CheckLimits
<1>6. CASE EnterList(c)
  <2>1. CASE To(c, "urls")
    BY <2>1, <1>1 DEF ConPoints
  <2>2. CASE Becomes(c, [r EXCEPT !.pc = "category", !.act = 0])
    <3> DEFINE k == [r EXCEPT !.pc = "category", !.act = 0]
    <3>1. k \in Locals
      BY <1>g DEF Locals, ConPoints
    <3> QED BY <2>2, <3>1, <1>2, <1>g DEF Locals
  <2> QED BY <1>6, <2>1, <2>2 DEF EnterList
<1>7. CASE MatchDeniedUrls(c)
  <2>1. CASE Leaks(c)
    BY <2>1, <1>1 DEF Leaks, ConPoints
  <2>2. CASE ~Leaks(c)
    <3>1. Becomes(c, [r EXCEPT !.pc = "category", !.act = 0,
                               !.denied = r.host \in ListOf(r.act, IpOf[c])])
      BY <1>7, <2>2, Zenon DEF MatchDeniedUrls
    <3>2. (r.host \in ListOf(r.act, IpOf[c])) \in BOOLEAN
      OBVIOUS
    <3>3. PICK d \in BOOLEAN :
            Becomes(c, [r EXCEPT !.pc = "category", !.act = 0, !.denied = d])
      BY <3>1, <3>2, Zenon
    <3> DEFINE k == [r EXCEPT !.pc = "category", !.act = 0, !.denied = d]
    <3>4. k \in Locals
      BY <1>g DEF Locals, ConPoints
    <3> QED BY <3>3, <3>4, <1>2, <1>g DEF Locals
  <2> QED BY <2>1, <2>2
<1>8. CASE GetCategory(c)
  <2>1. PICK p \in {"send", "tariff"} :
          Becomes(c, [r EXCEPT !.pc = p, !.cid = CategoryForUrl(r.host)])
    BY <1>8 DEF GetCategory
  <2> DEFINE k == [r EXCEPT !.pc = p, !.cid = CategoryForUrl(r.host)]
  <2>2. k \in Locals
    BY <1>g, <1>c DEF Locals, ConPoints
  <2> QED BY <2>1, <2>2, <1>2, <1>g DEF Locals
<1>9. CASE CheckCategory(c)
  <2>1. CASE To(c, "send")
    BY <2>1, <1>1 DEF ConPoints
  <2>2. CASE Becomes(c, [r EXCEPT !.pc = "send", !.denied = TRUE, !.ended = TRUE])
    <3> DEFINE k == [r EXCEPT !.pc = "send", !.denied = TRUE, !.ended = TRUE]
    <3>1. k \in Locals
      BY <1>g DEF Locals, ConPoints
    <3> QED BY <2>2, <3>1, <1>2, <1>g DEF Locals
  <2> QED BY <1>9, <2>1, <2>2 DEF CheckCategory
<1>10. CASE Forward(c)
  <2>1. CASE To(c, "receive")
    BY <2>1, <1>1 DEF ConPoints
  <2>2. CASE Becomes(c, [r EXCEPT !.pc = "receive", !.errors = @ + 1])
    BY <2>2, <1>b, ErrorImproves
  <2> QED BY <1>10, <2>1, <2>2 DEF Forward
<1> QED BY <1>3, <1>4, <1>5, <1>6, <1>7, <1>8, <1>9, <1>10 DEF Check

\* What a turn is to the Categorizer: nothing, or that a recogniser starts.
StartsRecognizer ==
  \/ UNCHANGED catVars
  \/ \E t \in Recognizers : \E h \in Hosts \cup {NoHost} : StartRecognizer(t, h)

\* Waiting for the server, or its answer.
LEMMA ReceiveImproves ==
  ASSUME ConInv, NEW c \in Connections,
         ReceiveNothing(c) \/ Respond(c) \/ Refuse(c)
  PROVE  StartsRecognizer /\ \E k : Improves(c, k)
<1> DEFINE r == con[c]
<1>g. Good(r) /\ r \in Locals /\ Counted(r) /\ Texts(r)
  BY DEF ConInv, Good
<1>r. r.pc = "receive" /\ r.errors <= MaxErrors /\ r.idle < Timeout
  BY <1>g DEF ReceiveNothing, Respond, Refuse, At, Counted
<1>e. ASSUME NEW failed \in Errors PROVE r.errors + failed \in 0..(MaxErrors + 1)
  BY <1>e, <1>g, <1>r, Bounds DEF Errors, Locals
<1>i. r.idle + 1 \in 0..Timeout /\ 0 \in 0..Timeout
  BY <1>g, <1>r, Bounds DEF Locals
<1>m. ASSUME NEW k, Good(k), k.pc = "loop", k.chunks = r.chunks, NEW due,
             MayAnalyse(c, k, due)
      PROVE  StartsRecognizer /\ \E l : Improves(c, l)
  <2>1. CASE k.need /\ k.cid = NoCid /\ due
    <3>1. Becomes(c, [k EXCEPT !.need = FALSE, !.started = @ + 1])
      BY <1>m, <2>1 DEF MayAnalyse
    <3>2. Good([k EXCEPT !.need = FALSE, !.started = @ + 1])
      BY <1>m, <2>1, AnalysedGood
    <3>3. [k EXCEPT !.need = FALSE, !.started = @ + 1].chunks >= r.chunks
      BY <1>m, <1>g DEF Good, Locals
    <3>4. <<c, k.started + 1>> \in Recognizers
      BY <1>m, <2>1, AnalysedGood, ConnectionAssumption
    <3>5. k.host \in Hosts \cup {NoHost}
      BY <1>m DEF Good, Locals, AnyHost
    <3>6. StartRecognizer(<<c, k.started + 1>>, k.host)
      BY <1>m, <2>1 DEF MayAnalyse
    <3> QED BY <3>1, <3>2, <3>3, <3>4, <3>5, <3>6 DEF Improves, StartsRecognizer
  <2>2. CASE ~(k.need /\ k.cid = NoCid /\ due)
    <3>1. Becomes(c, k) /\ k.chunks >= r.chunks
      BY <1>m, <2>2, <1>g DEF MayAnalyse, Locals
    <3>2. UNCHANGED catVars
      BY <1>m, <2>2 DEF MayAnalyse
    <3> QED BY <1>m, <3>1, <3>2 DEF Improves, StartsRecognizer
  <2> QED BY <2>1, <2>2
<1>1. CASE ReceiveNothing(c)
  <2>1. PICK failed \in Errors, full \in StillFull(c) :
          MayAnalyse(c, [r EXCEPT !.pc = "loop", !.busy = FALSE,
                                  !.errors = @ + failed,
                                  !.idle = IF r.busy THEN @ ELSE @ + 1],
                     full \/ Waited(c))
    BY <1>1 DEF ReceiveNothing, Errors
  <2>2. PICK i0 \in 0..Timeout : i0 = IF r.busy THEN r.idle ELSE r.idle + 1
    BY <1>g, <1>i DEF Locals
  <2> DEFINE k == [r EXCEPT !.pc = "loop", !.busy = FALSE,
                            !.errors = r.errors + failed, !.idle = i0]
  <2>3. MayAnalyse(c, k, full \/ Waited(c))
    BY <2>1, <2>2, <1>g DEF Locals
  <2>4. k \in Locals
    BY <1>g, <1>e, <2>2 DEF Locals, ConPoints
  <2>5. /\ k.pc = "loop" /\ k.chunks = r.chunks /\ k.started = r.started
        /\ k.need = r.need /\ k.parsed = r.parsed
    BY <1>g DEF Locals
  <2>6. Good(k)
    BY <1>g, <1>r, <2>4, <2>5, TurnGood
  <2> QED BY <1>m, <2>3, <2>5, <2>6
<1>2. CASE Respond(c)
  <2>0. server[c] # <<>> /\ server[c] \in Seq(Hosts) /\ r.chunks > 0
    BY <1>2 DEF Respond, ConInv, ConTypeOK
  <2>h. Head(server[c]) \in Hosts
    BY <2>0
  <2>1. PICK need \in IF r.parsed THEN {r.need} ELSE Checked, full \in BOOLEAN,
             failed \in Errors :
          MayAnalyse(c, [Replied(r) EXCEPT
                           !.errors = @ + failed, !.parsed = TRUE, !.need = need,
                           !.content = IF need /\ r.cid = NoCid
                                         THEN @ \cup {Head(server[c])} ELSE @],
                     full \/ Waited(c))
    BY <1>2 DEF Respond
  <2>2. need \in BOOLEAN /\ (r.parsed => need = r.need)
    BY <1>g DEF Checked, Locals
  <2>3. PICK text \in SUBSET Hosts :
          text = IF need /\ r.cid = NoCid THEN r.content \cup {Head(server[c])}
                                           ELSE r.content
    BY <1>g, <2>h DEF Locals
  <2> DEFINE k == [r EXCEPT !.pc = "loop", !.busy = FALSE, !.idle = 0,
                            !.errors = r.errors + failed, !.parsed = TRUE,
                            !.need = need, !.content = text]
  <2>4. MayAnalyse(c, k, full \/ Waited(c))
    BY <2>1, <2>3, <1>g DEF Locals, Replied
  <2>5. k \in Locals
    BY <1>g, <1>e, <1>i, <2>2, <2>3 DEF Locals, ConPoints
  <2>6. /\ k.pc = "loop" /\ k.chunks = r.chunks /\ k.started = r.started
        /\ k.need = need /\ k.parsed = TRUE
    BY <1>g DEF Locals
  <2>7. Good(k)
    BY <1>g, <1>r, <2>0, <2>2, <2>5, <2>6, TurnGood
  <2> QED BY <1>m, <2>4, <2>6, <2>7
<1>3. CASE Refuse(c)
  <2>1. PICK failed \in Errors :
          Becomes(c, [Replied(r) EXCEPT !.errors = @ + failed, !.ended = TRUE])
    BY <1>3 DEF Refuse
  <2> DEFINE k == [r EXCEPT !.pc = "loop", !.busy = FALSE, !.idle = 0,
                            !.errors = r.errors + failed, !.ended = TRUE]
  <2>2. Becomes(c, k)
    BY <2>1, <1>g DEF Replied, Locals
  <2>3. k \in Locals
    BY <1>g, <1>e, <1>i DEF Locals, ConPoints
  <2>4. /\ k.pc = "loop" /\ k.chunks = r.chunks /\ k.started = r.started
        /\ k.need = r.need /\ k.parsed = r.parsed
    BY <1>g DEF Locals
  <2>5. Good(k)
    BY <1>g, <1>r, <2>3, <2>4, TurnGood
  <2>6. k.chunks >= r.chunks
    BY <1>g, <2>4 DEF Locals
  <2>7. UNCHANGED catVars
    BY <1>3 DEF Refuse
  <2> QED BY <2>2, <2>5, <2>6, <2>7 DEF Improves, StartsRecognizer
<1> QED BY <1>1, <1>2, <1>3

\* Every turn of a thread.
LEMMA RunImproves ==
  ASSUME ConInv, AccessTypeOK, CatTypeOK, NEW c \in Connections, Run(c)
  PROVE  StartsRecognizer /\ \E k : Improves(c, k)
<1>1. CASE \/ Close(c) \/ NothingArrives(c) \/ ReadFails(c) \/ Connect(c)
           \/ \E h \in AnyHost : ChunkArrives(c, h)
  <2>1. UNCHANGED catVars
    BY <1>1 DEF Close, NothingArrives, ReadFails, Connect, ChunkArrives, Local
  <2> QED BY <1>1, <2>1, LoopImproves DEF StartsRecognizer
<1>2. CASE Check(c) \/ Forward(c) \/ DoNotForward(c)
  <2>1. UNCHANGED catVars
    BY <1>2 DEF Check, GetAction, HasStats, CheckLimits, EnterList, MatchDeniedUrls,
                GetCategory, GetTariff, CheckCategory, Forward, DoNotForward,
                Leaks, ExceedsLimits, Local
  <2> QED BY <1>2, <2>1, CheckImproves DEF StartsRecognizer
<1>3. CASE ReceiveNothing(c) \/ Respond(c) \/ Refuse(c)
  BY <1>3, ReceiveImproves
<1> QED BY <1>1, <1>2, <1>3 DEF Run

\* What a turn does to what is outside the thread.
LEMMA RunOutside ==
  ASSUME ConInv, NEW c \in Connections, Run(c)
  PROVE  /\ server' \in [Connections -> Seq(Hosts)]
         /\ \A d \in Connections : server'[d] # <<>> => con[d].chunks > 0 \/ server[d] # <<>>
         /\ collects' \in SUBSET (Connections \X (0..MaxRequests) \X AnyHost \X AnyHost)
         /\ loggers' \in SUBSET Attempts
         /\ UNCHANGED deniedLog
<1> DEFINE r == con[c]
<1>g. r \in Locals /\ Counted(r)
  BY DEF ConInv, Good
<1>t. /\ server \in [Connections -> Seq(Hosts)]
      /\ collects \in SUBSET (Connections \X (0..MaxRequests) \X AnyHost \X AnyHost)
      /\ loggers \in SUBSET Attempts
  BY DEF ConInv, ConTypeOK
<1>1. CASE UNCHANGED <<server, collects, loggers, deniedLog>>
  BY <1>1, <1>t
<1>2. CASE ExceedsLimits(c) \/ CheckCategory(c)
  BY <1>2, <1>t DEF ExceedsLimits, CheckCategory, Attempts
<1>3. CASE Forward(c)
  <2>1. r.chunks > 0
    BY <1>3, <1>g DEF Forward, At, Counted, Before, ConPoints
  <2>2. CASE r.host # NoHost /\ server' = [server EXCEPT ![c] = Append(@, r.host)]
    <3>1. r.host \in Hosts
      BY <1>g, <2>2 DEF Locals, AnyHost
    <3>2. Append(server[c], r.host) \in Seq(Hosts)
      BY <1>t, <3>1
    <3> QED BY <1>3, <1>t, <2>1, <2>2, <3>2 DEF Forward
  <2>3. CASE server' = server
    BY <1>3, <1>t, <2>3 DEF Forward
  <2> QED BY <1>3, <2>2, <2>3 DEF Forward
<1>4. CASE Respond(c)
  <2>1. server[c] # <<>> /\ server' = [server EXCEPT ![c] = Tail(@)]
    BY <1>4 DEF Respond
  <2>2. Tail(server[c]) \in Seq(Hosts) /\ Head(server[c]) \in Hosts
    BY <1>t, <2>1
  <2>3. <<c, r.chunks, r.host, Head(server[c])>>
          \in Connections \X (0..MaxRequests) \X AnyHost \X AnyHost
    BY <1>g, <2>2 DEF Locals, AnyHost
  <2>4. collects' \in SUBSET (Connections \X (0..MaxRequests) \X AnyHost \X AnyHost)
    <3>1. collects' = collects \/ collects' = collects \cup {<<c, r.chunks, r.host, Head(server[c])>>}
      BY <1>4 DEF Respond
    <3> QED BY <1>t, <2>3, <3>1
  <2>5. UNCHANGED <<loggers, deniedLog>>
    BY <1>4 DEF Respond
  <2> QED BY <1>t, <2>1, <2>2, <2>4, <2>5
<1>5. CASE Refuse(c)
  <2>1. <<c, r.chunks, r.host, r.host>>
          \in Connections \X (0..MaxRequests) \X AnyHost \X AnyHost
    BY <1>g DEF Locals
  <2>2. collects' \in SUBSET (Connections \X (0..MaxRequests) \X AnyHost \X AnyHost)
    <3>1. collects' = collects \/ collects' = collects \cup {<<c, r.chunks, r.host, r.host>>}
      BY <1>5 DEF Refuse
    <3> QED BY <1>t, <2>1, <3>1
  <2>3. loggers' \in SUBSET Attempts /\ UNCHANGED <<server, deniedLog>>
    BY <1>5, <1>t DEF Refuse, Attempts
  <2> QED BY <1>t, <2>2, <2>3
<1> QED BY <1>1, <1>2, <1>3, <1>4, <1>5
        DEF Run, Check, Close, NothingArrives, ReadFails, ChunkArrives, Connect,
            GetAction, HasStats, CheckLimits, EnterList, MatchDeniedUrls, GetCategory,
            GetTariff, DoNotForward, ReceiveNothing, Local, Leaks

-----------------------------------------------------------------------------
(* The composition *)

\* The types, and what they rest on.
ProxyInv ==
  /\ scenario \in Scenarios
  /\ AccessTypeOK
  /\ CatTypeOK
  /\ HostKnown
  /\ ConInv
  /\ allowed \in [Connections -> BOOLEAN]

\* The start.
LEMMA ProxyInitInv == Init => ProxyInv /\ CatInit
<1> SUFFICES ASSUME Init PROVE ProxyInv
  BY DEF Init
<1>1. AccessTypeOK
  <2> USE AccessAssumption DEF Init, AccessInit, Ips, Refreshers
  <2>1. i \in [Refreshers -> Ips] /\ wLock = "free" /\ mixed \in BOOLEAN
    <3>1. i = [r \in Refreshers |-> 1] /\ wLock = "free" /\ mixed = FALSE
      BY Zenon
    <3>2. 1 \in 1..Sessions
      OBVIOUS
    <3> QED BY <3>1, <3>2
  <2>2. MaxFlushes \in Nat /\ flushes = MaxFlushes
    OBVIOUS
  <2>3. old \in [Refreshers -> SUBSET Nat]
    <3>1. {} \in SUBSET Nat /\ old = [r \in Refreshers |-> {}]
      OBVIOUS
    <3> QED BY <3>1, Zenon
  <2>4. refresher \in [Refreshers -> RefreshPoints] /\ {actions, made} \subseteq Nat
    BY DEF RefreshPoints
  <2>5. actionsOfIps \in [Ips -> Nat] /\ deniedUrls \subseteq Nat \X Ips
    OBVIOUS
  <2>6. statsOfIps \in [Ips -> {"none", "null", "ok", "exceeded"}]
    OBVIOUS
  <2> QED BY <2>1, <2>4, <2>5, <2>6, <2>2, <2>3 DEF AccessTypeOK
<1>2. CatTypeOK /\ HostKnown
  BY CatInitInv DEF Init, CatInv
<1>3. \A c \in Connections : Good(con[c]) /\ server[c] = <<>>
  BY Bounds DEF Init, ConInit, Good, Locals, Counted, Texts, Before, ConPoints, AnyHost
<1>4. ConTypeOK
  <2>1. con \in [Connections -> Locals]
    BY <1>3 DEF Init, ConInit, Good
  <2>2. server \in [Connections -> Seq(Hosts)]
    BY DEF Init, ConInit
  <2> QED BY <2>1, <2>2 DEF Init, ConInit, ConTypeOK
<1>5. ConInv
  BY <1>3, <1>4 DEF ConInv
<1> QED BY <1>1, <1>2, <1>5 DEF Init, ProxyInv

\* The types of the tables of the Collector.
LEMMA AccessTypeStep ==
  ASSUME AccessTypeOK, \/ AccessStep
                       \/ \E ip \in Ips : Collect(ip)
                       \/ UNCHANGED accessVars
  PROVE  AccessTypeOK'
<1> USE AccessAssumption
    DEF AccessTypeOK, Ips, Refreshers, RefreshPoints, LoopPoints
<1>l. ASSUME NEW r \in Refreshers PROVE Lists(r) \subseteq Nat
  BY <1>l DEF Lists, Found
<1>o. ASSUME NEW r \in Refreshers, ReplacesList(r) \/ Arrives(r)
      PROVE  old' \in [Refreshers -> SUBSET Nat]
  <2>1. CASE Arrives(r)
    BY <2>1 DEF Arrives
  <2>2. CASE ReplacesList(r)
    <3>1. \A q \in Refreshers : old[q] \cup {actions} \in SUBSET Nat
      OBVIOUS
    <3> QED BY <2>2, <3>1 DEF ReplacesList
  <2> QED BY <1>o, <2>1, <2>2
<1>t. ASSUME NEW r \in Refreshers, Throws(r) PROVE AccessTypeOK'
  BY <1>t, <1>o DEF Throws, Release, tableVars
<1>1. ASSUME NEW r \in Refreshers, CreateObjects(r) PROVE AccessTypeOK'
  <2>1. mixed' \in BOOLEAN
    <3>1. CASE wLock = r
      BY <1>1, <3>1, Zenon DEF CreateObjects, Prerunning
    <3>2. CASE wLock # r
      BY <1>1, <3>2 DEF CreateObjects
    <3> QED BY <3>1, <3>2
  <2>2. EmptyTables /\ refresher' = [refresher EXCEPT ![r] = "select"]
        /\ UNCHANGED <<i, wLock, flushes>>
    BY <1>1 DEF CreateObjects
  <2>3. old' \in [Refreshers -> SUBSET Nat]
    BY <1>1, <1>o DEF CreateObjects
  <2> QED BY <2>1, <2>2, <2>3 DEF EmptyTables
<1>2. ASSUME NEW r \in Refreshers, SelectSessions(r) PROVE AccessTypeOK'
  <2>1. CASE ~Throws(r)
    <3>1. /\ actions' \in Nat /\ made' \in Nat /\ ReplacesList(r)
          /\ (Goto(r, "stats") /\ UNCHANGED i) \/ Returns(r)
          /\ UNCHANGED <<actionsOfIps, statsOfIps, deniedUrls>>
      BY <1>2, <2>1 DEF SelectSessions
    <3>2. /\ refresher' \in [Refreshers -> RefreshPoints] /\ i' \in [Refreshers -> Ips]
          /\ wLock' \in Refreshers \cup {"free"} /\ UNCHANGED <<flushes, mixed>>
      BY <3>1 DEF Goto, Returns, Release
    <3> QED BY <3>1, <3>2, <1>o
  <2> QED BY <1>2, <2>1, <1>t
<1>3. ASSUME NEW r \in Refreshers, PutStats(r) PROVE AccessTypeOK'
  <2>1. CASE Returns(r) /\ Arrives(r) /\ UNCHANGED tableVars
    BY <2>1, <1>o DEF Returns, Release, tableVars
  <2>2. CASE ~(Returns(r) /\ Arrives(r) /\ UNCHANGED tableVars) /\ ~Throws(r)
    <3>1. statsOfIps' \in [Ips -> {"none", "null", "ok", "exceeded"}]
      BY <1>3, <2>2 DEF PutStats
    <3> QED BY <1>3, <1>o, <2>2, <3>1 DEF PutStats, Goto
  <2> QED BY <2>1, <2>2, <1>t
<1>4. ASSUME NEW r \in Refreshers, PutAction(r) PROVE AccessTypeOK'
  <2>1. CASE ~Throws(r)
    <3>1. actionsOfIps' \in [Ips -> Nat]
      BY <1>4, <1>l, <2>1 DEF PutAction
    <3> QED BY <1>4, <1>o, <2>1, <3>1 DEF PutAction, Goto
  <2> QED BY <2>1, <1>t
<1>5. ASSUME NEW r \in Refreshers, ClearDeniedUrls(r) PROVE AccessTypeOK'
  <2>1. CASE ~Throws(r)
    BY <1>5, <1>o, <2>1 DEF ClearDeniedUrls, Goto
  <2> QED BY <2>1, <1>t
<1>6. ASSUME NEW r \in Refreshers, FillDeniedUrls(r) PROVE AccessTypeOK'
  <2>1. CASE ~Throws(r)
    <3>1. /\ \/ \E a \in Lists(r) : deniedUrls' = deniedUrls \cup {<<a, i[r]>>}
             \/ UNCHANGED deniedUrls
          /\ NextSession(r)
          /\ UNCHANGED <<actionsOfIps, statsOfIps, actions, made>>
      BY <1>6, <2>1 DEF FillDeniedUrls
    <3>2. deniedUrls' \subseteq Nat \X (1..Sessions)
      <4>1. \A a \in Lists(r) : <<a, i[r]>> \in Nat \X (1..Sessions)
        BY <1>l
      <4> QED BY <3>1, <4>1
    <3>3. i' \in [{"daemon", "collect"} -> 1..Sessions]
      <4>1. CASE i[r] = Sessions
        BY <3>1, <4>1 DEF NextSession, Returns
      <4>2. CASE i[r] # Sessions
        BY <3>1, <4>2 DEF NextSession, Goto
      <4> QED BY <4>1, <4>2
    <3>4. /\ refresher' \in [Refreshers -> RefreshPoints]
          /\ wLock' \in Refreshers \cup {"free"}
          /\ UNCHANGED <<flushes, mixed>>
      BY <3>1 DEF NextSession, Goto, Returns, Release
    <3>5. old' \in [Refreshers -> SUBSET Nat]
      BY <3>1, <1>o DEF NextSession
    <3> QED BY <3>1, <3>2, <3>3, <3>4, <3>5
  <2> QED BY <2>1, <1>t
<1>7. CASE FlushCollected \/ RefreshInfo
  <2>1. CASE FlushCollected
    <3>1. /\ actionsOfIps' = [ip \in Ips |-> 0] /\ statsOfIps' = [ip \in Ips |-> "none"]
          /\ actions' = 0 /\ mixed' = FALSE
          /\ refresher' = [refresher EXCEPT !["daemon"] = "wait"]
          /\ flushes > 0 /\ flushes' = flushes - 1
          /\ UNCHANGED <<made, deniedUrls, i, old, wLock>>
      BY <2>1 DEF FlushCollected, EmptyTables
    <3>2. flushes' \in 0..MaxFlushes
      BY <3>1
    <3>3. refresher' \in [Refreshers -> RefreshPoints]
      BY <3>1
    <3>4. /\ actionsOfIps' \in [Ips -> Nat] /\ {actions', made'} \subseteq Nat
          /\ statsOfIps' \in [Ips -> {"none", "null", "ok", "exceeded"}]
      BY <3>1
    <3> QED BY <3>1, <3>2, <3>3, <3>4
  <2>2. CASE RefreshInfo
    BY <2>2 DEF RefreshInfo, tableVars
  <2> QED BY <1>7, <2>1, <2>2
<1>8. ASSUME NEW ip \in Ips, Collect(ip) PROVE AccessTypeOK'
  BY <1>8 DEF Collect, tableVars
<1>9. CASE UNCHANGED accessVars
  BY <1>9 DEF accessVars, tableVars, refreshVars
<1> QED BY <1>1, <1>2, <1>3, <1>4, <1>5, <1>6, <1>7, <1>8, <1>9
        DEF AccessStep, RefreshSessions

\* A step of the composition is one of the Categorizer, or none.
LEMMA StepMaps ==
  ASSUME ProxyInv, [Next]_vars
  PROVE  [CatStep]_catSpecVars
<1> USE DEF CatStep, catSpecVars
<1>1. ASSUME NEW c \in Connections, Connection(c), UNCHANGED scenario
      PROVE  [CatStep]_catSpecVars
  <2>1. StartsRecognizer
    BY <1>1, RunImproves DEF Connection, ProxyInv
  <2> QED BY <1>1, <2>1 DEF StartsRecognizer, CatNext
<1>2. ASSUME NEW t \in Recognizers, Recognition(t), UNCHANGED scenario
      PROVE  [CatStep]_catSpecVars
  <2>1. PICK c \in Connections : t[1] = c
    BY ConnectionAssumption
  <2>2. con[t[1]].content \in SUBSET Hosts
    BY <2>1 DEF ProxyInv, ConInv, Good, Locals
  <2> QED BY <1>2, <2>2 DEF Recognition, ReadContent, CatNext
<1>3. CASE UNCHANGED <<catVars, scenario>>
  BY <1>3
<1>4. CASE (CategorizerWakes \/ Reload \/ Edit) /\ UNCHANGED scenario
  BY <1>4 DEF CategorizerWakes, Reload, Edit, CatNext
<1> QED BY <1>1, <1>2, <1>3, <1>4
        DEF Next, Step, Tables, PreCollector, PreCollect, Logger, LogAttempt, vars

\* A turn of a thread keeps the types of all threads.
LEMMA ConInvRun ==
  ASSUME ConInv, AccessTypeOK, CatTypeOK, NEW c \in Connections, Run(c)
  PROVE  ConInv'
<1>1. PICK k : Improves(c, k)
  BY RunImproves
<1>2. con \in [Connections -> Locals] /\ con' = [con EXCEPT ![c] = k] /\ k \in Locals
  BY <1>1 DEF ConInv, ConTypeOK, Improves, Becomes, Good
<1>3. con' \in [Connections -> Locals]
  BY <1>2
<1>4. ConTypeOK'
  BY <1>3, RunOutside DEF ConTypeOK, ConInv
<1>5. ASSUME NEW d \in Connections
      PROVE  Good(con[d])' /\ (server'[d] # <<>> => con'[d].chunks > 0)
  <2>1. Good(con[d]) /\ (server[d] # <<>> => con[d].chunks > 0)
    BY DEF ConInv
  <2>2. con'[d] = IF d = c THEN k ELSE con[d]
    BY <1>2
  <2>3. Good(con'[d])
    BY <1>1, <2>1, <2>2 DEF Improves
  <2>4. con'[d].chunks >= con[d].chunks /\ con[d].chunks \in Nat /\ con'[d].chunks \in Nat
    BY <1>1, <1>2, <2>1, <2>2, <2>3 DEF Improves, Good, Locals
  <2>5. server'[d] # <<>> => con[d].chunks > 0
    BY <2>1, RunOutside
  <2>6. Good(con[d])'
    BY <2>3, Zenon DEF Good, Counted, Texts, Locals, Before, ConPoints, AnyHost
  <2> QED BY <2>4, <2>5, <2>6
<1> QED BY <1>4, <1>5 DEF ConInv

\* Every step keeps the types.
LEMMA ProxyInvStep ==
  ASSUME ProxyInv, [Next]_vars
  PROVE  ProxyInv'
<1>1. CatTypeOK' /\ HostKnown'
  <2>1. [CatStep]_catSpecVars
    BY StepMaps
  <2>2. CatTypeOK'
    BY <2>1, CatTypeStep DEF ProxyInv
  <2>3. HostKnown'
    BY <2>1, HostStep DEF ProxyInv
  <2> QED BY <2>2, <2>3
<1>2. AccessTypeOK'
  <2>1. ASSUME NEW x \in collects, PreCollect(x)
        PROVE  AccessTypeOK'
    <3>1. IpOf[x[1]] \in Ips
      BY ConnectionAssumption DEF ProxyInv, ConInv, ConTypeOK
    <3> QED BY <2>1, <3>1, AccessTypeStep DEF PreCollect, ProxyInv
  <2>2. CASE AccessStep \/ UNCHANGED accessVars
    BY <2>2, AccessTypeStep DEF ProxyInv
  <2> QED BY <2>1, <2>2 DEF Next, Step, Connection, Tables, PreCollector, Recognition,
            Logger, CategorizerWakes, Reload, Edit, vars
<1>3. ConInv'
  <2>1. ASSUME NEW c \in Connections, Run(c) PROVE ConInv'
    BY <2>1, ConInvRun DEF ProxyInv
  <2>2. ASSUME UNCHANGED <<con, server>>,
               collects' \subseteq collects, loggers' \subseteq loggers,
               deniedLog' \subseteq deniedLog \cup loggers
        PROVE  ConInv'
    <3>1. ConTypeOK'
      BY <2>2 DEF ProxyInv, ConInv, ConTypeOK
    <3>2. \A c \in Connections :
            Good(con[c])' /\ (server'[c] # <<>> => con'[c].chunks > 0)
      BY <2>2 DEF ProxyInv, ConInv, Good, Counted, Texts
    <3> QED BY <3>1, <3>2 DEF ConInv
  <2>3. ASSUME NEW x \in collects, PreCollect(x) PROVE ConInv'
    BY <2>2, <2>3 DEF PreCollect
  <2>4. ASSUME NEW x \in loggers, LogAttempt(x) PROVE ConInv'
    BY <2>2, <2>4 DEF LogAttempt
  <2>5. CASE UNCHANGED conVars
    BY <2>2, <2>5 DEF conVars
  <2> QED BY <2>1, <2>3, <2>4, <2>5 DEF Next, Step, Connection, Tables, PreCollector,
            Recognition, ReadContent, Logger, CategorizerWakes, Reload, Edit, vars
<1>4. allowed' \in [Connections -> BOOLEAN]
  <2>1. CASE Observe
    BY <2>1, Zenon DEF Observe
  <2>2. CASE UNCHANGED allowed
    BY <2>2 DEF ProxyInv
  <2> QED BY <2>1, <2>2 DEF Next, vars
<1>5. scenario' \in Scenarios
  BY DEF ProxyInv, Next, vars
<1> QED BY <1>1, <1>2, <1>3, <1>4, <1>5 DEF ProxyInv

\* The composition keeps its types: threads count their errors, their idle time
\* and their chunks within bounds, no thread starts a recogniser that does not
\* exist, and what a recogniser reads comes from hosts.
THEOREM ProxyTypes == Spec => []TypeOK
<1>1. ProxyInv => TypeOK
  BY DEF ProxyInv, TypeOK, ConInv
<1> QED BY <1>1, ProxyInitInv, ProxyInvStep, PTL DEF Spec

\* Seen from its own variables, the Categorizer of the composition behaves as
\* the Categorizer by itself: connections only start its threads, and a thread
\* gets a text of hosts.
THEOREM ProxyCategorizes == Spec => CatSpec
<1>1. Init => scenario \in Scenarios /\ CatInit
  BY DEF Init
<1> QED BY <1>1, ProxyInitInv, ProxyInvStep, StepMaps, PTL
        DEF Spec, CatSpec, CatStep, catSpecVars

\* With connections and all their interleavings, a category in memory is that
\* of the row of its host, or is being written, unless a reload has emptied the
\* map meanwhile or the administration has edited the row since the last one.
THEOREM ProxyMemoryBacked == Spec => []MemoryBacked
BY ProxyCategorizes, CatMemoryBacked, PTL

\* With connections and all their interleavings, and without reloads, no insert
\* meets a row of its host, but where the administration has written one.
THEOREM ProxyInsertsSucceed == Spec => []InsertsSucceed
BY ProxyCategorizes, CatInsertsSucceed, PTL

-----------------------------------------------------------------------------
(* The tables, once they are filled *)

Working == {"select"} \cup LoopPoints

\* The PreCollector that refreshes is in the monitor; a loop begins at 1, with
\* the fields as they are.
LoopInv ==
  /\ refresher["collect"] # "idle" => wLock = "collect"
  /\ \A r \in Refreshers :
       refresher[r] \notin LoopPoints => i[r] = 1 /\ old[r] = {}

\* Where no refresh has met that of prerun(), a refresh is alone, and its list
\* stays in place.
AloneInv ==
  ~mixed =>
    /\ \A r \in Refreshers :
         refresher[r] \in LoopPoints => old[r] = {} /\ actions # 0
    /\ refresher["collect"] \in Working => refresher["daemon"] \notin {"create"} \cup Working

\* A thread has emptied the tables, or is about to, and goes on to fill them.
Filling == \E r \in Refreshers : refresher[r] \in {"wait", "create", "select"}

\* The session of an address is in the list of now, with its limits,
HasLimits(ip) == statsOfIps[ip] \in {"ok", "exceeded"}
IsPut(ip) == HasLimits(ip) /\ actionsOfIps[ip] = actions

\* and with its denied urls.
IsFilled(ip) == IsPut(ip) /\ <<actions, ip>> \in deniedUrls

\* A thread still comes to the address, or is at it.
WillFill(r, ip) ==
  \/ refresher[r] \in LoopPoints /\ i[r] < ip
  \/ /\ i[r] = ip
     /\ \/ refresher[r] = "stats"
        \/ refresher[r] = "put" /\ HasLimits(ip)
        \/ refresher[r] \in {"clear", "denied"} /\ IsPut(ip)

\* What a thread has not filled, it still comes to.
FillInv ==
  ~Has("failures") /\ ~mixed /\ ~Filling =>
    /\ actions # 0
    /\ \A ip \in Ips : IsFilled(ip) \/ \E r \in Refreshers : WillFill(r, ip)

\* The PreCollectors and the daemon, as far as the tables go.
TablesStep ==
  \/ AccessStep
  \/ \E ip \in Ips : Collect(ip)
  \/ UNCHANGED accessVars

\* A step keeps the monitor and the start of the loops.
LEMMA LoopStep ==
  ASSUME AccessTypeOK, LoopInv, TablesStep
  PROVE  LoopInv'
<1> USE AccessAssumption
    DEF AccessTypeOK, LoopInv, Ips, Refreshers, RefreshPoints, LoopPoints
<1>1. ASSUME NEW r \in Refreshers, CreateObjects(r) PROVE LoopInv'
  BY <1>1 DEF CreateObjects, ReplacesList
<1>2. ASSUME NEW r \in Refreshers, SelectSessions(r) PROVE LoopInv'
  BY <1>2 DEF SelectSessions, Goto, Returns, Throws, Release, ReplacesList, Arrives
<1>3. ASSUME NEW r \in Refreshers,
             PutStats(r) \/ PutAction(r) \/ ClearDeniedUrls(r) \/ FillDeniedUrls(r)
      PROVE  LoopInv'
  <2>1. refresher[r] \in LoopPoints /\ old' = [old EXCEPT ![r] = {}]
    BY <1>3 DEF PutStats, PutAction, ClearDeniedUrls, FillDeniedUrls, Throws, Arrives,
                NextSession
  <2>2. \/ Returns(r)
        \/ Throws(r)
        \/ \E p \in LoopPoints : Goto(r, p) /\ \A q \in Refreshers \ {r} : i'[q] = i[q]
    BY <1>3 DEF PutStats, PutAction, ClearDeniedUrls, FillDeniedUrls, NextSession
  <2>3. CASE Returns(r) \/ Throws(r)
    BY <2>1, <2>3 DEF Returns, Throws, Release
  <2>4. CASE \E p \in LoopPoints : Goto(r, p) /\ \A q \in Refreshers \ {r} : i'[q] = i[q]
    BY <2>1, <2>4 DEF Goto
  <2> QED BY <2>2, <2>3, <2>4
<1>4. CASE FlushCollected \/ RefreshInfo
  BY <1>4 DEF FlushCollected, RefreshInfo
<1>5. ASSUME NEW ip \in Ips, Collect(ip) PROVE LoopInv'
  BY <1>5 DEF Collect
<1>6. CASE UNCHANGED accessVars
  BY <1>6 DEF accessVars, refreshVars
<1> QED BY <1>1, <1>2, <1>3, <1>4, <1>5, <1>6 DEF TablesStep, AccessStep, RefreshSessions

\* A refresh that is alone finds its own list, and loses nothing.
LEMMA Undisturbed ==
  ASSUME AccessTypeOK, AloneInv, ~mixed, NEW r \in Refreshers,
         refresher[r] \in LoopPoints
  PROVE  /\ actions # 0
         /\ Lists(r) = {actions}
         /\ ~PutLost(r) /\ ~FillLost(r)
         /\ \A q \in Refreshers \ {r} : refresher[q] \notin Working
<1>1. actions # 0 /\ old[r] = {}
  BY DEF AloneInv
<1>2. \A q \in Refreshers \ {r} : refresher[q] \notin Working
  BY DEF AloneInv, Refreshers, Working
<1>3. Found(r) = {actions} /\ Lists(r) = {actions}
  BY <1>1 DEF Found, Lists
<1> QED BY <1>1, <1>2, <1>3 DEF PutLost, FillLost, Working, LoopPoints

\* A step keeps refreshes alone, or counts as one that meets another.
LEMMA AloneStep ==
  ASSUME AccessTypeOK, LoopInv, AloneInv, TablesStep
  PROVE  AloneInv'
<1> USE AccessAssumption
    DEF AccessTypeOK, Ips, Refreshers, RefreshPoints, LoopPoints, Working
<1> SUFFICES ASSUME ~mixed' PROVE AloneInv'
  BY DEF AloneInv
<1>1. ASSUME NEW r \in Refreshers, CreateObjects(r) PROVE AloneInv'
  <2>1. /\ refresher[r] = "create" /\ refresher' = [refresher EXCEPT ![r] = "select"]
        /\ wLock' = wLock
        /\ mixed' = IF wLock = r THEN Prerunning ELSE mixed
        /\ ReplacesList(r)
    BY <1>1 DEF CreateObjects
  <2>2. CASE r = "collect"
    <3>1. wLock = "collect" /\ ~Prerunning
      BY <2>1, <2>2 DEF LoopInv
    <3>2. refresher["daemon"] \notin {"create"} \cup Working
      BY <3>1 DEF Prerunning
    <3> QED BY <2>1, <2>2, <3>2 DEF AloneInv
  <2>3. CASE r = "daemon"
    <3>1. refresher["collect"] \notin Working
      <4>1. CASE wLock = "daemon"
        BY <4>1 DEF LoopInv
      <4>2. CASE wLock # "daemon"
        BY <2>1, <2>3, <4>2 DEF AloneInv
      <4> QED BY <4>1, <4>2
    <3> QED BY <2>1, <2>3, <3>1 DEF AloneInv
  <2> QED BY <2>2, <2>3
<1>2. ASSUME NEW r \in Refreshers, SelectSessions(r) PROVE AloneInv'
  <2>1. ~mixed /\ refresher[r] = "select"
    BY <1>2 DEF SelectSessions, Goto, Returns, Throws
  <2>2. \A q \in Refreshers \ {r} : refresher[q] \notin Working
    BY <2>1 DEF AloneInv
  <2>3. \A q \in Refreshers \ {r} : refresher'[q] = refresher[q]
    BY <1>2 DEF SelectSessions, Goto, Returns, Throws
  <2>4. \/ refresher'[r] = "stats" /\ actions' # 0 /\ old'[r] = {}
        \/ refresher'[r] \in {"idle", "dead"}
    BY <1>2 DEF SelectSessions, Goto, Returns, Throws, LoopInv, ReplacesList
  <2>5. refresher["collect"] \in Working => refresher["daemon"] \notin {"create"} \cup Working
    BY <2>1 DEF AloneInv
  <2> QED BY <2>1, <2>2, <2>3, <2>4, <2>5 DEF AloneInv
<1>3. ASSUME NEW r \in Refreshers,
             PutStats(r) \/ PutAction(r) \/ ClearDeniedUrls(r) \/ FillDeniedUrls(r)
      PROVE  AloneInv'
  <2>1. /\ ~mixed /\ refresher[r] \in LoopPoints /\ old' = [old EXCEPT ![r] = {}]
        /\ UNCHANGED actions
        /\ \A q \in Refreshers \ {r} : refresher'[q] = refresher[q]
        /\ refresher'[r] \in LoopPoints \cup {"idle", "dead"}
    BY <1>3 DEF PutStats, PutAction, ClearDeniedUrls, FillDeniedUrls, Throws, Arrives,
                NextSession, Goto, Returns, tableVars
  <2> QED BY <2>1 DEF AloneInv
<1>4. CASE FlushCollected \/ RefreshInfo
  BY <1>4 DEF FlushCollected, RefreshInfo, LoopInv, AloneInv, tableVars
<1>5. ASSUME NEW ip \in Ips, Collect(ip) PROVE AloneInv'
  BY <1>5 DEF Collect, AloneInv, tableVars
<1>6. CASE UNCHANGED accessVars
  BY <1>6 DEF accessVars, tableVars, refreshVars, AloneInv
<1> QED BY <1>1, <1>2, <1>3, <1>4, <1>5, <1>6 DEF TablesStep, AccessStep, RefreshSessions

\* A point of the loop leaves the other addresses as they are, and its own
\* further on.
LEMMA FillPoint ==
  ASSUME AccessTypeOK, AloneInv, FillInv, ~Has("failures"), ~mixed, ~Filling',
         NEW r \in Refreshers, refresher[r] \in LoopPoints, NEW j \in Ips, j = i[r],
         UNCHANGED actions,
         \A q \in Refreshers \ {r} : refresher'[q] = refresher[q],
         \A ip \in Ips \ {j} : IsFilled(ip) => IsFilled(ip)',
         \A ip \in Ips : j < ip => WillFill(r, ip)',
         IsFilled(j)' \/ WillFill(r, j)'
  PROVE  FillInv'
<1>1. ~Filling
  <2>1. \A q \in Refreshers \ {r} : refresher[q] \notin {"wait", "create", "select"}
    BY DEF Filling
  <2> QED BY <2>1 DEF Filling, LoopPoints
<1>2. actions # 0 /\ \A q \in Refreshers \ {r} : refresher[q] \notin LoopPoints
  BY Undisturbed DEF Working
<1>3. ASSUME NEW ip \in Ips PROVE IsFilled(ip)' \/ WillFill(r, ip)'
  <2>1. CASE ip = j
    BY <2>1 DEF IsFilled, IsPut, HasLimits, WillFill
  <2>2. CASE ip # j /\ IsFilled(ip)
    BY <2>2
  <2>3. CASE ip # j /\ ~IsFilled(ip)
    <3>1. PICK q \in Refreshers : WillFill(q, ip)
      BY <1>1, <2>3 DEF FillInv
    <3>2. q = r
      BY <1>2, <3>1 DEF WillFill, LoopPoints
    <3>3. j < ip
      BY <2>3, <3>1, <3>2 DEF WillFill
    <3> QED BY <3>3
  <2> QED BY <2>1, <2>2, <2>3
<1> QED BY <1>2, <1>3 DEF FillInv

\* Every step keeps that what is not filled will be.
LEMMA FillStep ==
  ASSUME AccessTypeOK, LoopInv, AloneInv, FillInv, TablesStep, UNCHANGED scenario
  PROVE  FillInv'
<1> SUFFICES ASSUME ~Has("failures"), ~mixed', ~Filling' PROVE FillInv'
  BY DEF FillInv, Has
<1>1. ASSUME NEW r \in Refreshers, CreateObjects(r) PROVE FALSE
  BY <1>1 DEF CreateObjects, Filling, AccessTypeOK
<1>2. ASSUME NEW r \in Refreshers, SelectSessions(r) PROVE FillInv'
  <2>1. /\ refresher[r] = "select" /\ actions' = made + 1
        /\ refresher' = [refresher EXCEPT ![r] = "stats"] /\ i' = i
    BY <1>2 DEF SelectSessions, Goto
  <2>2. actions' # 0 /\ refresher'[r] = "stats" /\ i'[r] = 1
    BY <2>1 DEF AccessTypeOK, LoopInv, LoopPoints
  <2>3. \A ip \in Ips : WillFill(r, ip)'
    BY <2>2, AccessAssumption DEF WillFill, Ips, LoopPoints
  <2> QED BY <2>2, <2>3 DEF FillInv
<1>3. ASSUME NEW r \in Refreshers,
             PutStats(r) \/ PutAction(r) \/ ClearDeniedUrls(r) \/ FillDeniedUrls(r)
      PROVE  FillInv'
  <2>1. refresher[r] \in LoopPoints /\ ~mixed /\ i[r] \in Ips
    BY <1>3 DEF PutStats, PutAction, ClearDeniedUrls, FillDeniedUrls, NextSession,
                Goto, Returns, Throws, LoopPoints, AccessTypeOK
  <2>j. PICK j \in Ips : j = i[r]
    BY <2>1
  <2>2. actions # 0 /\ Lists(r) = {actions} /\ ~PutLost(r) /\ ~FillLost(r)
    BY <2>j, <2>1, Undisturbed
  <2>3. CASE PutStats(r)
    <3>1. PICK s \in {"ok", "exceeded"} :
            /\ statsOfIps' = [statsOfIps EXCEPT ![i[r]] = s]
            /\ refresher' = [refresher EXCEPT ![r] = "put"]
            /\ UNCHANGED <<actionsOfIps, actions, deniedUrls, i>>
      BY <2>2, <2>3 DEF PutStats, Goto
    <3>2. refresher'[r] = "put" /\ \A q \in Refreshers \ {r} : refresher'[q] = refresher[q]
      BY <2>j, <3>1 DEF AccessTypeOK
    <3>3. \A ip \in Ips \ {j} : IsFilled(ip) => IsFilled(ip)'
      BY <2>j, <3>1 DEF IsFilled, IsPut, HasLimits, AccessTypeOK
    <3>4. HasLimits(j)'
      BY <2>j, <2>1, <3>1 DEF HasLimits, AccessTypeOK
    <3> QED BY <2>j, <2>1, <3>1, <3>2, <3>3, <3>4, FillPoint DEF WillFill, LoopPoints
  <2>4. CASE PutAction(r)
    <3>1. /\ actionsOfIps' = [actionsOfIps EXCEPT ![i[r]] = actions]
          /\ refresher' = [refresher EXCEPT ![r] = "clear"]
          /\ UNCHANGED <<statsOfIps, actions, deniedUrls, i>>
      BY <2>2, <2>4 DEF PutAction, Goto
    <3>2. refresher'[r] = "clear" /\ \A q \in Refreshers \ {r} : refresher'[q] = refresher[q]
      BY <2>j, <3>1 DEF AccessTypeOK
    <3>3. \A ip \in Ips \ {j} : IsFilled(ip) => IsFilled(ip)'
      BY <2>j, <3>1 DEF IsFilled, IsPut, HasLimits, AccessTypeOK
    <3>4. actionsOfIps'[j] = actions
      BY <2>j, <2>1, <3>1 DEF AccessTypeOK
    <3>5. IsFilled(j)' \/ WillFill(r, j)'
      <4>1. PICK q \in Refreshers : IsFilled(j) \/ WillFill(q, j)
        <5>1. ~Filling
          BY <2>j, <2>1, <3>2 DEF Filling, LoopPoints
        <5> QED BY <2>j, <2>1, <5>1 DEF FillInv
      <4>2. HasLimits(j)
        <5>1. ASSUME NEW p \in Refreshers, WillFill(p, j) PROVE p = r
          BY <2>j, <2>1, <5>1, Undisturbed DEF WillFill, Working, LoopPoints
        <5>2. WillFill(r, j) => HasLimits(j)
          <6>1. refresher[r] = "put" /\ ~(i[r] < j)
            BY <2>j, <2>1, <2>4, AccessAssumption DEF PutAction, Ips
          <6> QED BY <6>1 DEF WillFill
        <5> QED BY <4>1, <5>1, <5>2 DEF IsFilled, IsPut
      <4> QED BY <2>j, <3>1, <3>2, <3>4, <4>2 DEF WillFill, IsPut, HasLimits
    <3> QED BY <2>j, <2>1, <3>1, <3>2, <3>3, <3>5, FillPoint DEF WillFill, LoopPoints
  <2>5. CASE ClearDeniedUrls(r)
    <3>1. /\ deniedUrls' = deniedUrls \ {<<actions, i[r]>>}
          /\ refresher' = [refresher EXCEPT ![r] = "denied"]
          /\ UNCHANGED <<statsOfIps, actions, actionsOfIps, i>>
      BY <2>2, <2>5 DEF ClearDeniedUrls, Goto
    <3>2. refresher'[r] = "denied" /\ \A q \in Refreshers \ {r} : refresher'[q] = refresher[q]
      BY <2>j, <3>1 DEF AccessTypeOK
    <3>3. \A ip \in Ips \ {j} : IsFilled(ip) => IsFilled(ip)'
      BY <2>j, <3>1 DEF IsFilled, IsPut, HasLimits
    <3>5. WillFill(r, j)'
      <4>1. PICK q \in Refreshers : IsFilled(j) \/ WillFill(q, j)
        <5>1. ~Filling
          BY <2>j, <2>1, <3>2 DEF Filling, LoopPoints
        <5> QED BY <2>j, <2>1, <5>1 DEF FillInv
      <4>2. IsPut(j)
        <5>1. ASSUME NEW p \in Refreshers, WillFill(p, j) PROVE p = r
          BY <2>j, <2>1, <5>1, Undisturbed DEF WillFill, Working, LoopPoints
        <5>2. WillFill(r, j) => IsPut(j)
          <6>1. refresher[r] = "clear" /\ ~(i[r] < j)
            BY <2>j, <2>1, <2>5, AccessAssumption DEF ClearDeniedUrls, Ips
          <6> QED BY <6>1 DEF WillFill
        <5> QED BY <4>1, <5>1, <5>2 DEF IsFilled
      <4> QED BY <2>j, <3>1, <3>2, <4>2 DEF WillFill, IsPut, HasLimits
    <3> QED BY <2>j, <2>1, <3>1, <3>2, <3>3, <3>5, FillPoint DEF WillFill, LoopPoints
  <2>6. CASE FillDeniedUrls(r)
    <3>1. /\ deniedUrls' = deniedUrls \cup {<<actions, i[r]>>}
          /\ UNCHANGED <<statsOfIps, actions, actionsOfIps>>
          /\ NextSession(r)
      BY <2>2, <2>6 DEF FillDeniedUrls
    <3>2. \A q \in Refreshers \ {r} : refresher'[q] = refresher[q]
      BY <2>j, <3>1 DEF AccessTypeOK, NextSession, Goto, Returns
    <3>3. \A ip \in Ips \ {j} : IsFilled(ip) => IsFilled(ip)'
      BY <2>j, <3>1 DEF IsFilled, IsPut, HasLimits
    <3>4. ASSUME NEW ip \in Ips, j < ip PROVE WillFill(r, ip)'
      <4>1. i[r] # Sessions
        BY <2>j, <2>1, <3>4, AccessAssumption DEF Ips
      <4>2. refresher'[r] = "stats" /\ i'[r] = i[r] + 1
        BY <2>j, <3>1, <4>1 DEF NextSession, Goto, AccessTypeOK
      <4> QED BY <2>j, <2>1, <3>4, <4>2, AccessAssumption DEF WillFill, LoopPoints, Ips
    <3>5. IsFilled(j)'
      <4>1. PICK q \in Refreshers : IsFilled(j) \/ WillFill(q, j)
        <5>1. ~Filling
          BY <2>j, <2>1, <3>2 DEF Filling, LoopPoints
        <5> QED BY <2>j, <2>1, <5>1 DEF FillInv
      <4>2. IsPut(j)
        <5>1. ASSUME NEW p \in Refreshers, WillFill(p, j) PROVE p = r
          BY <2>j, <2>1, <5>1, Undisturbed DEF WillFill, Working, LoopPoints
        <5>2. WillFill(r, j) => IsPut(j)
          <6>1. refresher[r] = "denied" /\ ~(i[r] < j)
            BY <2>j, <2>1, <2>6, AccessAssumption DEF FillDeniedUrls, Ips
          <6> QED BY <6>1 DEF WillFill
        <5> QED BY <4>1, <5>1, <5>2 DEF IsFilled
      <4>3. /\ statsOfIps'[j] = statsOfIps[j] /\ actionsOfIps'[j] = actions'
            /\ <<actions', j>> \in deniedUrls'
        BY <2>j, <3>1, <4>2 DEF IsPut
      <4> QED BY <4>2, <4>3 DEF IsFilled, IsPut, HasLimits
    <3> QED BY <2>j, <2>1, <3>1, <3>2, <3>3, <3>4, <3>5, FillPoint
  <2> QED BY <1>3, <2>3, <2>4, <2>5, <2>6
<1>4. CASE FlushCollected \/ RefreshInfo
  BY <1>4 DEF FlushCollected, RefreshInfo, Filling, AccessTypeOK, Refreshers
<1>5. ASSUME NEW ip \in Ips, Collect(ip) PROVE FillInv'
  <2>1. CASE actionsOfIps[ip] = 0
    BY <1>5, <2>1 DEF Collect, Filling, AccessTypeOK, Refreshers
  <2>2. CASE actionsOfIps[ip] # 0
    BY <1>5, <2>2 DEF Collect, FillInv, Filling, IsFilled, IsPut, HasLimits, WillFill,
                      LoopPoints, Has, tableVars
  <2> QED BY <2>1, <2>2
<1>6. CASE UNCHANGED accessVars
  BY <1>6 DEF accessVars, tableVars, refreshVars, FillInv, Filling, IsFilled, IsPut,
              HasLimits, WillFill, LoopPoints, Has
<1> QED BY <1>1, <1>2, <1>3, <1>4, <1>5, <1>6 DEF TablesStep, AccessStep, RefreshSessions

\* What the invariants say when nobody refreshes.
LEMMA FilledTables ==
  ASSUME FillInv
  PROVE  TablesComplete
BY DEF FillInv, TablesComplete, Filling, Refreshing, WillFill, LoopPoints, IsFilled, IsPut,
       HasLimits

-----------------------------------------------------------------------------
(* The tables, as a check reads them *)

\* Where a thread is in the monitor.
Busy == {"create"} \cup Working

\* A refresh has yet to give the address a session.
ToCome(r, ip) ==
  \/ refresher[r] = "select"
  \/ refresher[r] \in {"stats", "put"} /\ ip >= i[r]
  \/ refresher[r] \in {"clear", "denied"} /\ ip > i[r]

\* Once the proxy has started, the monitor keeps refreshes apart, a refresh
\* comes to addresses without a session, and there is none if nothing is
\* flushed.
MonitorInv ==
  ~Has("prerun") =>
    /\ \A r \in Refreshers : refresher[r] \in Busy => wLock = r
    /\ \A r \in Refreshers, ip \in Ips : ToCome(r, ip) => actionsOfIps[ip] = 0
    /\ ~Has("flush") =>
         /\ \A r \in Refreshers : refresher[r] = "idle"
         /\ \A ip \in Ips : actionsOfIps[ip] # 0

\* Without a flush no step changes the tables.
LEMMA NothingRefreshes ==
  ASSUME AccessTypeOK, MonitorInv, ~Has("prerun"), ~Has("flush"), TablesStep
  PROVE  UNCHANGED <<tableVars, refresher>>
<1>1. ~FlushCollected /\ ~RefreshInfo
  BY DEF MonitorInv, FlushCollected, RefreshInfo, Refreshers
<1>2. ASSUME NEW r \in Refreshers PROVE ~RefreshSessions(r)
  BY DEF MonitorInv, RefreshSessions, CreateObjects, SelectSessions, PutStats, PutAction,
         ClearDeniedUrls, FillDeniedUrls
<1>3. ASSUME NEW ip \in Ips, Collect(ip) PROVE UNCHANGED <<tableVars, refresher>>
  BY <1>3 DEF MonitorInv, Collect
<1> QED BY <1>1, <1>2, <1>3 DEF TablesStep, AccessStep, accessVars, refreshVars

\* What a step of a refresh, in the monitor, does to an address: nothing,
\* forget it, or give it a session.
Kept(ip) ==
  /\ actionsOfIps'[ip] = actionsOfIps[ip]
  /\ statsOfIps'[ip] = statsOfIps[ip]

\* A thread that leaves the monitor leaves nobody in it.
LEMMA MonitorLeft ==
  ASSUME AccessTypeOK, MonitorInv, ~Has("prerun"), Has("flush"), UNCHANGED scenario,
         NEW r \in Refreshers, refresher[r] \in Busy, Returns(r) \/ Throws(r)
  PROVE  MonitorInv'
<1>1. \A q \in Refreshers \ {r} : refresher[q] \notin Busy
  BY DEF MonitorInv
<1>2. \A q \in Refreshers : refresher'[q] = IF q = r THEN refresher'[r] ELSE refresher[q]
  BY DEF AccessTypeOK, Returns, Throws
<1>3. refresher'[r] \in {"idle", "dead"}
  BY DEF AccessTypeOK, Returns, Throws
<1>4. \A q \in Refreshers : refresher'[q] \notin Busy
  BY <1>1, <1>2, <1>3 DEF Busy, Working, LoopPoints
<1> QED BY <1>4 DEF MonitorInv, Has, ToCome, Busy, Working, LoopPoints

\* A thread that goes on in the monitor, to no address that it had left.
LEMMA MonitorGoesOn ==
  ASSUME AccessTypeOK, MonitorInv, ~Has("prerun"), Has("flush"), UNCHANGED scenario,
         NEW r \in Refreshers, refresher[r] \in Busy, NEW p \in Working, Goto(r, p),
         \A ip \in Ips : ToCome(r, ip)' => actionsOfIps'[ip] = 0
  PROVE  MonitorInv'
<1>1. wLock' = r /\ \A q \in Refreshers \ {r} : refresher'[q] \notin Busy
  BY DEF MonitorInv, Goto
<1>2. \A q \in Refreshers \ {r}, ip \in Ips : ~ToCome(q, ip)'
  BY <1>1 DEF ToCome, Busy, Working, LoopPoints
<1> QED BY <1>1, <1>2 DEF MonitorInv, Has

\* What the threads do to the tables keeps MonitorInv.
LEMMA MonitorStep ==
  ASSUME AccessTypeOK, MonitorInv, ~Has("prerun"), TablesStep, UNCHANGED scenario
  PROVE  /\ MonitorInv'
         /\ \A ip \in Ips : actionsOfIps[ip] # 0 /\ actionsOfIps'[ip] # 0 => Kept(ip)
<1>a. CASE ~Has("flush")
  <2>1. UNCHANGED <<tableVars, refresher>>
    BY <1>a, NothingRefreshes
  <2>2. \A ip \in Ips : Kept(ip)
    BY <2>1 DEF Kept, tableVars
  <2>3. MonitorInv'
    BY <2>1, <1>a DEF MonitorInv, Has, tableVars, ToCome, Busy, Working, LoopPoints
  <2> QED BY <2>2, <2>3
<1>b. CASE Has("flush")
  <2> DEFINE Goal == MonitorInv'
                     /\ \A ip \in Ips : actionsOfIps[ip] # 0 /\ actionsOfIps'[ip] # 0 => Kept(ip)
  <2>k. ASSUME UNCHANGED <<actionsOfIps, statsOfIps>> PROVE \A ip \in Ips : Kept(ip)
    BY <2>k DEF Kept
  <2>r. ASSUME NEW r \in Refreshers, refresher[r] \in Busy, Returns(r) \/ Throws(r),
               UNCHANGED <<actionsOfIps, statsOfIps>>
        PROVE  Goal
    BY <2>r, <2>k, <1>b, MonitorLeft
  <2>1. ASSUME NEW r \in Refreshers, CreateObjects(r) PROVE Goal
    <3>1. /\ refresher[r] = "create" /\ wLock' = wLock /\ wLock = r
          /\ refresher' = [refresher EXCEPT ![r] = "select"]
          /\ \A ip \in Ips : actionsOfIps'[ip] = 0
      BY <2>1, <1>b DEF CreateObjects, EmptyTables, MonitorInv, Busy
    <3>2. \A q \in Refreshers \ {r} : refresher'[q] \notin Busy
      BY <3>1, <1>b DEF MonitorInv
    <3>3. MonitorInv'
      BY <3>1, <3>2, <1>b DEF MonitorInv, Has
    <3> QED BY <3>1, <3>3
  <2>2. ASSUME NEW r \in Refreshers, SelectSessions(r) PROVE Goal
    <3>1. refresher[r] = "select" /\ UNCHANGED <<actionsOfIps, statsOfIps>>
      BY <2>2 DEF SelectSessions, Throws, tableVars
    <3>2. CASE Goto(r, "stats")
      <4>1. \A ip \in Ips : actionsOfIps'[ip] = 0
        BY <3>1, <1>b DEF MonitorInv, ToCome
      <4> QED BY <3>1, <3>2, <4>1, <2>k, <1>b, MonitorGoesOn DEF Busy, Working, LoopPoints
    <3> QED BY <2>2, <3>1, <3>2, <2>r DEF SelectSessions, Busy, Working
  <2>3. ASSUME NEW r \in Refreshers,
               PutStats(r) \/ PutAction(r) \/ ClearDeniedUrls(r) \/ FillDeniedUrls(r)
        PROVE  Goal
    <3> DEFINE Leaves == (Returns(r) \/ Throws(r)) /\ UNCHANGED <<actionsOfIps, statsOfIps>>
    <3>1. refresher[r] \in LoopPoints /\ i[r] \in Ips /\ i[r] \in Nat
      BY <2>3, AccessAssumption DEF PutStats, PutAction, ClearDeniedUrls, FillDeniedUrls,
            AccessTypeOK, LoopPoints, Ips
    <3>2. \A ip \in Ips : ToCome(r, ip) => actionsOfIps[ip] = 0
      BY <1>b DEF MonitorInv
    <3>3. CASE Leaves
      BY <3>1, <3>3, <2>r DEF Busy, Working
    <3>4. CASE PutStats(r) /\ ~Leaves
      <4>1. /\ refresher[r] = "stats" /\ Goto(r, "put")
            /\ UNCHANGED <<actionsOfIps, i>>
            /\ \A ip \in Ips \ {i[r]} : statsOfIps'[ip] = statsOfIps[ip]
        BY <3>4 DEF PutStats, AccessTypeOK, Throws, tableVars
      <4>2. refresher'[r] = "put"
        BY <4>1 DEF Goto, AccessTypeOK
      <4>3. \A ip \in Ips : ToCome(r, ip)' => ToCome(r, ip)
        BY <4>1, <4>2 DEF ToCome
      <4>4. ToCome(r, i[r])
        BY <3>1, <4>1 DEF ToCome
      <4>5. \A ip \in Ips : actionsOfIps[ip] # 0 => Kept(ip)
        BY <3>1, <3>2, <4>1, <4>4 DEF Kept
      <4> QED BY <3>1, <3>2, <4>1, <4>3, <4>5, <1>b, MonitorGoesOn
              DEF Busy, Working, LoopPoints
    <3>5. CASE PutAction(r) /\ ~Leaves
      <4>1. /\ refresher[r] = "put" /\ Goto(r, "clear")
            /\ UNCHANGED <<statsOfIps, i>>
            /\ \A ip \in Ips \ {i[r]} : actionsOfIps'[ip] = actionsOfIps[ip]
        BY <3>5 DEF PutAction, AccessTypeOK, Throws, tableVars
      <4>2. refresher'[r] = "clear"
        BY <4>1 DEF Goto, AccessTypeOK
      <4>3. \A ip \in Ips : ToCome(r, ip)' => ToCome(r, ip) /\ ip # i[r]
        BY <3>1, <4>1, <4>2, AccessAssumption DEF ToCome, Ips
      <4>4. ToCome(r, i[r])
        BY <3>1, <4>1 DEF ToCome
      <4>5. \A ip \in Ips : actionsOfIps[ip] # 0 => Kept(ip)
        BY <3>1, <3>2, <4>1, <4>4 DEF Kept
      <4> QED BY <3>1, <3>2, <4>1, <4>3, <4>5, <1>b, MonitorGoesOn
              DEF Busy, Working, LoopPoints
    <3>6. CASE ClearDeniedUrls(r) /\ ~Leaves
      <4>1. /\ refresher[r] = "clear" /\ Goto(r, "denied")
            /\ UNCHANGED <<actionsOfIps, statsOfIps, i>>
        BY <3>6 DEF ClearDeniedUrls, Throws, tableVars
      <4>2. refresher'[r] = "denied"
        BY <4>1 DEF Goto, AccessTypeOK
      <4>3. \A ip \in Ips : ToCome(r, ip)' => ToCome(r, ip)
        BY <4>1, <4>2 DEF ToCome
      <4> QED BY <3>1, <3>2, <4>1, <4>3, <2>k, <1>b, MonitorGoesOn
              DEF Busy, Working, LoopPoints
    <3>7. CASE FillDeniedUrls(r) /\ ~Leaves
      <4>1. /\ refresher[r] = "denied" /\ Goto(r, "stats")
            /\ UNCHANGED <<actionsOfIps, statsOfIps>> /\ i'[r] = i[r] + 1
        BY <3>7 DEF FillDeniedUrls, NextSession, Throws, tableVars, AccessTypeOK
      <4>2. refresher'[r] = "stats"
        BY <4>1 DEF Goto, AccessTypeOK
      <4>3. \A ip \in Ips : ToCome(r, ip)' => ToCome(r, ip)
        BY <3>1, <4>1, <4>2, AccessAssumption DEF ToCome, Ips
      <4> QED BY <3>1, <3>2, <4>1, <4>3, <2>k, <1>b, MonitorGoesOn
              DEF Busy, Working, LoopPoints
    <3> QED BY <2>3, <3>3, <3>4, <3>5, <3>6, <3>7
  <2>4. CASE FlushCollected \/ RefreshInfo
    <3> USE DEF Refreshers, AccessTypeOK, Busy, Working, LoopPoints, RefreshPoints
    <3>1. CASE FlushCollected
      BY <3>1, <1>b DEF FlushCollected, EmptyTables, MonitorInv, Has
    <3>2. CASE RefreshInfo
      <4>1. /\ UNCHANGED <<actionsOfIps, statsOfIps, i>> /\ wLock = "free" /\ wLock' = "daemon"
            /\ refresher' = [refresher EXCEPT !["daemon"] = "create"]
        BY <3>2 DEF RefreshInfo, tableVars
      <4> QED BY <4>1, <2>k, <1>b DEF MonitorInv, Has, ToCome
    <3> QED BY <2>4, <3>1, <3>2
  <2>5. ASSUME NEW ip \in Ips, Collect(ip) PROVE Goal
    <3>1. UNCHANGED <<actionsOfIps, statsOfIps, i>> /\ wLock = "free"
      BY <2>5 DEF Collect, tableVars
    <3>2. \A r \in Refreshers : refresher[r] \notin Busy
      BY <3>1, <1>b DEF MonitorInv, Refreshers
    <3> QED BY <2>5, <3>1, <3>2, <2>k, <1>b
            DEF Collect, MonitorInv, Has, ToCome, Refreshers, AccessTypeOK, Busy, Working,
                LoopPoints
  <2>6. CASE UNCHANGED accessVars
    BY <2>6, <2>k, <1>b DEF accessVars, tableVars, refreshVars, MonitorInv, Has, ToCome
  <2> QED BY <2>1, <2>2, <2>3, <2>4, <2>5, <2>6
          DEF TablesStep, AccessStep, RefreshSessions
<1> QED BY <1>a, <1>b

-----------------------------------------------------------------------------
(* A check against what the tables say as a whole *)

\* What the tables say against the host of a connection.
Exceeded(c) == statsOfIps[IpOf[c]] = "exceeded"
UrlDenied(c) == con[c].host \in ListOf(ActionOf(IpOf[c]), IpOf[c])
CategoryDenied(c) == CategoryForUrl(con[c].host) \in catsAccessDenied

\* Only the category is left to be met.  Where the tables are flushed, denied
\* urls may have been added behind the check.
CategoryLeft(c) ==
  ~Exceeded(c) /\ CategoryDenied(c) /\ (Has("flush") \/ ~UrlDenied(c))

\* How far a check has come that must not end well.
CheckedSoFar(c) ==
  LET k == con[c]
  IN  /\ k.pc \in {"stats", "limits", "list", "urls"} => k.act = ActionOf(IpOf[c])
      /\ k.pc \in {"list", "urls"} => ~Exceeded(c)
      /\ k.pc = "category" => k.denied \/ CategoryLeft(c)
      /\ k.pc \in {"tariff", "rights"} =>
           k.denied \/ (CategoryLeft(c) /\ k.cid = CategoryForUrl(k.host))
      /\ k.pc = "send" => k.denied

\* One thread rebuilds the tables, and one computes the limits of the day.
OneRebuilder ==
  ~Has("prerun") /\ ~Has("limits") /\ ~(Has("reload") /\ Has("flush"))

\* The history notes that the tables let a chunk pass; a chunk that they have
\* never let pass is found out.
CheckInv ==
  \A c \in Connections :
    /\ con[c].chunks > 0 /\ Allows(c) => allowed[c]
    /\ OneRebuilder /\ ~allowed[c] => CheckedSoFar(c)

NoReload == ~Has("reload") => reload = "idle"

AccessInv ==
  ProxyInv /\ NoReload /\ LoopInv /\ AloneInv /\ FillInv /\ MonitorInv /\ CheckInv

\* What is allowed, in other words.
LEMMA Allowing ==
  ASSUME NEW c \in Connections
  PROVE  Allows(c) <=> (ActionOf(IpOf[c]) # 0 =>
                          ~Exceeded(c) /\ ~UrlDenied(c) /\ ~CategoryDenied(c))
BY DEF Allows, UrlAllowed, Exceeded, UrlDenied, CategoryDenied

\* A denied category stays the category of its host, and stays denied, unless a
\* reload takes it away.
LEMMA CategoryKept ==
  ASSUME CatTypeOK, HostKnown, NoReload, [CatStep]_catSpecVars, NEW h \in AnyHost,
         CategoryForUrl(h) \in catsAccessDenied,
         ~Has("reload") \/ (CategoryForUrl(h) \in catsAccessDenied)'
  PROVE  /\ CategoryForUrl(h)' = CategoryForUrl(h)
         /\ (CategoryForUrl(h) \in catsAccessDenied)'
<1>1. CategoryForUrl(h) \in Cids /\ NoCid \notin Cids /\ NoCid \notin catsAccessDenied
  BY CategoryAssumption DEF CatTypeOK
<1>2. h \in Hosts /\ h # NoHost /\ url_cat[h] = CategoryForUrl(h)
  BY <1>1, ScenarioAssumption DEF CategoryForUrl, AnyHost
<1> DEFINE Same == url_cat'[h] = url_cat[h] /\ catsAccessDenied \subseteq catsAccessDenied'
<1>3. ASSUME Same
      PROVE  CategoryForUrl(h)' = CategoryForUrl(h) /\ (CategoryForUrl(h) \in catsAccessDenied)'
  BY <1>2, <1>3 DEF CategoryForUrl
<1>4. CASE UNCHANGED <<url_cat, catsAccessDenied>>
  BY <1>3, <1>4
<1>5. ASSUME NEW t \in Recognizers, AddToMap(t) PROVE Same
  <2>1. url_cat' = url_cat \/ (url_cat[rec[t].host] = NoCid
                               /\ url_cat' = [url_cat EXCEPT ![rec[t].host] = rec[t].cid])
    BY <1>5 DEF AddToMap
  <2> QED BY <1>1, <1>2, <1>5, <2>1 DEF AddToMap, CatTypeOK
<1>6. CASE ReloadBegin
  <2>1. Has("reload") /\ url_cat'[h] = NoCid /\ catsAccessDenied' = catsAccessDenied
    BY <1>2, <1>6 DEF ReloadBegin
  <2> QED BY <1>1, <1>2, <2>1 DEF CategoryForUrl
<1>7. CASE ReloadForgetDenied
  <2>1. Has("reload") /\ catsAccessDenied' = {}
    BY <1>7 DEF ReloadForgetDenied, NoReload
  <2> QED BY <2>1
<1>8. CASE ReloadDenied
  BY <1>3, <1>8 DEF ReloadDenied, CatTypeOK
<1>9. ASSUME NEW x \in unread, ReloadFill(x) PROVE Same
  <2>1. url_cat' = url_cat \/ (url_cat[x.url] = NoCid
                               /\ url_cat' = [url_cat EXCEPT ![x.url] = x.cid])
    BY <1>9 DEF ReloadFill
  <2> QED BY <1>1, <1>2, <1>9, <2>1 DEF ReloadFill, CatTypeOK
<1>10. CASE Administration
  BY <1>4, <1>10 DEF Administration, AddUrlCategoryMatch, UpdateUrlCategoryMatch,
        DeleteUrlCategoryMatch, Edits
<1> QED BY <1>3, <1>4, <1>5, <1>6, <1>7, <1>8, <1>9, <1>10
        DEF CatStep, CatNext, catSpecVars, catVars, StartRecognizer, Begin, Recognizer,
            AddAnalysis, Recognize, AddMatch, OnlyRec, ReloadData, ReloadSelect

\* Every step of the composition, as far as the tables go.
LEMMA StepTables ==
  ASSUME ProxyInv, [Next]_vars
  PROVE  TablesStep /\ UNCHANGED scenario
<1>0. UNCHANGED scenario
  BY DEF Next, vars
<1>1. ASSUME NEW x \in collects, PreCollect(x) PROVE TablesStep
  <2>1. IpOf[x[1]] \in Ips
    BY ConnectionAssumption DEF ProxyInv, ConInv, ConTypeOK
  <2> QED BY <1>1, <2>1 DEF PreCollect, TablesStep
<1>2. CASE AccessStep \/ UNCHANGED accessVars
  BY <1>0, <1>2 DEF TablesStep
<1> QED BY <1>0, <1>1, <1>2 DEF Next, Step, Connection, Tables, PreCollector, Recognition,
          Logger, CategorizerWakes, Reload, Edit, vars

\* Whatever the others do, a check that must not end well does not.
LEMMA OthersCheck ==
  ASSUME AccessInv, Next, OneRebuilder, NEW c \in Connections, con'[c] = con[c],
         con[c].chunks > 0, ~allowed'[c]
  PROVE  CheckedSoFar(c)'
<1> DEFINE ip == IpOf[c]
<1>1. ip \in Ips /\ con[c].host \in AnyHost
  BY ConnectionAssumption DEF AccessInv, ProxyInv, ConInv, ConTypeOK, Locals
<1>2. ~Allows(c)' /\ ~allowed[c]
  BY DEF Next, Observe, Allows
<1>3. CheckedSoFar(c) /\ ~Allows(c)
  BY <1>2 DEF AccessInv, CheckInv
<1>4. actionsOfIps[ip] # 0 /\ actionsOfIps'[ip] # 0
  BY <1>2, <1>3, Allowing DEF ActionOf, Allows, UrlAllowed
<1>5. TablesStep /\ UNCHANGED scenario
  BY StepTables DEF AccessInv
<1>6. Kept(ip) /\ (~Has("flush") => UNCHANGED tableVars)
  BY <1>1, <1>4, <1>5, MonitorStep, NothingRefreshes
     DEF AccessInv, ProxyInv, OneRebuilder
<1>7. /\ Exceeded(c)' <=> Exceeded(c)
      /\ ActionOf(ip)' = ActionOf(ip)
      /\ ~Has("flush") => (UrlDenied(c)' <=> UrlDenied(c))
  BY <1>6 DEF Kept, Exceeded, UrlDenied, ActionOf, ListOf, tableVars
<1>8. ASSUME CategoryLeft(c)
      PROVE  CategoryLeft(c)' /\ CategoryForUrl(con[c].host)' = CategoryForUrl(con[c].host)
  <2>1. [CatStep]_catSpecVars
    BY StepMaps DEF AccessInv
  <2>2. ~Has("reload") \/ CategoryDenied(c)'
    <3>1. CASE Has("flush")
      BY <3>1 DEF OneRebuilder
    <3>2. CASE ~Has("flush")
      <4>1. ~Exceeded(c)' /\ ~UrlDenied(c)'
        BY <1>7, <1>8, <3>2 DEF CategoryLeft
      <4>2. ~(ActionOf(ip)' # 0 => ~Exceeded(c)' /\ ~UrlDenied(c)' /\ ~CategoryDenied(c)')
        BY <1>2 DEF Allows, UrlAllowed, Exceeded, UrlDenied, CategoryDenied
      <4> QED BY <4>1, <4>2
    <3> QED BY <3>1, <3>2
  <2>3. CategoryForUrl(con[c].host) \in catsAccessDenied
    BY <1>8 DEF CategoryLeft, CategoryDenied
  <2>4. ~Has("reload") \/ CategoryForUrl(con[c].host)' \in catsAccessDenied'
    BY <2>2 DEF CategoryDenied
  <2>h. PICK h \in AnyHost : h = con[c].host /\ h = con'[c].host
    BY <1>1
  <2>5. /\ CategoryForUrl(h)' = CategoryForUrl(h)
        /\ (CategoryForUrl(h) \in catsAccessDenied)'
    <3>1. CategoryForUrl(h) \in catsAccessDenied
      BY <2>3, <2>h
    <3>2. ~Has("reload") \/ (CategoryForUrl(h) \in catsAccessDenied)'
      BY <2>4, <2>h DEF CategoryForUrl
    <3> QED BY <2>1, <3>1, <3>2, CategoryKept DEF AccessInv, ProxyInv
  <2>6. CategoryDenied(c)' /\ CategoryForUrl(con[c].host)' = CategoryForUrl(con[c].host)
    BY <2>5, <2>h DEF CategoryDenied, CategoryForUrl
  <2> QED BY <1>5, <1>7, <1>8, <2>6 DEF CategoryLeft, Has
<1> QED BY <1>3, <1>7, <1>8 DEF CheckedSoFar

\* An analysis does not change where the thread goes.
LEMMA AnalysePoint ==
  ASSUME con \in [Connections -> Locals], NEW c \in Connections,
         NEW x, "pc" \in DOMAIN x, NEW due, MayAnalyse(c, x, due)
  PROVE  con'[c].pc = x.pc
BY DEF MayAnalyse, Becomes

\* A thread that goes on checks what it has not met yet.
LEMMA OwnCheck ==
  ASSUME AccessInv, Next, OneRebuilder, NEW c \in Connections, Connection(c),
         ~allowed'[c]
  PROVE  CheckedSoFar(c)'
<1> DEFINE r == con[c]
           k == con'[c]
           ip == IpOf[c]
<1>1. r \in Locals /\ con \in [Connections -> Locals]
  BY DEF AccessInv, ProxyInv, ConInv, ConTypeOK
<1>2. NoCid \notin catsAccessDenied
  BY CategoryAssumption DEF AccessInv, ProxyInv, CatTypeOK
<1>3. UNCHANGED tableVars /\ UNCHANGED scenario
  BY DEF Connection, accessVars, Next
<1>4. CASE Check(c)
  <2>1. /\ UNCHANGED catVars
        /\ k.host = r.host /\ k.chunks = r.chunks
    <3>1. CASE GetAction(c) \/ HasStats(c) \/ EnterList(c) \/ GetCategory(c) \/ GetTariff(c)
      BY <1>1, <3>1 DEF GetAction, HasStats, EnterList, GetCategory, GetTariff, Local, To,
            Becomes, Locals
    <3>2. CASE CheckLimits(c)
      <4>1. CASE ExceedsLimits(c)
        BY <1>1, <4>1 DEF ExceedsLimits, Becomes, Locals
      <4>2. CASE Leaks(c) \/ (To(c, "list") /\ Local)
        BY <1>1, <4>2 DEF Leaks, To, Local, Becomes, Locals
      <4> QED BY <3>2, <4>1, <4>2 DEF CheckLimits
    <3>4. CASE MatchDeniedUrls(c)
      <4>1. CASE Leaks(c)
        BY <1>1, <4>1 DEF Leaks, To, Local, Becomes, Locals
      <4>2. CASE ~Leaks(c)
        <5>1. \E d : con' = [con EXCEPT ![c] = [r EXCEPT !.pc = "category", !.act = 0,
                                                         !.denied = d]]
          BY <3>4, <4>2, Zenon DEF MatchDeniedUrls, Becomes
        <5>2. UNCHANGED catVars
          BY <3>4 DEF MatchDeniedUrls, Local, Leaks
        <5> QED BY <1>1, <5>1, <5>2 DEF Locals
      <4> QED BY <4>1, <4>2
    <3>3. CASE CheckCategory(c)
      BY <1>1, <3>3 DEF CheckCategory, To, Becomes, Locals
    <3> QED BY <1>4, <3>1, <3>2, <3>3, <3>4 DEF Check
  <2>2. /\ Exceeded(c)' <=> Exceeded(c)
        /\ UrlDenied(c)' <=> UrlDenied(c)
        /\ CategoryDenied(c)' <=> CategoryDenied(c)
        /\ ActionOf(ip)' = ActionOf(ip)
        /\ CategoryForUrl(con[c].host)' = CategoryForUrl(r.host)
    BY <1>3, <2>1 DEF Exceeded, UrlDenied, CategoryDenied, ActionOf, ListOf,
          CategoryForUrl, catVars, tableVars
  <2>3. r.chunks > 0
    BY <1>4 DEF AccessInv, ProxyInv, ConInv, Good, Counted, Before, ConPoints, Check, At,
          GetAction, HasStats, CheckLimits, EnterList, MatchDeniedUrls,
          GetCategory, GetTariff, CheckCategory
  <2>4. ~allowed[c] /\ ~Allows(c) /\ CheckedSoFar(c)
    BY <2>1, <2>3 DEF Next, Observe, AccessInv, CheckInv
  <2>5. ActionOf(ip) # 0 /\ (Exceeded(c) \/ UrlDenied(c) \/ CategoryDenied(c))
    BY <2>4, Allowing
  <2>6. CategoryLeft(c)' <=> CategoryLeft(c)
    BY <1>3, <2>2 DEF CategoryLeft, Has
  <2>7. UrlDenied(c) <=> r.host \in ListOf(ActionOf(ip), ip)
    BY DEF UrlDenied
  <2>8. CASE GetAction(c)
    BY <1>1, <2>2, <2>5, <2>8 DEF GetAction, Becomes, Locals, CheckedSoFar
  <2>9. CASE HasStats(c)
    BY <1>1, <2>2, <2>4, <2>9 DEF HasStats, To, At, Becomes, Locals, CheckedSoFar, Exceeded
  <2>10. CASE CheckLimits(c)
    <3>1. CASE k.pc \in {"leaked", "receive"}
      BY <3>1 DEF CheckedSoFar
    <3>2. CASE ~Exceeded(c) /\ To(c, "list") /\ r.pc = "limits"
      <4>1. k.pc = "list" /\ k.act = r.act
        BY <1>1, <3>2 DEF To, Becomes, Locals
      <4>2. r.act = ActionOf(ip)
        BY <2>4, <3>2 DEF CheckedSoFar
      <4> QED BY <2>2, <3>2, <4>1, <4>2 DEF CheckedSoFar
    <3>3. CASE Leaks(c) \/ ExceedsLimits(c)
      <4>1. CASE Leaks(c)
        BY <1>1, <3>1, <4>1 DEF Leaks, To, Becomes, Locals
      <4>2. CASE ExceedsLimits(c)
        BY <1>1, <3>1, <4>2 DEF ExceedsLimits, Becomes, Locals
      <4> QED BY <3>3, <4>1, <4>2
    <3> QED BY <2>10, <3>2, <3>3 DEF CheckLimits, At, Exceeded, OneRebuilder
  <2>11. CASE EnterList(c)
    <3>1. r.act = ActionOf(ip) /\ ~Exceeded(c)
      BY <2>4, <2>11 DEF EnterList, At, CheckedSoFar
    <3>2. CASE ListOf(r.act, ip) = {}
      <4>1. k.pc = "category"
        BY <1>1, <2>11, <3>2 DEF EnterList, Becomes, Locals
      <4>2. CategoryLeft(c)
        BY <2>5, <2>7, <3>1, <3>2 DEF CategoryLeft
      <4> QED BY <2>6, <4>1, <4>2 DEF CheckedSoFar
    <3>3. CASE ListOf(r.act, ip) # {}
      BY <1>1, <2>2, <2>11, <3>1, <3>3 DEF EnterList, To, Becomes, Locals, CheckedSoFar
    <3> QED BY <3>2, <3>3
  <2>12. CASE MatchDeniedUrls(c)
    <3>1. r.act = ActionOf(ip) /\ ~Exceeded(c)
      BY <2>4, <2>12 DEF MatchDeniedUrls, At, CheckedSoFar
    <3>2. CASE Leaks(c)
      BY <1>1, <3>2 DEF Leaks, To, Becomes, Locals, CheckedSoFar
    <3>3. CASE ~Leaks(c)
      <4>1. con' = [con EXCEPT ![c] = [r EXCEPT !.pc = "category", !.act = 0,
                                 !.denied = r.host \in ListOf(r.act, ip)]]
        BY <2>12, <3>3, Zenon DEF MatchDeniedUrls, Becomes
      <4>2. k.pc = "category" /\ (k.denied <=> r.host \in ListOf(r.act, ip))
        BY <1>1, <4>1 DEF Locals
      <4>3. k.denied \/ CategoryLeft(c)
        BY <2>5, <2>7, <3>1, <4>2 DEF CategoryLeft
      <4> QED BY <2>6, <4>2, <4>3 DEF CheckedSoFar
    <3> QED BY <3>2, <3>3
  <2>13. CASE GetCategory(c)
    <3>1. r.denied \/ CategoryLeft(c)
      BY <2>4, <2>13 DEF GetCategory, At, CheckedSoFar
    <3>2. /\ k.pc = IF CategoryForUrl(r.host) = NoCid THEN "send" ELSE "tariff"
          /\ k.cid = CategoryForUrl(r.host) /\ k.denied = r.denied
      BY <1>1, <2>13 DEF GetCategory, Becomes, Locals
    <3>3. CategoryLeft(c) => CategoryForUrl(r.host) # NoCid
      BY <1>2 DEF CategoryLeft, CategoryDenied
    <3> QED BY <2>2, <2>6, <3>1, <3>2, <3>3 DEF CheckedSoFar
  <2>14. CASE GetTariff(c)
    <3>1. k.pc = "rights" /\ k.cid = r.cid /\ k.denied = r.denied
      BY <1>1, <2>5, <2>14 DEF GetTariff, To, Becomes, Locals
    <3>2. r.denied \/ (CategoryLeft(c) /\ r.cid = CategoryForUrl(r.host))
      BY <2>4, <2>14 DEF GetTariff, At, CheckedSoFar
    <3> QED BY <2>2, <2>6, <3>1, <3>2 DEF CheckedSoFar
  <2>15. CASE CheckCategory(c)
    <3>1. r.denied \/ r.cid \in catsAccessDenied
      BY <2>4, <2>15 DEF CheckCategory, At, CheckedSoFar, CategoryLeft, CategoryDenied
    <3>2. k.pc = "send" /\ k.denied
      BY <1>1, <2>15, <3>1 DEF CheckCategory, To, Becomes, Locals
    <3> QED BY <3>2 DEF CheckedSoFar
  <2> QED BY <1>4, <2>8, <2>9, <2>10, <2>11, <2>12, <2>13, <2>14, <2>15 DEF Check
<1>5. CASE ~Check(c)
  <2>1. k.pc \in {"loop", "connect", "action", "receive", "closed", "leaked"}
    <3>1. CASE Close(c) \/ NothingArrives(c) \/ ReadFails(c) \/ Connect(c)
      BY <1>1, <3>1 DEF Close, NothingArrives, ReadFails, Connect, To, Becomes, Locals
    <3>2. ASSUME NEW h \in AnyHost, ChunkArrives(c, h) PROVE k.pc \in {"connect", "action"}
      BY <1>1, <3>2 DEF ChunkArrives, Becomes, Locals
    <3>3. CASE Forward(c) \/ DoNotForward(c)
      BY <1>1, <3>3 DEF Forward, DoNotForward, To, Becomes, Locals
    <3>4. CASE ReceiveNothing(c)
      <4>1. PICK x, due : x.pc = "loop" /\ "pc" \in DOMAIN x /\ MayAnalyse(c, x, due)
        BY <1>1, <3>4 DEF ReceiveNothing, Locals
      <4> QED BY <1>1, <4>1, AnalysePoint
    <3>5. CASE Respond(c)
      <4>1. PICK x, due : x.pc = "loop" /\ "pc" \in DOMAIN x /\ MayAnalyse(c, x, due)
        BY <1>1, <3>5 DEF Respond, Replied, Locals
      <4> QED BY <1>1, <4>1, AnalysePoint
    <3>6. CASE Refuse(c)
      BY <1>1, <3>6 DEF Refuse, Replied, Becomes, Locals
    <3> QED BY <1>5, <3>1, <3>2, <3>3, <3>4, <3>5, <3>6 DEF Connection, Run
  <2> QED BY <2>1 DEF CheckedSoFar
<1> QED BY <1>4, <1>5

\* The proxy starts with the access invariant.
LEMMA AccessInitInv == Init => AccessInv
<1> SUFFICES ASSUME Init PROVE AccessInv
  OBVIOUS
<1>1. ProxyInv
  BY ProxyInitInv
<1>2. NoReload
  BY DEF Init, CatInit, NoReload
<1>3. LoopInv
  BY DEF Init, AccessInit, LoopInv, Refreshers
<1>4. AloneInv
  BY DEF Init, AccessInit, AloneInv, Refreshers, LoopPoints, Working
<1>5. FillInv
  <2>1. CASE Has("prerun")
    BY <2>1 DEF Init, AccessInit, FillInv, Filling, Refreshers
  <2>2. CASE ~Has("prerun")
    BY <2>2 DEF Init, AccessInit, FillInv, IsFilled, IsPut, HasLimits, Ips
  <2> QED BY <2>1, <2>2
<1>6. MonitorInv
  BY DEF Init, AccessInit, MonitorInv, Refreshers, ToCome, Busy, Working, LoopPoints
<1>7. CheckInv
  BY DEF Init, ConInit, CheckInv, CheckedSoFar
<1> QED BY <1>1, <1>2, <1>3, <1>4, <1>5, <1>6, <1>7 DEF AccessInv

\* The daemon of the Categorizer sleeps for ever where nothing is reloaded.
LEMMA NoReloadStep ==
  ASSUME NoReload, [CatStep]_catSpecVars
  PROVE  NoReload'
BY DEF NoReload, CatStep, CatNext, catSpecVars, catVars, StartRecognizer, Begin, Recognizer,
       AddAnalysis, Recognize, AddToMap, AddMatch, OnlyRec, ReloadBegin, ReloadData,
       ReloadSelect, ReloadFill, ReloadForgetDenied, ReloadDenied, Administration,
       AddUrlCategoryMatch, UpdateUrlCategoryMatch, DeleteUrlCategoryMatch, Edits, Has

\* The history keeps up with the tables.
LEMMA CheckStep ==
  ASSUME AccessInv, ProxyInv', Next
  PROVE  CheckInv'
<1>1. UNCHANGED scenario
  BY DEF Next
<1>2. ASSUME NEW c \in Connections, ~allowed'[c], OneRebuilder PROVE CheckedSoFar(c)'
  <2>1. CASE Connection(c)
    BY <1>2, <2>1, OwnCheck
  <2>2. CASE con'[c] = con[c] /\ con[c].chunks > 0
    BY <1>2, <2>2, OthersCheck
  <2>3. CASE con'[c] = con[c] /\ ~(con[c].chunks > 0)
    <3>1. con'[c].pc \notin Before
      BY <2>3 DEF AccessInv, ProxyInv, ConInv, Good, Counted
    <3> QED BY <3>1 DEF Before, ConPoints, CheckedSoFar
  <2>4. Connection(c) \/ con'[c] = con[c]
    <3>1. ASSUME NEW d \in Connections \ {c}, Connection(d) PROVE con'[c] = con[c]
      <4>1. PICK k : Improves(d, k)
        BY <3>1, RunImproves DEF Connection, AccessInv, ProxyInv
      <4> QED BY <4>1, <3>1 DEF Improves, Becomes, AccessInv, ProxyInv, ConInv, ConTypeOK
    <3> QED BY <3>1 DEF Next, Step, Tables, PreCollector, PreCollect, Recognition,
          ReadContent, Logger, LogAttempt, CategorizerWakes, Reload, Edit, conVars
  <2> QED BY <2>1, <2>2, <2>3, <2>4
<1>3. ASSUME NEW c \in Connections PROVE Allows(c)' => allowed'[c]
  BY DEF Next, Observe, Allows
<1>4. OneRebuilder' <=> OneRebuilder
  BY <1>1 DEF OneRebuilder, Has
<1> QED BY <1>2, <1>3, <1>4 DEF CheckInv

\* Every step keeps the access invariant.
LEMMA AccessInvStep ==
  ASSUME AccessInv, [Next]_vars
  PROVE  AccessInv'
<1>1. ProxyInv'
  BY ProxyInvStep DEF AccessInv
<1>2. NoReload'
  BY StepMaps, NoReloadStep DEF AccessInv
<1>3. TablesStep /\ UNCHANGED scenario
  BY StepTables DEF AccessInv
<1>4. LoopInv' /\ AloneInv' /\ FillInv'
  BY <1>3, LoopStep, AloneStep, FillStep DEF AccessInv, ProxyInv
<1>5. MonitorInv'
  <2>1. CASE Has("prerun")
    BY <1>3, <2>1 DEF MonitorInv, Has
  <2>2. CASE ~Has("prerun")
    BY <1>3, <2>2, MonitorStep DEF AccessInv, ProxyInv
  <2> QED BY <2>1, <2>2
<1>6. CheckInv'
  <2>1. CASE Next
    BY <1>1, <2>1, CheckStep
  <2>2. CASE UNCHANGED vars
    BY <2>2 DEF vars, accessVars, tableVars, refreshVars, catVars, conVars, AccessInv,
          CheckInv, Allows, UrlAllowed, ActionOf, ListOf, CategoryForUrl, OneRebuilder,
          CheckedSoFar, CategoryLeft, Exceeded, UrlDenied, CategoryDenied, Has
  <2> QED BY <2>1, <2>2
<1> QED BY <1>1, <1>2, <1>4, <1>5, <1>6 DEF AccessInv

\* Only forwarding gives the server more to answer.
LEMMA OnlyForwardSends ==
  ASSUME ProxyInv, Next, NEW c \in Connections, Len(server'[c]) > Len(server[c])
  PROVE  con[c].pc = "send" /\ ~con[c].denied
<1>1. server[c] \in Seq(Hosts) /\ server \in [Connections -> Seq(Hosts)]
  BY DEF ProxyInv, ConInv, ConTypeOK
<1>2. server'[c] # server[c]
  BY <1>1
<1>3. ASSUME NEW d \in Connections, Respond(d) PROVE FALSE
  <2>1. server[d] # <<>> /\ server' = [server EXCEPT ![d] = Tail(@)]
    BY <1>3 DEF Respond
  <2>2. c = d
    BY <1>1, <1>2, <2>1
  <2>3. server'[c] = Tail(server[c]) /\ server[c] # <<>>
    BY <1>1, <2>1, <2>2
  <2>4. Len(Tail(server[c])) = Len(server[c]) - 1 /\ Len(server[c]) \in Nat
    BY <1>1, <2>3
  <2> QED BY <2>3, <2>4
<1>4. ASSUME NEW d \in Connections, Forward(d) PROVE con[c].pc = "send" /\ ~con[c].denied
  <2>1. server' = server \/ server' = [server EXCEPT ![d] = Append(@, con[d].host)]
    BY <1>4 DEF Forward
  <2>2. c = d
    BY <1>1, <1>2, <2>1
  <2> QED BY <1>4, <2>2 DEF Forward, At
<1>5. PICK d \in Connections : Run(d)
  BY <1>2 DEF Next, Step, Connection, Tables, PreCollector, PreCollect, Recognition,
        ReadContent, Logger, LogAttempt, CategorizerWakes, Reload, Edit, conVars
<1>6. Respond(d) \/ Forward(d)
  BY <1>2, <1>5 DEF Run, Check, Close, NothingArrives, ReadFails, ChunkArrives, Connect,
        GetAction, HasStats, CheckLimits, EnterList, MatchDeniedUrls, GetCategory,
        GetTariff, CheckCategory, DoNotForward, ReceiveNothing, Refuse, Local, Leaks,
        ExceedsLimits
<1> QED BY <1>3, <1>4, <1>6

\* So every reachable state satisfies it.
LEMMA AccessInvariant == Spec => []AccessInv
BY AccessInitInv, AccessInvStep, PTL DEF Spec

\* However many sessions there are, and whoever refreshes: when nobody does,
\* every session is in the tables with its limits and its denied urls.  What a
\* thread has emptied, it goes on to fill.  The refresh of prerun(), which is
\* not in the monitor, may have met another one; what the two leave behind is
\* made good by the first refresh in the monitor after both of them.
THEOREM ProxyTablesComplete == Spec => []TablesComplete
<1>1. AccessInv => TablesComplete
  BY FilledTables DEF AccessInv
<1> QED BY <1>1, AccessInvariant, PTL

\* However many connections check their requests while the tables are rebuilt,
\* by one thread at a time, and the limits of the day computed by one: what is
\* forwarded was let pass by the tables as a whole at some moment since it
\* arrived.
THEOREM ProxyForwardsAllowed == Spec => ForwardedWasAllowed
<1> DEFINE Forwarding ==
      \A c \in Connections : Len(server'[c]) > Len(server[c]) =>
        \/ allowed[c]
        \/ Has("prerun") \/ Has("limits") \/ (Has("reload") /\ Has("flush"))
<1>1. ASSUME AccessInv, [Next]_vars PROVE [Forwarding]_vars
  <2>1. ASSUME NEW c \in Connections, Next, Len(server'[c]) > Len(server[c]),
               OneRebuilder
        PROVE  allowed[c]
    <3>1. con[c].pc = "send" /\ ~con[c].denied
      BY <1>1, <2>1, OnlyForwardSends DEF AccessInv
    <3> QED BY <1>1, <2>1, <3>1 DEF AccessInv, CheckInv, CheckedSoFar
  <2> QED BY <1>1, <2>1 DEF OneRebuilder
<1>2. Spec => [][Forwarding]_vars
  BY <1>1, AccessInvariant, PTL DEF Spec
<1> QED BY <1>2 DEF ForwardedWasAllowed

=============================================================================
