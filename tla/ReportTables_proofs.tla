------------------------- MODULE ReportTables_proofs -------------------------
(***************************************************************************)
(* Proofs about ReportTables, for any sessions, users, pages, hash codes   *)
(* and settings.                                                           *)
(***************************************************************************)
EXTENDS ReportTables, Sums_proofs

\* The counts of a key for a session: what came, and what is in url_log, in the
\* protocol and in the text that is to be written.
Came(s, k) == CountOfKey(logged[s], k)
InLog(s, k) == CountOfKey(urlLog[s], k)
InText(s, k) == CountOfKey(TextOf(s), k)
InNew(s, k) == CountOfKey(texts[s], k)

\* What the protocol will have when the texts are erased and written, and what
\* it should have.
Protocol(s, k) ==
  (IF pc \in {"erase", "write"} THEN InNew(s, k) ELSE 0)
    + (IF pc = "erase" /\ s \in left THEN 0 ELSE InText(s, k))

Due(s, k) == IF pc \in {"sleep", "parse"} THEN Came(s, k) - InLog(s, k) ELSE Came(s, k)

\* The sessions that are parsed, and what an item counts.
Parsed == LogSessions \ left
ItemCount(k) == IF protoLogs[k] = NoItem THEN 0 ELSE protoLogs[k].count
ParsedCount(s, k) == IF s \in Parsed THEN InLog(s, k) + InText(s, k) ELSE 0

\* What the point of Aggregate() says about the local variables.
PointInv ==
  /\ pc \in {"sleep", "parse", "erase", "write"} => left \in SUBSET Sessions
  /\ pc = "popularity" => left \in SUBSET LogRows
  /\ pc \in {"parse", "erase"} => setting.merging
  /\ pc = "parse" => texts = urlLog /\ left \in SUBSET LogSessions
  /\ pc \in {"erase", "write"} => \A s \in Sessions \ left : texts[s] = Nothing
  /\ users = Users /\ pc # "sleep" => \A s \in LogSessions : UserOf[s] \in uids

\* While sessions are parsed, the item of a key shows a page that has it,
\* belongs to a session that was parsed and has the key, and counts what those
\* have.
ItemInv ==
  pc = "parse" =>
    \A k \in Keys :
      /\ protoLogs[k] # NoItem =>
           /\ setting.keyOf[protoLogs[k].page] = k
           /\ ParsedCount(protoLogs[k].sid, k) > 0
      /\ ItemCount(k) = Sum(Sessions, [s \in Sessions |-> ParsedCount(s, k)])

\* A key that only one session has.
Own(s, k) ==
  ~setting.merging \/ \A t \in Sessions \ {s} : Came(t, k) = 0

ProtocolInv ==
  \A k \in Keys :
    /\ Sum(Sessions, [s \in Sessions |-> Protocol(s, k)])
         >= Sum(Sessions, [s \in Sessions |-> Due(s, k)])
    /\ users = Users =>
         \A s \in Sessions :
           Own(s, k) =>
             /\ Protocol(s, k) = Due(s, k)
             /\ setting.merging => \A t \in Sessions \ {s} : Protocol(t, k) = 0

\* The visits that are rated: those that have left url_log, and those that the
\* loop has treated.
Waiting(x) ==
  IF pc = "popularity" /\ x \notin left THEN 0 ELSE urlLog[x[1]][x[2]]

Taken(x) == logged[x[1]][x[2]] - Waiting(x)
Mine(url, u) == {x \in Sessions \X Pages : UserOf[x[1]] = u /\ UrlOf[x[2]] = url}

\* The rating of a url by a user, and the visits that it should have.
Rating(url, u) == Sum(Months, [m \in Months |-> popularity[<<url, u, m>>]])
Visits(url, u) == Sum(Mine(url, u), [x \in Mine(url, u) |-> Taken(x)])

\* The rating of a page and a user, as far as the visits were taken over.
RatingInv ==
  \A url \in Urls, u \in Users :
    /\ \A m \in Months : popularity[<<url, u, m>>] > 0 => m <= month
    /\ users = Users =>
         /\ Rating(url, u) >= Visits(url, u)
         /\ month = 1 => Rating(url, u) = Visits(url, u)

\* Nothing is in url_log that did not come.
LogInv == \A s \in Sessions, p \in Pages : urlLog[s][p] <= logged[s][p]

ReportInv == TypeOK /\ LogInv /\ PointInv /\ ItemInv /\ ProtocolInv /\ RatingInv

-----------------------------------------------------------------------------
(* Counts of a key *)

\* The types of what is constant.
LEMMA SettingTypes ==
  ASSUME TypeOK
  PROVE  /\ setting \in Setting /\ setting.keyOf \in [Pages -> Keys]
         /\ IsFiniteSet(Sessions) /\ IsFiniteSet(Pages)
         /\ MaxResponses \in Nat /\ MaxMonths \in Nat \ {0}
BY ReportAssumption DEF TypeOK, Setting

\* What is counted are numbers for each page.
LEMMA TextTypes ==
  ASSUME TypeOK, NEW s \in Sessions
  PROVE  /\ logged[s] \in Text /\ urlLog[s] \in Text
         /\ TextOf(s) \in Text /\ texts[s] \in Text
<1>1. 0..MaxResponses \subseteq Nat BY SettingTypes
<1>2. logged[s] \in [Pages -> 0..MaxResponses] /\ urlLog[s] \in [Pages -> 0..MaxResponses]
  BY DEF TypeOK
<1>3. Nothing \in Text BY DEF Nothing, Text
<1>4. logged[s] \in Text /\ urlLog[s] \in Text BY <1>1, <1>2 DEF Text
<1> QED BY <1>3, <1>4 DEF TypeOK, TextOf

\* The pages of a key are finitely many.
LEMMA PagesOfKey ==
  ASSUME NEW k
  PROVE  PagesOf(k) \in SUBSET Pages /\ IsFiniteSet(PagesOf(k))
BY FS_Subset, ReportAssumption DEF PagesOf

\* A count is a number, and not zero if a page of the key is counted.
LEMMA CountType ==
  ASSUME NEW t \in Text, NEW k
  PROVE  /\ CountOfKey(t, k) \in Nat
         /\ CountOfKey(t, k) > 0 <=> \E p \in PagesOf(k) : t[p] > 0
<1>1. \A p \in PagesOf(k) : t[p] \in Nat BY PagesOfKey DEF Text
<1>2. CountOfKey(t, k) \in Nat BY <1>1, PagesOfKey, SumNat DEF CountOfKey
<1>3. ASSUME NEW p \in PagesOf(k), t[p] > 0 PROVE CountOfKey(t, k) > 0
  <2>1. t[p] <= Sum(PagesOf(k), t) BY <1>1, PagesOfKey, SumBounds
  <2> QED BY <1>1, <1>2, <1>3, <2>1 DEF CountOfKey
<1>4. ASSUME \A p \in PagesOf(k) : ~(t[p] > 0) PROVE ~(CountOfKey(t, k) > 0)
  <2>1. \A p \in PagesOf(k) : t[p] = 0 BY <1>1, <1>4
  <2> QED BY <2>1, PagesOfKey, SumZero DEF CountOfKey
<1> QED BY <1>2, <1>3, <1>4

\* Nothing is counted in no text.
LEMMA CountNothing ==
  ASSUME NEW k PROVE Nothing \in Text /\ CountOfKey(Nothing, k) = 0
<1>1. \A p \in PagesOf(k) : Nothing[p] = 0 BY PagesOfKey DEF Nothing
<1>2. CountOfKey(Nothing, k) = 0 BY <1>1, PagesOfKey, SumZero DEF CountOfKey
<1> QED BY <1>2 DEF Nothing, Text

\* Texts that are put together add their counts.
LEMMA CountPlus ==
  ASSUME NEW f \in Text, NEW g \in Text, NEW h, \A p \in Pages : h[p] = f[p] + g[p], NEW k
  PROVE  CountOfKey(h, k) = CountOfKey(f, k) + CountOfKey(g, k)
<1>1. \A p \in PagesOf(k) : f[p] \in Int /\ g[p] \in Int /\ h[p] = f[p] + g[p]
  BY PagesOfKey DEF Text
<1> QED BY <1>1, PagesOfKey, SumPlus DEF CountOfKey

\* Texts with the same numbers have the same counts.
LEMMA CountSame ==
  ASSUME NEW f, NEW g, \A p \in Pages : f[p] = g[p], NEW k
  PROVE  CountOfKey(f, k) = CountOfKey(g, k)
<1>1. \A p \in PagesOf(k) : f[p] = g[p] BY PagesOfKey
<1> QED BY <1>1, PagesOfKey, SumSame DEF CountOfKey

\* The counts are numbers, and no more is in url_log than came.
LEMMA CountTypes ==
  ASSUME TypeOK, NEW s \in Sessions, NEW k
  PROVE  /\ Came(s, k) \in Nat /\ InLog(s, k) \in Nat
         /\ InText(s, k) \in Nat /\ InNew(s, k) \in Nat
BY TextTypes, CountType DEF Came, InLog, InText, InNew

\* What a complete aggregation has taken is what came and is not in url_log.
LEMMA AggregatedCount ==
  ASSUME TypeOK, LogInv, NEW s \in Sessions, NEW k
  PROVE  /\ CountOfKey([p \in Pages |-> Aggregated(s, p)], k) = Came(s, k) - InLog(s, k)
         /\ InLog(s, k) <= Came(s, k)
<1> DEFINE a == [p \in Pages |-> Aggregated(s, p)]
<1>1. logged[s] \in Text /\ urlLog[s] \in Text BY TextTypes
<1>2. \A p \in Pages : a[p] \in Nat /\ logged[s][p] = a[p] + urlLog[s][p]
  BY <1>1 DEF Aggregated, LogInv, Text
<1>3. a \in Text BY <1>2 DEF Text
<1> HIDE DEF a
<1>4. CountOfKey(logged[s], k) = CountOfKey(a, k) + CountOfKey(urlLog[s], k)
  BY <1>1, <1>2, <1>3, CountPlus
<1>5. CountOfKey(a, k) \in Nat /\ CountOfKey(urlLog[s], k) \in Nat
  BY <1>1, <1>3, CountType
<1> QED BY <1>4, <1>5 DEF a, Came, InLog

\* A session without a row in url_log has no count there.
LEMMA NoRows ==
  ASSUME TypeOK, NEW s \in Sessions, s \notin LogSessions, NEW k
  PROVE  InLog(s, k) = 0 /\ urlLog[s] = Nothing
<1>1. urlLog[s] \in Text BY TextTypes
<1>2. ASSUME NEW p \in Pages PROVE urlLog[s][p] = 0
  <2>1. <<s, p>> \notin LogRows BY DEF LogSessions
  <2>2. ~(urlLog[s][p] > 0) BY <2>1 DEF LogRows
  <2> QED BY <1>1, <2>2 DEF Text
<1>3. urlLog[s] = Nothing BY <1>1, <1>2 DEF Nothing, Text
<1> QED BY <1>3, CountNothing DEF InLog

\* Counts change only with what they count.
LEMMA CountsKept ==
  ASSUME setting' = setting, NEW s, NEW k
  PROVE  /\ CountOfKey(logged[s], k)' = CountOfKey(logged'[s], k)
         /\ InLog(s, k)' = CountOfKey(urlLog'[s], k)
         /\ InText(s, k)' = CountOfKey(TextOf(s)', k)
         /\ InNew(s, k)' = CountOfKey(texts'[s], k)
         /\ Came(s, k)' = CountOfKey(logged'[s], k)
         /\ protocols'[s] = protocols[s] => InText(s, k)' = InText(s, k)
BY DEF CountOfKey, PagesOf, Came, InLog, InText, InNew, TextOf, Nothing

-----------------------------------------------------------------------------
(* Types *)

\* What is known of the sessions and rows in url_log.
LEMMA RowTypes == LogRows \in SUBSET (Sessions \X Pages) /\ LogSessions \in SUBSET Sessions
BY DEF LogRows, LogSessions

\* An item that a text is appended to, or made of it.
LEMMA AppendType ==
  ASSUME TypeOK, NEW P, \A k \in Keys : P[k] = NoItem \/ P[k] \in Item,
         NEW s \in Sessions, NEW t \in Text, NEW first \in [Keys -> Pages], NEW k \in Keys
  PROVE  LET A == Append(P, s, t, first)
             n == CountOfKey(t, k)
         IN  /\ A[k] = NoItem \/ A[k] \in Item
             /\ n = 0 => A[k] = P[k]
             /\ n # 0 /\ P[k] = NoItem => A[k] = [sid |-> s, page |-> first[k], count |-> n]
             /\ n # 0 /\ P[k] # NoItem => A[k] = [P[k] EXCEPT !.count = @ + n]
             /\ n # 0 => A[k] # NoItem
<1> DEFINE n == CountOfKey(t, k)
<1>1. n \in Nat BY CountType
<1>2. Append(P, s, t, first)[k] =
        IF n = 0 THEN P[k]
        ELSE IF P[k] = NoItem THEN [sid |-> s, page |-> first[k], count |-> n]
        ELSE [P[k] EXCEPT !.count = @ + n]
  BY DEF Append
<1> HIDE DEF n
<1>3. n # 0 => [sid |-> s, page |-> first[k], count |-> n] \in Item
  BY <1>1 DEF Item
<1>4. P[k] # NoItem => [P[k] EXCEPT !.count = @ + n] \in Item
  BY <1>1 DEF Item
<1> QED BY <1>1, <1>2, <1>3, <1>4, ItemAssumption DEF n

\* The steps keep the types.
LEMMA TypeStep ==
  ASSUME TypeOK, LogInv, PointInv, ItemInv, Step, setting' = setting
  PROVE  TypeOK'
<1>0. /\ setting \in Setting /\ MaxResponses \in Nat /\ MaxMonths \in Nat \ {0}
      /\ MaxAggregations \in Nat /\ setting' \in Settings
      /\ UserOf \in [Sessions -> Users] /\ UrlOf \in [Pages -> Urls]
  BY SettingTypes, ReportAssumption DEF TypeOK
<1>01. Nothing \in Text BY CountNothing
<1>1. ASSUME NEW s \in Sessions, NEW p \in Pages, Log(s, p) PROVE TypeOK'
  <2>1. logged[s] \in Text /\ urlLog[s] \in Text BY TextTypes
  <2>2. logged[s][p] <= Sum(Pages, logged[s]) BY <2>1, SettingTypes, SumBounds DEF Text
  <2>3. Sum(Pages, logged[s]) \in Nat BY <2>1, SettingTypes, SumNat DEF Text
  <2>4. /\ logged[s][p] + 1 \in 0..MaxResponses /\ urlLog[s][p] + 1 \in 0..MaxResponses
    BY <1>0, <1>1, <2>1, <2>2, <2>3 DEF Log, LogInv, Text
  <2>5. /\ logged' \in [Sessions -> [Pages -> 0..MaxResponses]]
        /\ urlLog' \in [Sessions -> [Pages -> 0..MaxResponses]]
    BY <1>1, <2>4 DEF Log, TypeOK
  <2> QED BY <1>0, <1>1, <2>5 DEF Log, TypeOK, localVars
<1>2. ASSUME NEW u \in Users, DeleteUser(u) PROVE TypeOK'
  BY <1>0, <1>2 DEF DeleteUser, TypeOK, localVars
<1>3. CASE MonthPasses
  BY <1>0, <1>3 DEF MonthPasses, TypeOK, localVars, Months
<1>4. CASE AggregateSelect
  <2>1. texts' \in [Sessions -> Text]
    <3>1. \A s \in Sessions : urlLog[s] \in Text BY TextTypes
    <3> QED BY <1>4, <3>1 DEF AggregateSelect, TypeOK
  <2>2. periods' \in 0..MaxAggregations BY <1>0, <1>4 DEF AggregateSelect, TypeOK
  <2> QED BY <1>0, <1>4, <2>1, <2>2, RowTypes DEF AggregateSelect, TypeOK, dataVars
<1>5. ASSUME NEW s \in Sessions, Parse(s) PROVE TypeOK'
  <2>1. PICK first \in [Keys -> Pages] : protoLogs' = Merged(protoLogs, s, first)
    BY <1>5 DEF Parse
  <2> DEFINE P == Append(protoLogs, s, texts[s], first)
  <2>2. texts[s] \in Text /\ TextOf(s) \in Text BY TextTypes
  <2>3. \A k \in Keys : P[k] = NoItem \/ P[k] \in Item
    BY <2>2, AppendType DEF TypeOK
  <2>4. \A k \in Keys : protoLogs'[k] = NoItem \/ protoLogs'[k] \in Item
    <3> HIDE DEF P
    <3>1. protoLogs' = Append(P, s, TextOf(s), first) BY <2>1 DEF P, Merged
    <3> QED BY <2>2, <2>3, <3>1, AppendType
  <2>5. DOMAIN protoLogs' = Keys BY <2>1 DEF Merged, Append
  <2>6. left' \in SUBSET Sessions BY <1>5 DEF Parse, PointInv
  <2> QED BY <1>0, <1>5, <2>4, <2>5, <2>6 DEF Parse, TypeOK, dataVars
<1>6. CASE Regroup
  <2> DEFINE S(s, p) == {k \in ItemsOf(s) : protoLogs[k].page = p}
             count(s) == [k \in ItemsOf(s) |-> protoLogs[k].count]
  <2>1. ASSUME NEW s \in Sessions, NEW p \in Pages PROVE Sum(S(s, p), count(s)) \in Nat
    <3>1. S(s, p) \subseteq {setting.keyOf[p]} BY <1>6 DEF Regroup, ItemInv, ItemsOf
    <3>2. IsFiniteSet(S(s, p)) BY <3>1, FS_Singleton, FS_Subset
    <3>3. \A k \in S(s, p) : count(s)[k] \in Nat
      BY DEF ItemsOf, TypeOK, Item
    <3> HIDE DEF S, count
    <3> QED BY <3>2, <3>3, SumNat
  <2>2. texts' \in [Sessions -> Text]
    <3> HIDE DEF S, count
    <3>1. texts' = [s \in Sessions |-> [p \in Pages |-> Sum(S(s, p), count(s))]]
      BY <1>6 DEF Regroup, S, count
    <3> QED BY <2>1, <3>1 DEF Text
  <2>3. Owners \in SUBSET Sessions BY DEF Owners
  <2> QED BY <1>0, <1>6, <2>2, <2>3 DEF Regroup, TypeOK, dataVars
<1>7. CASE Erase
  BY <1>0, <1>01, <1>7 DEF Erase, Erased, TypeOK
<1>8. CASE Write
  <2>1. \A s \in Sessions : TextOf(s) \in Text /\ texts[s] \in Text BY TextTypes
  <2>2. \A s \in Sessions : [p \in Pages |-> TextOf(s)[p] + texts[s][p]] \in Text
    BY <2>1 DEF Text
  <2>3. /\ DOMAIN protocols' = Sessions
        /\ \A s \in Sessions : protocols'[s] = NoProtocol \/ protocols'[s] \in Text
    BY <1>8, <2>2 DEF Write, TypeOK
  <2> QED BY <1>0, <1>8, <2>3, RowTypes DEF Write, TypeOK
<1>9. ASSUME NEW s \in Sessions, NEW p \in Pages, UpdatePopularity(s, p) PROVE TypeOK'
  <2>1. urlLog[s][p] \in Nat BY TextTypes DEF Text
  <2>2. popularity' \in [Urls \X Users \X Months -> Nat]
    BY <1>9, <2>1 DEF UpdatePopularity, Rated, TypeOK
  <2>3. left' \in SUBSET (Sessions \X Pages)
    BY <1>9, RowTypes DEF UpdatePopularity, PointInv
  <2> QED BY <1>0, <1>9, <2>2, <2>3 DEF UpdatePopularity, TypeOK
<1>10. CASE UidIsNull
  BY <1>0, <1>01, <1>10 DEF UidIsNull, Sleep, TypeOK, dataVars
<1>11. CASE AggregateDelete
  <2>1. Nothing \in [Pages -> 0..MaxResponses] BY <1>0 DEF Nothing
  <2>2. urlLog' \in [Sessions -> [Pages -> 0..MaxResponses]]
    BY <1>11, <2>1 DEF AggregateDelete
  <2> QED BY <1>0, <1>01, <1>11, <2>2 DEF AggregateDelete, Sleep, TypeOK
<1> QED
  BY <1>1, <1>2, <1>3, <1>4, <1>5, <1>6, <1>7, <1>8, <1>9, <1>10, <1>11 DEF Step, Aggregate

-----------------------------------------------------------------------------
(* The log, and where Aggregate() is *)

\* The rows are those of url_log.
LEMMA RowsKept ==
  urlLog' = urlLog => LogRows' = LogRows /\ LogSessions' = LogSessions
BY DEF LogRows, LogSessions

\* What is in url_log came.
LEMMA LogStep ==
  ASSUME TypeOK, LogInv, Step
  PROVE  LogInv'
<1>1. ASSUME NEW s \in Sessions, NEW p \in Pages, Log(s, p) PROVE LogInv'
  <2>1. logged' = [logged EXCEPT ![s][p] = @ + 1] /\ urlLog' = [urlLog EXCEPT ![s][p] = @ + 1]
    BY <1>1 DEF Log
  <2>2. ASSUME NEW x \in Sessions, NEW q \in Pages PROVE urlLog'[x][q] <= logged'[x][q]
    <3>1. /\ logged \in [Sessions -> [Pages -> 0..MaxResponses]]
          /\ urlLog \in [Sessions -> [Pages -> 0..MaxResponses]]
      BY DEF TypeOK
    <3>2. /\ logged'[x][q] = IF x = s /\ q = p THEN logged[x][q] + 1 ELSE logged[x][q]
          /\ urlLog'[x][q] = IF x = s /\ q = p THEN urlLog[x][q] + 1 ELSE urlLog[x][q]
      BY <2>1, <3>1
    <3>3. logged[x][q] \in Nat /\ urlLog[x][q] \in Nat BY TextTypes DEF Text
    <3> QED BY <3>2, <3>3 DEF LogInv
  <2> QED BY <2>2 DEF LogInv
<1>2. CASE AggregateDelete
  <2>1. \A s \in Sessions, p \in Pages : urlLog'[s][p] = 0 /\ logged'[s][p] \in Nat
    BY <1>2, TextTypes DEF AggregateDelete, Nothing, Text
  <2> QED BY <2>1 DEF LogInv
<1>3. CASE UNCHANGED <<logged, urlLog>> BY <1>3 DEF LogInv
<1>4. CASE \/ AggregateSelect \/ Regroup \/ Erase \/ Write \/ UidIsNull \/ MonthPasses
           \/ \E s \in Sessions : Parse(s)
           \/ \E u \in Users : DeleteUser(u)
           \/ \E s \in Sessions, p \in Pages : UpdatePopularity(s, p)
  BY <1>3, <1>4 DEF AggregateSelect, Regroup, Erase, Write, UidIsNull, MonthPasses, Parse,
                    DeleteUser, UpdatePopularity, dataVars
<1> QED BY <1>1, <1>2, <1>4 DEF Step, Aggregate

\* The steps of Aggregate() find what they need.
LEMMA PointStep ==
  ASSUME TypeOK, PointInv, Step, setting' = setting
  PROVE  PointInv'
<1>1. CASE \E s \in Sessions, p \in Pages : Log(s, p)
  BY <1>1 DEF Log, PointInv, localVars
<1>2. ASSUME NEW u \in Users, DeleteUser(u) PROVE PointInv'
  <2>1. users' # Users BY <1>2 DEF DeleteUser
  <2> QED BY <1>2, <2>1, RowsKept DEF DeleteUser, PointInv, localVars
<1>3. CASE MonthPasses BY <1>3, RowsKept DEF MonthPasses, PointInv, localVars
<1>4. CASE AggregateSelect
  <2>1. \A s \in Sessions \ LogSessions : urlLog[s] = Nothing BY NoRows
  <2>2. users = Users => \A s \in LogSessions : UserOf[s] \in users \cap {UserOf[x] : x \in LogSessions}
    BY RowTypes, ReportAssumption
  <2> QED BY <1>4, <2>1, <2>2, RowTypes, RowsKept DEF AggregateSelect, PointInv, dataVars
<1>5. ASSUME NEW s \in Sessions, Parse(s) PROVE PointInv'
  BY <1>5, RowsKept DEF Parse, PointInv, dataVars
<1>6. CASE Regroup
  <2>1. ASSUME NEW s \in Sessions \ Owners PROVE texts'[s] = Nothing
    <3>1. ItemsOf(s) = {} BY DEF Owners
    <3>2. \A p \in Pages :
            Sum({k \in ItemsOf(s) : protoLogs[k].page = p},
                [k \in ItemsOf(s) |-> protoLogs[k].count]) = 0
      BY <3>1, SumEmpty
    <3>3. texts'[s] = [p \in Pages |->
            Sum({k \in ItemsOf(s) : protoLogs[k].page = p},
                [k \in ItemsOf(s) |-> protoLogs[k].count])]
      BY <1>6 DEF Regroup
    <3> QED BY <3>2, <3>3 DEF Nothing
  <2> QED BY <1>6, <2>1, RowsKept DEF Regroup, PointInv, Owners, dataVars
<1>7. CASE Erase BY <1>7, RowsKept DEF Erase, PointInv
<1>8. CASE Write BY <1>8, RowsKept DEF Write, PointInv
<1>9. ASSUME NEW s \in Sessions, NEW p \in Pages, UpdatePopularity(s, p) PROVE PointInv'
  BY <1>9, RowsKept DEF UpdatePopularity, PointInv
<1>10. CASE UidIsNull \/ AggregateDelete
  BY <1>10 DEF UidIsNull, AggregateDelete, Sleep, PointInv
<1> QED
  BY <1>1, <1>2, <1>3, <1>4, <1>5, <1>6, <1>7, <1>8, <1>9, <1>10 DEF Step, Aggregate

-----------------------------------------------------------------------------
(* Items *)

\* parseAppendProtocolLog for both texts of a session: a new item is that of the
\* session and shows a page of the key; in any case the counts are added.
LEMMA MergedItem ==
  ASSUME TypeOK, NEW s \in Sessions, texts[s] = urlLog[s], NEW first \in [Keys -> Pages],
         \A k \in Keys :
            LET new == {p \in PagesOf(k) : texts[s][p] > 0}
                old == {p \in PagesOf(k) : TextOf(s)[p] > 0}
            IN  first[k] \in IF new # {} THEN new ELSE IF old # {} THEN old ELSE Pages,
         NEW k \in Keys
  PROVE  LET M == Merged(protoLogs, s, first)
             n == InLog(s, k) + InText(s, k)
         IN  /\ (IF M[k] = NoItem THEN 0 ELSE M[k].count) = ItemCount(k) + n
             /\ M[k] # NoItem =>
                  \/ /\ protoLogs[k] # NoItem
                     /\ M[k].sid = protoLogs[k].sid /\ M[k].page = protoLogs[k].page
                  \/ M[k].sid = s /\ n > 0 /\ setting.keyOf[M[k].page] = k
<1> DEFINE A == Append(protoLogs, s, texts[s], first)
           M == Append(A, s, TextOf(s), first)
           a == InLog(s, k)
           b == InText(s, k)
<1>1. Merged(protoLogs, s, first) = M BY DEF Merged
<1>2. a \in Nat /\ b \in Nat /\ texts[s] \in Text /\ TextOf(s) \in Text
  BY CountTypes, TextTypes
<1>3. CountOfKey(texts[s], k) = a /\ CountOfKey(TextOf(s), k) = b BY DEF InLog, InText
<1>4. a + b > 0 => setting.keyOf[first[k]] = k
  <2>1. a > 0 <=> \E p \in PagesOf(k) : texts[s][p] > 0 BY <1>2, <1>3, CountType
  <2>2. b > 0 <=> \E p \in PagesOf(k) : TextOf(s)[p] > 0 BY <1>2, <1>3, CountType
  <2> DEFINE new == {p \in PagesOf(k) : texts[s][p] > 0}
             old == {p \in PagesOf(k) : TextOf(s)[p] > 0}
  <2>3. first[k] \in IF new # {} THEN new ELSE IF old # {} THEN old ELSE Pages OBVIOUS
  <2>4. a > 0 => new # {} BY <2>1
  <2>5. b > 0 => old # {} BY <2>2
  <2>6. a + b > 0 => a > 0 \/ b > 0 BY <1>2
  <2>7. a + b > 0 => first[k] \in PagesOf(k)
    <3>1. new \subseteq PagesOf(k) /\ old \subseteq PagesOf(k) OBVIOUS
    <3> HIDE DEF new, old, a, b
    <3> QED BY <2>3, <2>4, <2>5, <2>6, <3>1
  <2> QED BY <2>7 DEF PagesOf
<1>5. \A j \in Keys : protoLogs[j] = NoItem \/ protoLogs[j] \in Item BY DEF TypeOK
<1>6. ASSUME NEW j \in Keys PROVE A[j] = NoItem \/ A[j] \in Item
  BY <1>2, <1>5, AppendType
<1>7. /\ A[k] = NoItem \/ A[k] \in Item
      /\ a = 0 => A[k] = protoLogs[k]
      /\ a # 0 /\ protoLogs[k] = NoItem => A[k] = [sid |-> s, page |-> first[k], count |-> a]
      /\ a # 0 /\ protoLogs[k] # NoItem => A[k] = [protoLogs[k] EXCEPT !.count = @ + a]
      /\ a # 0 => A[k] # NoItem
  BY <1>2, <1>3, <1>5, AppendType
<1>8. /\ M[k] = NoItem \/ M[k] \in Item
      /\ b = 0 => M[k] = A[k]
      /\ b # 0 /\ A[k] = NoItem => M[k] = [sid |-> s, page |-> first[k], count |-> b]
      /\ b # 0 /\ A[k] # NoItem => M[k] = [A[k] EXCEPT !.count = @ + b]
      /\ b # 0 => M[k] # NoItem
  <2> HIDE DEF A
  <2> QED BY <1>2, <1>3, <1>6, AppendType
<1> HIDE DEF A, M, a, b
<1>9. /\ A[k] # NoItem => A[k].count = ItemCount(k) + a
      /\ A[k] = NoItem => a = 0 /\ protoLogs[k] = NoItem
      /\ A[k] # NoItem =>
           \/ /\ protoLogs[k] # NoItem
              /\ A[k].sid = protoLogs[k].sid /\ A[k].page = protoLogs[k].page
           \/ A[k].sid = s /\ a > 0 /\ A[k].page = first[k]
  BY <1>2, <1>7, <1>5 DEF ItemCount, Item
<1>10. /\ M[k] # NoItem => M[k].count = ItemCount(k) + a + b
       /\ M[k] = NoItem => a = 0 /\ b = 0 /\ protoLogs[k] = NoItem
       /\ M[k] # NoItem =>
            \/ /\ protoLogs[k] # NoItem
               /\ M[k].sid = protoLogs[k].sid /\ M[k].page = protoLogs[k].page
            \/ M[k].sid = s /\ a + b > 0 /\ M[k].page = first[k]
  <2>1. ItemCount(k) \in Nat BY <1>5 DEF ItemCount, Item
  <2>2. CASE A[k] = NoItem
    <3>1. a = 0 /\ protoLogs[k] = NoItem /\ ItemCount(k) = 0 BY <1>9, <2>2 DEF ItemCount
    <3> QED BY <1>2, <1>8, <2>2, <3>1
  <2>3. CASE A[k] # NoItem
    <3>1. A[k] \in Item /\ A[k].count = ItemCount(k) + a BY <1>7, <1>9, <2>3
    <3>2. M[k] # NoItem BY <1>8, <2>3
    <3>3. M[k].count = A[k].count + b /\ M[k].sid = A[k].sid /\ M[k].page = A[k].page
      <4>1. A[k].count \in Nat BY <3>1 DEF Item
      <4>2. CASE b = 0 BY <1>8, <4>1, <4>2
      <4>3. CASE b # 0
        <5>1. M[k] = [A[k] EXCEPT !.count = @ + b] BY <1>8, <2>3, <4>3
        <5> QED BY <3>1, <5>1 DEF Item
      <4> QED BY <4>2, <4>3
    <3> QED BY <1>2, <1>9, <2>1, <2>3, <3>1, <3>2, <3>3
  <2> QED BY <2>2, <2>3
<1>11. ItemCount(k) \in Nat /\ (protoLogs[k] = NoItem => ItemCount(k) = 0)
  BY <1>5 DEF ItemCount, Item
<1>12. (IF M[k] = NoItem THEN 0 ELSE M[k].count) = ItemCount(k) + (a + b)
  BY <1>2, <1>10, <1>11
<1> QED BY <1>1, <1>4, <1>10, <1>12 DEF a, b

\* While the sessions are parsed, the items count what the parsed ones have.
LEMMA ItemStep ==
  ASSUME TypeOK, PointInv, ItemInv, Step, setting' = setting
  PROVE  ItemInv'
<1>1. CASE AggregateSelect
  <2>1. \A s \in Sessions, k \in Keys : ParsedCount(s, k)' = 0
    BY <1>1, RowsKept DEF AggregateSelect, ParsedCount, Parsed, dataVars
  <2>2. \A k \in Keys : protoLogs'[k] = NoItem BY <1>1 DEF AggregateSelect
  <2>3. ASSUME NEW k \in Keys
        PROVE  ItemCount(k)' = Sum(Sessions, [s \in Sessions |-> ParsedCount(s, k)'])
    <3> DEFINE f == [s \in Sessions |-> ParsedCount(s, k)']
    <3>1. \A s \in Sessions : f[s] = 0 BY <2>1
    <3>2. Sum(Sessions, f) = 0
      <4> HIDE DEF f
      <4> QED BY <3>1, SumZero, ReportAssumption
    <3> QED BY <2>2, <3>2 DEF ItemCount
  <2> QED BY <2>2, <2>3 DEF ItemInv
<1>2. ASSUME NEW s \in Sessions, Parse(s) PROVE ItemInv'
  <2>1. /\ pc = "parse" /\ s \in left /\ left' = left \ {s}
        /\ UNCHANGED <<urlLog, protocols, texts, setting>>
    BY <1>2 DEF Parse, dataVars
  <2>2. PICK first \in [Keys -> Pages] :
          /\ \A k \in Keys :
               LET new == {p \in PagesOf(k) : texts[s][p] > 0}
                   old == {p \in PagesOf(k) : TextOf(s)[p] > 0}
               IN  first[k] \in IF new # {} THEN new ELSE IF old # {} THEN old ELSE Pages
          /\ protoLogs' = Merged(protoLogs, s, first)
    BY <1>2 DEF Parse
  <2>3. texts[s] = urlLog[s] /\ s \in LogSessions /\ left \subseteq LogSessions
    BY <2>1 DEF PointInv
  <2>4. Parsed' = Parsed \cup {s} /\ s \notin Parsed
    BY <2>1, <2>3, RowsKept DEF Parsed
  <2>5. \A x \in Sessions, k \in Keys :
          ParsedCount(x, k)' = IF x = s THEN InLog(s, k) + InText(s, k) ELSE ParsedCount(x, k)
    BY <2>1, <2>4, CountsKept DEF ParsedCount, InLog
  <2>6. \A x \in Sessions, k \in Keys : ParsedCount(x, k) \in Nat
    BY CountTypes DEF ParsedCount
  <2>7. ASSUME NEW k \in Keys
        PROVE  /\ protoLogs'[k] # NoItem =>
                    /\ setting.keyOf[protoLogs'[k].page] = k
                    /\ ParsedCount(protoLogs[k].sid, k)' > 0
               /\ ItemCount(k)' = Sum(Sessions, [x \in Sessions |-> ParsedCount(x, k)'])
    <3> DEFINE n == InLog(s, k) + InText(s, k)
               f == [x \in Sessions |-> ParsedCount(x, k)]
               g == [x \in Sessions |-> ParsedCount(x, k)']
    <3>1. /\ (IF protoLogs'[k] = NoItem THEN 0 ELSE protoLogs'[k].count) = ItemCount(k) + n
          /\ protoLogs'[k] # NoItem =>
               \/ /\ protoLogs[k] # NoItem
                  /\ protoLogs'[k].sid = protoLogs[k].sid
                  /\ protoLogs'[k].page = protoLogs[k].page
               \/ protoLogs'[k].sid = s /\ n > 0 /\ setting.keyOf[protoLogs'[k].page] = k
      BY <2>2, <2>3, MergedItem
    <3>2. n \in Nat /\ f[s] = 0 /\ g[s] = n
      BY <2>4, <2>5, CountTypes DEF ParsedCount
    <3>3. Sum(Sessions, g) = Sum(Sessions, f) - f[s] + g[s]
      <4>1. \A x \in Sessions : f[x] \in Int /\ g[x] \in Int BY <2>5, <2>6, <3>2
      <4>2. \A x \in Sessions \ {s} : f[x] = g[x] BY <2>5
      <4> HIDE DEF f, g
      <4> QED BY <4>1, <4>2, SumChange, ReportAssumption
    <3>4. ItemCount(k) = Sum(Sessions, f) BY <2>1 DEF ItemInv
    <3>5. Sum(Sessions, f) \in Nat
      <4>1. \A x \in Sessions : f[x] \in Nat BY <2>6
      <4> HIDE DEF f
      <4> QED BY <4>1, SumNat, ReportAssumption
    <3>6. ItemCount(k)' = ItemCount(k) + n BY <3>1 DEF ItemCount
    <3>7. ASSUME NEW x \in Sessions, x = protoLogs'[k].sid
          PROVE  ParsedCount(protoLogs[k].sid, k)' = ParsedCount(x, k)'
      BY <3>7 DEF ParsedCount, Parsed, InLog, InText, TextOf
    <3>8. protoLogs'[k] # NoItem =>
            /\ setting.keyOf[protoLogs'[k].page] = k
            /\ ParsedCount(protoLogs[k].sid, k)' > 0
      <4>1. CASE /\ protoLogs[k] # NoItem
                 /\ protoLogs'[k].sid = protoLogs[k].sid
                 /\ protoLogs'[k].page = protoLogs[k].page
        <5>1. PICK x \in Sessions : x = protoLogs[k].sid BY <4>1 DEF TypeOK, Item
        <5>2. setting.keyOf[protoLogs[k].page] = k /\ ParsedCount(x, k) > 0
          BY <2>1, <4>1, <5>1 DEF ItemInv
        <5>3. x # s BY <2>4, <5>2 DEF ParsedCount
        <5>4. ParsedCount(x, k)' > 0 BY <2>5, <5>2, <5>3
        <5> QED BY <3>7, <4>1, <5>1, <5>2, <5>4
      <4>2. CASE protoLogs'[k].sid = s /\ n > 0 /\ setting.keyOf[protoLogs'[k].page] = k
        <5>1. ParsedCount(s, k)' > 0 BY <2>5, <4>2
        <5> QED BY <3>7, <4>2, <5>1
      <4> QED BY <3>1, <4>1, <4>2
    <3> QED BY <3>2, <3>3, <3>4, <3>5, <3>6, <3>8
  <2> QED BY <2>1, <2>7 DEF ItemInv
<1>3. CASE \/ \E u \in Users : DeleteUser(u)
           \/ MonthPasses
  <2>1. UNCHANGED <<pc, left, protoLogs, urlLog, protocols, setting>>
    BY <1>3 DEF DeleteUser, MonthPasses, localVars
  <2>2. \A s, k : ParsedCount(s, k)' = ParsedCount(s, k)
    BY <2>1, RowsKept DEF ParsedCount, Parsed, InLog, InText, TextOf, CountOfKey, PagesOf
  <2> QED BY <2>1, <2>2 DEF ItemInv, ItemCount
<1>4. CASE \/ \E s \in Sessions, p \in Pages : Log(s, p)
           \/ Regroup \/ Erase \/ Write \/ UidIsNull \/ AggregateDelete
           \/ \E s \in Sessions, p \in Pages : UpdatePopularity(s, p)
  BY <1>4 DEF Log, Regroup, Erase, Write, UidIsNull, AggregateDelete, Sleep,
              UpdatePopularity, ItemInv, localVars
<1> QED BY <1>1, <1>2, <1>3, <1>4 DEF Step, Aggregate

-----------------------------------------------------------------------------
(* Protocols *)

\* What is compared are numbers.
LEMMA ProtocolTypes ==
  ASSUME TypeOK, NEW s \in Sessions, NEW k
  PROVE  Protocol(s, k) \in Nat /\ Due(s, k) \in Int
BY CountTypes DEF Protocol, Due

\* Steps that add to each protocol what is more due, and nothing if protocols are
\* merged.
LEMMA ProtocolMoves ==
  ASSUME TypeOK, ProtocolInv, setting' = setting, users' = Users => users = Users,
         \A s \in Sessions, k \in Keys :
           /\ Came(s, k)' >= Came(s, k) /\ Came(s, k)' \in Nat
           /\ Protocol(s, k)' \in Int /\ Due(s, k)' \in Int
           /\ Protocol(s, k)' + Due(s, k) = Protocol(s, k) + Due(s, k)'
           /\ setting.merging => Protocol(s, k)' = Protocol(s, k)
  PROVE  ProtocolInv'
<1>1. ASSUME NEW k \in Keys
      PROVE  Sum(Sessions, [s \in Sessions |-> Protocol(s, k)'])
               >= Sum(Sessions, [s \in Sessions |-> Due(s, k)'])
  <2> DEFINE f == [s \in Sessions |-> Protocol(s, k)]
             g == [s \in Sessions |-> Due(s, k)]
             h == [s \in Sessions |-> Protocol(s, k)']
             i == [s \in Sessions |-> Due(s, k)']
             j == [s \in Sessions |-> h[s] + g[s]]
  <2>1. \A s \in Sessions :
          /\ f[s] \in Int /\ g[s] \in Int /\ h[s] \in Int /\ i[s] \in Int
          /\ j[s] = h[s] + g[s] /\ j[s] = f[s] + i[s]
    BY ProtocolTypes
  <2>2. Sum(Sessions, f) >= Sum(Sessions, g) BY DEF ProtocolInv
  <2> HIDE DEF f, g, h, i, j
  <2>3. Sum(Sessions, j) = Sum(Sessions, h) + Sum(Sessions, g)
    BY <2>1, SumPlus, ReportAssumption
  <2>4. Sum(Sessions, j) = Sum(Sessions, f) + Sum(Sessions, i)
    BY <2>1, SumPlus, ReportAssumption
  <2>5. /\ Sum(Sessions, f) \in Int /\ Sum(Sessions, g) \in Int
        /\ Sum(Sessions, h) \in Int /\ Sum(Sessions, i) \in Int
    BY <2>1, SumInt, ReportAssumption
  <2>6. Sum(Sessions, h) >= Sum(Sessions, i) BY <2>2, <2>3, <2>4, <2>5
  <2> QED BY <2>6 DEF h, i
<1>2. ASSUME users' = Users, NEW k \in Keys, NEW s \in Sessions, Own(s, k)'
      PROVE  /\ Protocol(s, k)' = Due(s, k)'
             /\ setting.merging => \A t \in Sessions \ {s} : Protocol(t, k)' = 0
  <2>1. \A t \in Sessions : Came(t, k) \in Nat /\ Protocol(t, k) \in Nat /\ Due(t, k) \in Int
    BY CountTypes, ProtocolTypes
  <2>2. Own(s, k) BY <1>2, <2>1 DEF Own
  <2>3. /\ Protocol(s, k) = Due(s, k)
        /\ setting.merging => \A t \in Sessions \ {s} : Protocol(t, k) = 0
    BY <1>2, <2>2 DEF ProtocolInv
  <2> QED BY <2>1, <2>3
<1> QED BY <1>1, <1>2 DEF ProtocolInv

\* Steps that change neither.
LEMMA ProtocolStays ==
  ASSUME TypeOK, ProtocolInv, setting' = setting, users' = Users => users = Users,
         \A s \in Sessions, k \in Keys :
           /\ Came(s, k)' >= Came(s, k) /\ Came(s, k)' \in Nat
           /\ Protocol(s, k)' = Protocol(s, k) /\ Due(s, k)' = Due(s, k)
  PROVE  ProtocolInv'
<1>1. \A s \in Sessions, k \in Keys : Protocol(s, k) \in Int /\ Due(s, k) \in Int
  BY ProtocolTypes
<1>2. \A s \in Sessions, k \in Keys :
        /\ Protocol(s, k)' \in Int /\ Due(s, k)' \in Int
        /\ Protocol(s, k)' + Due(s, k) = Protocol(s, k) + Due(s, k)'
  BY <1>1
<1> QED BY <1>2, ProtocolMoves

\* A response is added to what came and to what is in url_log.
LEMMA LogCounts ==
  ASSUME TypeOK, setting' = setting, NEW s \in Sessions, NEW p \in Pages, Log(s, p),
         NEW x \in Sessions, NEW k
  PROVE  /\ Came(x, k)' - InLog(x, k)' = Came(x, k) - InLog(x, k)
         /\ Came(x, k)' >= Came(x, k) /\ Came(x, k)' \in Nat
<1>1. /\ logged[s] \in Text /\ urlLog[s] \in Text
      /\ Came(x, k) \in Nat /\ InLog(x, k) \in Nat
  BY TextTypes, CountTypes
<1>2. /\ logged' = [logged EXCEPT ![s][p] = @ + 1] /\ urlLog' = [urlLog EXCEPT ![s][p] = @ + 1]
      /\ logged \in [Sessions -> [Pages -> 0..MaxResponses]]
      /\ urlLog \in [Sessions -> [Pages -> 0..MaxResponses]]
  BY DEF Log, TypeOK
<1>3. Came(x, k)' = CountOfKey(logged'[x], k) /\ InLog(x, k)' = CountOfKey(urlLog'[x], k)
  BY CountsKept
<1>4. CASE x # s
  <2>1. logged'[x] = logged[x] /\ urlLog'[x] = urlLog[x] BY <1>2, <1>4
  <2> QED BY <1>1, <1>3, <2>1 DEF Came, InLog
<1>5. CASE x = s
  <2> DEFINE one == [q \in Pages |-> IF q = p THEN 1 ELSE 0]
  <2>1. one \in Text BY DEF Text
  <2>2. \A q \in Pages :
          /\ logged'[s][q] = logged[s][q] + one[q] /\ urlLog'[s][q] = urlLog[s][q] + one[q]
    BY <1>1, <1>2 DEF Text
  <2> HIDE DEF one
  <2>3. CountOfKey(logged'[s], k) = CountOfKey(logged[s], k) + CountOfKey(one, k)
    BY <1>1, <2>1, <2>2, CountPlus
  <2>4. CountOfKey(urlLog'[s], k) = CountOfKey(urlLog[s], k) + CountOfKey(one, k)
    BY <1>1, <2>1, <2>2, CountPlus
  <2>5. CountOfKey(one, k) \in Nat BY <2>1, CountType
  <2> QED BY <1>1, <1>3, <1>5, <2>3, <2>4, <2>5 DEF Came, InLog
<1> QED BY <1>4, <1>5

\* The texts that Regroup makes: the item of a key is in the text of its session.
LEMMA RegroupedCount ==
  ASSUME TypeOK, ItemInv, Regroup, setting' = setting, NEW s \in Sessions, NEW k \in Keys
  PROVE  InNew(s, k)' = IF protoLogs[k] # NoItem /\ protoLogs[k].sid = s
                          THEN ItemCount(k) ELSE 0
<1> DEFINE S(p) == {j \in ItemsOf(s) : protoLogs[j].page = p}
           c == [j \in ItemsOf(s) |-> protoLogs[j].count]
           t == texts'[s]
<1>1. \A p \in Pages : t[p] = Sum(S(p), c) BY DEF Regroup
<1>2. \A j \in ItemsOf(s) : setting.keyOf[protoLogs[j].page] = j
  BY DEF Regroup, ItemInv, ItemsOf
<1>3. InNew(s, k)' = Sum(PagesOf(k), t) BY CountsKept DEF CountOfKey
<1>4. \A p \in PagesOf(k) : S(p) \subseteq {k} BY <1>2 DEF PagesOf
<1>5. \A p \in PagesOf(k) : S(p) = {} => t[p] = 0
  BY <1>1, SumEmpty, PagesOfKey
<1>6. CASE protoLogs[k] # NoItem /\ protoLogs[k].sid = s
  <2> DEFINE q == protoLogs[k].page
  <2>1. k \in ItemsOf(s) /\ q \in PagesOf(k) /\ protoLogs[k].count \in Nat
    BY <1>2, <1>6 DEF ItemsOf, PagesOf, TypeOK, Item
  <2>2. S(q) = {k} BY <1>4, <2>1
  <2>3. Sum({k}, c) = c[k]
    <3>1. c[k] \in Nat /\ \A x \in {k} : c[x] \in Int BY <2>1
    <3> HIDE DEF c
    <3>2. Sum({k}, c) = c[k] + Sum({k} \ {k}, c) BY <3>1, FS_Singleton, SumRemove
    <3>3. {k} \ {k} = {} OBVIOUS
    <3> QED BY <3>1, <3>2, <3>3, SumEmpty
  <2>4. t[q] = protoLogs[k].count BY <1>1, <2>1, <2>2, <2>3, PagesOfKey
  <2>5. \A p \in PagesOf(k) \ {q} : t[p] = 0
    <3>1. \A p \in PagesOf(k) \ {q} : S(p) = {} BY <1>4
    <3> QED BY <1>5, <3>1
  <2>6. /\ \A p \in PagesOf(k) : t[p] \in Int
        /\ IsFiniteSet(PagesOf(k)) /\ IsFiniteSet(PagesOf(k) \ {q})
    BY <2>1, <2>4, <2>5, PagesOfKey, FS_Subset
  <2> HIDE DEF t, S, c
  <2>7. Sum(PagesOf(k), t) = t[q] + Sum(PagesOf(k) \ {q}, t)
    BY <2>1, <2>6, SumRemove
  <2>8. Sum(PagesOf(k) \ {q}, t) = 0 BY <2>5, <2>6, SumZero
  <2> QED BY <1>3, <1>6, <2>1, <2>4, <2>7, <2>8 DEF ItemCount
<1>7. CASE ~(protoLogs[k] # NoItem /\ protoLogs[k].sid = s)
  <2>1. k \notin ItemsOf(s) BY <1>7 DEF ItemsOf
  <2>2. \A p \in PagesOf(k) : S(p) = {} BY <1>4, <2>1
  <2>3. \A p \in PagesOf(k) : t[p] = 0 BY <1>5, <2>2
  <2>4. Sum(PagesOf(k), t) = 0
    <3> HIDE DEF t
    <3> QED BY <2>3, SumZero, PagesOfKey
  <2> QED BY <1>3, <1>7, <2>4
<1> QED BY <1>6, <1>7

\* Regroup: what the sessions that own an item will lose is counted by the items,
\* with what is in url_log.
LEMMA RegroupProtocols ==
  ASSUME TypeOK, LogInv, PointInv, ItemInv, ProtocolInv, Regroup, setting' = setting
  PROVE  ProtocolInv'
<1>1. /\ pc = "parse" /\ pc' = "erase" /\ left = {} /\ left' = Owners /\ setting.merging
      /\ UNCHANGED <<logged, urlLog, protocols, users>>
  BY DEF Regroup, PointInv, dataVars
<1>2. Parsed = LogSessions BY <1>1 DEF Parsed
<1>3. Owners \subseteq LogSessions
  <2>1. ASSUME NEW s \in Sessions, NEW k \in ItemsOf(s) PROVE s \in LogSessions
    <3>1. protoLogs[k].sid = s /\ protoLogs[k] # NoItem /\ k \in Keys BY <2>1 DEF ItemsOf
    <3>2. ParsedCount(s, k) > 0 BY <1>1, <3>1 DEF ItemInv
    <3> QED BY <1>2, <3>2 DEF ParsedCount
  <2> QED BY <2>1 DEF Owners
<1> DEFINE item(s, k) == IF protoLogs[k] # NoItem /\ protoLogs[k].sid = s
                           THEN ItemCount(k) ELSE 0
           rest(s, k) == IF s \in Owners THEN 0 ELSE InText(s, k)
<1>4. \A s \in Sessions, k \in Keys :
        Came(s, k) \in Nat /\ InLog(s, k) \in Nat /\ InText(s, k) \in Nat
  BY CountTypes
<1>5. \A k \in Keys :
         /\ ItemCount(k) \in Nat
         /\ protoLogs[k] = NoItem => ItemCount(k) = 0
         /\ protoLogs[k] # NoItem => protoLogs[k].sid \in Sessions /\ ItemCount(k) > 0
  BY DEF ItemCount, TypeOK, Item
<1>6. \A s \in Sessions, k \in Keys :
        /\ Protocol(s, k)' = item(s, k) + rest(s, k)
        /\ Due(s, k)' = Came(s, k) /\ Came(s, k)' = Came(s, k)
  <2>1. \A s \in Sessions, k \in Keys :
          /\ InNew(s, k)' = item(s, k) /\ InText(s, k)' = InText(s, k)
          /\ Came(s, k)' = Came(s, k)
    BY <1>1, RegroupedCount, CountsKept DEF Came
  <2> QED BY <1>1, <2>1 DEF Protocol, Due
<1>7. \A s \in Sessions, k \in Keys : s \notin LogSessions => InLog(s, k) = 0
  BY NoRows
<1>8. \A s \in Sessions, k \in Keys :
        ParsedCount(s, k) = IF s \in LogSessions THEN InLog(s, k) + InText(s, k) ELSE 0
  BY <1>2 DEF ParsedCount
<1>9. ASSUME NEW k \in Keys
      PROVE  Sum(Sessions, [s \in Sessions |-> Protocol(s, k)'])
               >= Sum(Sessions, [s \in Sessions |-> Due(s, k)'])
  <2> DEFINE new == [s \in Sessions |-> Protocol(s, k)']
             came == [s \in Sessions |-> Due(s, k)']
             items == [s \in Sessions |-> item(s, k)]
             rests == [s \in Sessions |-> rest(s, k)]
             parsed == [s \in Sessions |-> ParsedCount(s, k)]
             whole == [s \in Sessions |-> parsed[s] + rests[s]]
             inLog == [s \in Sessions |-> InLog(s, k)]
             inText == [s \in Sessions |-> InText(s, k)]
             both == [s \in Sessions |-> inLog[s] + inText[s]]
             taken == [s \in Sessions |-> Came(s, k) - InLog(s, k)]
  <2>1. \A s \in Sessions :
          /\ items[s] \in Int /\ rests[s] \in Int /\ new[s] = items[s] + rests[s]
          /\ parsed[s] \in Int /\ whole[s] \in Int /\ whole[s] = parsed[s] + rests[s]
          /\ inLog[s] \in Int /\ inText[s] \in Int /\ both[s] \in Int
          /\ both[s] = inLog[s] + inText[s]
          /\ taken[s] \in Int /\ came[s] = inLog[s] + taken[s]
          /\ both[s] <= whole[s]
    <3> SUFFICES ASSUME NEW s \in Sessions
                 PROVE  /\ item(s, k) \in Int /\ rest(s, k) \in Int
                        /\ Protocol(s, k)' = item(s, k) + rest(s, k)
                        /\ ParsedCount(s, k) \in Int
                        /\ InLog(s, k) \in Int /\ InText(s, k) \in Int
                        /\ Came(s, k) - InLog(s, k) \in Int
                        /\ Due(s, k)' = InLog(s, k) + (Came(s, k) - InLog(s, k))
                        /\ InLog(s, k) + InText(s, k) <= ParsedCount(s, k) + rest(s, k)
      OBVIOUS
    <3>1. item(s, k) \in Int /\ rest(s, k) \in Int /\ ParsedCount(s, k) \in Int
      BY <1>4, <1>5, <1>8
    <3>2. InLog(s, k) + InText(s, k) <= ParsedCount(s, k) + rest(s, k)
      BY <1>3, <1>4, <1>5, <1>7, <1>8
    <3>3. Due(s, k)' = InLog(s, k) + (Came(s, k) - InLog(s, k)) BY <1>4, <1>5, <1>6
    <3> HIDE DEF item, rest
    <3> QED BY <1>4, <1>5, <1>6, <3>1, <3>2, <3>3
  <2>2. Sum(Sessions, items) = Sum(Sessions, parsed)
    <3>1. ItemCount(k) = Sum(Sessions, parsed) BY <1>1 DEF ItemInv
    <3>2. Sum(Sessions, items) = ItemCount(k)
      <4>1. CASE protoLogs[k] = NoItem
        <5>1. \A s \in Sessions : items[s] = 0 BY <4>1
        <5> HIDE DEF items
        <5> QED BY <1>4, <1>5, <4>1, <5>1, SumZero, ReportAssumption
      <4>2. CASE protoLogs[k] # NoItem
        <5> DEFINE e == protoLogs[k].sid
        <5>1. e \in Sessions /\ items[e] = ItemCount(k) /\ \A s \in Sessions \ {e} : items[s] = 0
          BY <1>4, <1>5, <4>2
        <5>2. ItemCount(k) \in Int BY <1>4, <1>5
        <5>3. IsFiniteSet(Sessions \ {e}) BY FS_Subset, ReportAssumption
        <5> HIDE DEF items, e
        <5>4. Sum(Sessions, items) = items[e] + Sum(Sessions \ {e}, items)
          BY <2>1, <5>1, SumRemove, ReportAssumption
        <5>5. Sum(Sessions \ {e}, items) = 0 BY <5>1, <5>3, SumZero
        <5> QED BY <5>1, <5>2, <5>4, <5>5
      <4> QED BY <4>1, <4>2
    <3> QED BY <3>1, <3>2
  <2>3. Sum(Sessions, inText) >= Sum(Sessions, taken)
    <3>1. \A s \in Sessions :
            Protocol(s, k) = InText(s, k) /\ Due(s, k) = Came(s, k) - InLog(s, k)
      BY <1>1, <1>4 DEF Protocol, Due
    <3>2. /\ Sum(Sessions, [s \in Sessions |-> Protocol(s, k)])
               >= Sum(Sessions, [s \in Sessions |-> Due(s, k)])
      BY DEF ProtocolInv
    <3>3. /\ [s \in Sessions |-> Protocol(s, k)] = inText
          /\ [s \in Sessions |-> Due(s, k)] = taken
      BY <3>1
    <3> QED BY <3>2, <3>3
  <2> HIDE DEF new, came, items, rests, parsed, whole, inLog, inText, both, taken
  <2>4. /\ Sum(Sessions, new) = Sum(Sessions, items) + Sum(Sessions, rests)
        /\ Sum(Sessions, whole) = Sum(Sessions, parsed) + Sum(Sessions, rests)
        /\ Sum(Sessions, both) = Sum(Sessions, inLog) + Sum(Sessions, inText)
        /\ Sum(Sessions, came) = Sum(Sessions, inLog) + Sum(Sessions, taken)
    BY <2>1, SumPlus, ReportAssumption
  <2>5. Sum(Sessions, both) <= Sum(Sessions, whole)
    BY <2>1, SumMonotone, ReportAssumption
  <2>6. /\ Sum(Sessions, inLog) \in Int /\ Sum(Sessions, inText) \in Int
        /\ Sum(Sessions, taken) \in Int /\ Sum(Sessions, rests) \in Int
        /\ Sum(Sessions, parsed) \in Int
    BY <2>1, SumInt, ReportAssumption
  <2>7. Sum(Sessions, new) >= Sum(Sessions, came) BY <2>2, <2>3, <2>4, <2>5, <2>6
  <2> QED BY <2>7 DEF new, came
<1>10. ASSUME users' = Users, NEW k \in Keys, NEW s \in Sessions, Own(s, k)'
      PROVE  /\ Protocol(s, k)' = Due(s, k)'
             /\ \A t \in Sessions \ {s} : Protocol(t, k)' = 0
  <2>1. \A t \in Sessions \ {s} : Came(t, k) = 0 BY <1>1, <1>6, <1>10 DEF Own
  <2>2. Own(s, k) BY <2>1 DEF Own
  <2>3. \A t \in Sessions \ {s} : InText(t, k) = 0
    <3>1. \A t \in Sessions \ {s} : Protocol(t, k) = 0 BY <1>1, <1>10, <2>2 DEF ProtocolInv
    <3> QED BY <1>1, <1>4, <3>1 DEF Protocol
  <2>4. InText(s, k) = Came(s, k) - InLog(s, k)
    <3>1. Protocol(s, k) = Due(s, k) BY <1>1, <1>10, <2>2 DEF ProtocolInv
    <3> QED BY <1>1, <1>4, <3>1 DEF Protocol, Due
  <2>5. \A t \in Sessions \ {s} : InLog(t, k) = 0
    <3> SUFFICES ASSUME NEW t \in Sessions \ {s} PROVE InLog(t, k) = 0
      OBVIOUS
    <3>1. urlLog[t] \in Text /\ logged[t] \in Text BY TextTypes
    <3>2. \A p \in PagesOf(k) : ~(logged[t][p] > 0) BY <2>1, <3>1, CountType DEF Came
    <3>3. \A p \in PagesOf(k) : ~(urlLog[t][p] > 0) BY <3>1, <3>2, PagesOfKey DEF LogInv, Text
    <3>4. ~(InLog(t, k) > 0) BY <3>1, <3>3, CountType DEF InLog
    <3> QED BY <1>4, <1>5, <3>4
  <2>6. \A t \in Sessions \ {s} : ParsedCount(t, k) = 0 BY <1>8, <2>3, <2>5
  <2>7. ItemCount(k) = ParsedCount(s, k)
    <3> DEFINE f == [x \in Sessions |-> ParsedCount(x, k)]
    <3>1. ItemCount(k) = Sum(Sessions, f) BY <1>1 DEF ItemInv
    <3>2. \A x \in Sessions : f[x] \in Int BY <1>4, <1>5, <1>8
    <3>3. \A x \in Sessions \ {s} : f[x] = 0 BY <2>6
    <3>4. f[s] = ParsedCount(s, k) OBVIOUS
    <3>5. IsFiniteSet(Sessions \ {s}) BY FS_Subset, ReportAssumption
    <3> HIDE DEF f
    <3>6. Sum(Sessions, f) = f[s] + Sum(Sessions \ {s}, f)
      BY <3>2, SumRemove, ReportAssumption
    <3>7. Sum(Sessions \ {s}, f) = 0 BY <3>3, <3>5, SumZero
    <3> QED BY <3>1, <3>2, <3>4, <3>6, <3>7
  <2>8. protoLogs[k] # NoItem => protoLogs[k].sid = s
    <3> SUFFICES ASSUME protoLogs[k] # NoItem, protoLogs[k].sid # s PROVE FALSE
      OBVIOUS
    <3>1. PICK t \in Sessions : t = protoLogs[k].sid BY <1>4, <1>5
    <3>2. ParsedCount(t, k) > 0 BY <1>1, <3>1 DEF ItemInv
    <3> QED BY <2>6, <3>1, <3>2
  <2>9. \A t \in Sessions \ {s} : Protocol(t, k)' = 0
    <3>1. \A t \in Sessions \ {s} : item(t, k) = 0 /\ rest(t, k) = 0 BY <2>3, <2>8
    <3> QED BY <1>6, <3>1
  <2>10. item(s, k) = ParsedCount(s, k) BY <1>4, <1>5, <2>7, <2>8
  <2>11. item(s, k) + rest(s, k) = Came(s, k)
    <3>1. s \in Owners <=> ItemsOf(s) # {} BY DEF Owners
    <3>2. CASE s \in Owners
      <4>1. s \in LogSessions BY <1>3, <3>2
      <4> QED BY <1>4, <1>5, <1>8, <2>4, <2>10, <3>2, <4>1
    <3>3. CASE s \notin Owners
      <4>1. protoLogs[k] = NoItem BY <2>8, <3>1, <3>3 DEF ItemsOf
      <4>2. ParsedCount(s, k) = 0 BY <1>4, <1>5, <2>7, <4>1
      <4>3. InLog(s, k) = 0 BY <1>4, <1>5, <1>7, <1>8, <4>2
      <4> QED BY <1>4, <1>5, <2>4, <2>10, <3>3, <4>2, <4>3
    <3> QED BY <3>2, <3>3
  <2> HIDE DEF item, rest
  <2> QED BY <1>6, <2>9, <2>11
<1> QED BY <1>1, <1>9, <1>10 DEF ProtocolInv

\* The steps keep what is in the protocols.
LEMMA ProtocolStep ==
  ASSUME TypeOK, LogInv, PointInv, ItemInv, ProtocolInv, Step, setting' = setting
  PROVE  ProtocolInv'
<1>1. \A s \in Sessions, k \in Keys :
        /\ Came(s, k) \in Nat /\ InLog(s, k) \in Nat /\ InText(s, k) \in Nat
        /\ InNew(s, k) \in Nat
        /\ logged' = logged => Came(s, k)' = Came(s, k)
        /\ urlLog' = urlLog => InLog(s, k)' = InLog(s, k)
        /\ texts' = texts => InNew(s, k)' = InNew(s, k)
        /\ protocols' = protocols => InText(s, k)' = InText(s, k)
  BY CountTypes, CountsKept DEF Came, InLog, InNew
\* A step that changes nothing but the users, the month, and what is of no concern.
<1>2. ASSUME UNCHANGED <<logged, urlLog, protocols, texts, pc, left>>,
             users' = Users => users = Users
      PROVE  ProtocolInv'
  <2>1. \A s \in Sessions, k \in Keys :
          /\ Came(s, k)' >= Came(s, k) /\ Came(s, k)' \in Nat
          /\ Protocol(s, k)' = Protocol(s, k) /\ Due(s, k)' = Due(s, k)
    BY <1>1, <1>2 DEF Protocol, Due
  <2> QED BY <1>2, <2>1, ProtocolStays
<1>3. ASSUME NEW s \in Sessions, NEW p \in Pages, Log(s, p) PROVE ProtocolInv'
  <2>1. pc = "sleep" /\ UNCHANGED <<protocols, texts, pc, left, users>>
    BY <1>3 DEF Log, localVars
  <2>2. \A x \in Sessions, k \in Keys :
          /\ Came(x, k)' >= Came(x, k) /\ Came(x, k)' \in Nat
          /\ Protocol(x, k)' = Protocol(x, k) /\ Due(x, k)' = Due(x, k)
    BY <1>1, <1>3, <2>1, LogCounts DEF Protocol, Due
  <2> QED BY <2>1, <2>2, ProtocolStays
<1>4. ASSUME NEW u \in Users, DeleteUser(u) PROVE ProtocolInv'
  <2>1. users' # Users BY <1>4 DEF DeleteUser
  <2> QED BY <1>2, <1>4, <2>1 DEF DeleteUser, localVars
<1>5. CASE MonthPasses BY <1>2, <1>5 DEF MonthPasses, localVars
<1>6. CASE AggregateSelect
  <2>1. /\ pc = "sleep" /\ texts' = urlLog
        /\ pc' = IF setting.merging THEN "parse" ELSE "write"
        /\ UNCHANGED <<logged, urlLog, protocols, users>>
    BY <1>6 DEF AggregateSelect, dataVars
  <2>2. \A s \in Sessions, k \in Keys : InNew(s, k)' = InLog(s, k)
    BY <2>1, CountsKept DEF InLog
  <2>3. ASSUME NEW s \in Sessions, NEW k \in Keys
        PROVE  /\ Came(s, k)' >= Came(s, k) /\ Came(s, k)' \in Nat
               /\ Protocol(s, k)' \in Int /\ Due(s, k)' \in Int
               /\ Protocol(s, k)' + Due(s, k) = Protocol(s, k) + Due(s, k)'
               /\ setting.merging => Protocol(s, k)' = Protocol(s, k)
    <3>1. Protocol(s, k) = InText(s, k) /\ Due(s, k) = Came(s, k) - InLog(s, k)
      BY <1>1, <2>1 DEF Protocol, Due
    <3>2. CASE setting.merging
      <4>1. Protocol(s, k)' = InText(s, k) /\ Due(s, k)' = Came(s, k) - InLog(s, k)
        BY <1>1, <2>1, <3>2 DEF Protocol, Due
      <4> QED BY <1>1, <2>1, <3>1, <4>1
    <3>3. CASE ~setting.merging
      <4>1. Protocol(s, k)' = InLog(s, k) + InText(s, k) /\ Due(s, k)' = Came(s, k)
        BY <1>1, <2>1, <2>2, <3>3 DEF Protocol, Due
      <4> QED BY <1>1, <2>1, <3>1, <3>3, <4>1
    <3> QED BY <3>2, <3>3
  <2> QED BY <2>1, <2>3, ProtocolMoves
<1>7. ASSUME NEW s \in Sessions, Parse(s) PROVE ProtocolInv'
  <2>1. pc = "parse" /\ pc' = pc /\ UNCHANGED <<logged, urlLog, protocols, users>>
    BY <1>7 DEF Parse, dataVars
  <2>2. \A x \in Sessions, k \in Keys :
          /\ Came(x, k)' >= Came(x, k) /\ Came(x, k)' \in Nat
          /\ Protocol(x, k)' = Protocol(x, k) /\ Due(x, k)' = Due(x, k)
    BY <1>1, <2>1 DEF Protocol, Due
  <2> QED BY <2>1, <2>2, ProtocolStays
<1>8. CASE Regroup BY <1>8, RegroupProtocols
<1>9. CASE Erase
  <2>1. /\ pc = "erase" /\ pc' = "write" /\ UNCHANGED <<logged, urlLog, texts, left, users>>
        /\ protocols' = [s \in Sessions |->
             IF s \in left /\ protocols[s] # NoProtocol THEN Erased(s) ELSE protocols[s]]
    BY <1>9 DEF Erase
  <2>2. ASSUME NEW s \in Sessions, NEW k \in Keys
        PROVE  InText(s, k)' = IF s \in left THEN 0 ELSE InText(s, k)
    <3>1. CASE s \notin left
      <4>1. protocols'[s] = protocols[s] BY <2>1, <3>1
      <4> QED BY <3>1, <4>1, CountsKept
    <3>2. CASE s \in left
      <4>1. TextOf(s)' = Nothing BY <2>1, <3>2 DEF TextOf, Erased, Nothing
      <4>2. InText(s, k)' = CountOfKey(TextOf(s)', k) BY CountsKept
      <4> QED BY <3>2, <4>1, <4>2, CountNothing
    <3> QED BY <3>1, <3>2
  <2>3. \A s \in Sessions, k \in Keys :
          /\ Came(s, k)' >= Came(s, k) /\ Came(s, k)' \in Nat
          /\ Protocol(s, k)' = Protocol(s, k) /\ Due(s, k)' = Due(s, k)
    BY <1>1, <2>1, <2>2 DEF Protocol, Due
  <2> QED BY <2>1, <2>3, ProtocolStays
<1>10. CASE Write
  <2>1. /\ pc = "write" /\ pc' = "popularity" /\ UNCHANGED <<logged, urlLog, users>>
        /\ protocols' = [s \in Sessions |->
             IF s \in left THEN [p \in Pages |-> TextOf(s)[p] + texts[s][p]]
                           ELSE protocols[s]]
    BY <1>10 DEF Write
  <2>2. ASSUME NEW s \in Sessions, NEW k \in Keys
        PROVE  InText(s, k)' = InNew(s, k) + InText(s, k)
    <3>1. CASE s \notin left
      <4>1. protocols'[s] = protocols[s] BY <2>1, <3>1
      <4>2. texts[s] = Nothing BY <2>1, <3>1 DEF PointInv
      <4>3. InNew(s, k) = 0 BY <4>2, CountNothing DEF InNew
      <4> QED BY <1>1, <4>1, <4>3, CountsKept
    <3>2. CASE s \in left
      <4> DEFINE t == [p \in Pages |-> TextOf(s)[p] + texts[s][p]]
      <4>1. TextOf(s) \in Text /\ texts[s] \in Text BY TextTypes
      <4>2. t \in Text /\ \A p \in Pages : t[p] = TextOf(s)[p] + texts[s][p]
        BY <4>1 DEF Text
      <4>3. t # NoProtocol BY <4>2, ItemAssumption
      <4>4. TextOf(s)' = t BY <2>1, <3>2, <4>3 DEF TextOf
      <4> HIDE DEF t
      <4>5. CountOfKey(t, k) = CountOfKey(TextOf(s), k) + CountOfKey(texts[s], k)
        BY <4>1, <4>2, CountPlus
      <4>6. InText(s, k)' = CountOfKey(TextOf(s)', k) BY CountsKept
      <4>7. CountOfKey(TextOf(s), k) = InText(s, k) /\ CountOfKey(texts[s], k) = InNew(s, k)
        BY DEF InText, InNew
      <4> QED BY <1>1, <4>4, <4>5, <4>6, <4>7
    <3> QED BY <3>1, <3>2
  <2>3. \A s \in Sessions, k \in Keys :
          /\ Came(s, k)' >= Came(s, k) /\ Came(s, k)' \in Nat
          /\ Protocol(s, k)' = Protocol(s, k) /\ Due(s, k)' = Due(s, k)
    BY <1>1, <2>1, <2>2 DEF Protocol, Due
  <2> QED BY <2>1, <2>3, ProtocolStays
<1>11. ASSUME NEW s \in Sessions, NEW p \in Pages, UpdatePopularity(s, p) PROVE ProtocolInv'
  <2>1. pc = "popularity" /\ pc' = pc /\ UNCHANGED <<logged, urlLog, protocols, texts, users>>
    BY <1>11 DEF UpdatePopularity
  <2>2. \A x \in Sessions, k \in Keys :
          /\ Came(x, k)' >= Came(x, k) /\ Came(x, k)' \in Nat
          /\ Protocol(x, k)' = Protocol(x, k) /\ Due(x, k)' = Due(x, k)
    BY <1>1, <2>1 DEF Protocol, Due
  <2> QED BY <2>1, <2>2, ProtocolStays
<1>12. CASE UidIsNull
  <2>1. /\ pc = "popularity" /\ pc' = "sleep"
        /\ UNCHANGED <<logged, urlLog, protocols, users>>
    BY <1>12 DEF UidIsNull, Sleep, dataVars
  <2>2. users # Users
    <3>1. PICK x \in left : UserOf[x[1]] \notin uids BY <1>12 DEF UidIsNull
    <3>2. x[1] \in LogSessions BY <2>1 DEF PointInv, LogSessions
    <3> QED BY <2>1, <3>1, <3>2 DEF PointInv
  <2>3. \A s \in Sessions, k \in Keys :
          /\ Protocol(s, k)' = Protocol(s, k) /\ Protocol(s, k) \in Int
          /\ Due(s, k)' <= Due(s, k) /\ Due(s, k) \in Int /\ Due(s, k)' \in Int
    BY <1>1, <2>1 DEF Protocol, Due
  <2>4. ASSUME NEW k \in Keys
        PROVE  Sum(Sessions, [s \in Sessions |-> Protocol(s, k)'])
                 >= Sum(Sessions, [s \in Sessions |-> Due(s, k)'])
    <3> DEFINE f == [s \in Sessions |-> Protocol(s, k)]
               g == [s \in Sessions |-> Due(s, k)]
               h == [s \in Sessions |-> Protocol(s, k)']
               i == [s \in Sessions |-> Due(s, k)']
    <3>1. Sum(Sessions, f) >= Sum(Sessions, g) BY DEF ProtocolInv
    <3>2. \A s \in Sessions :
            f[s] \in Int /\ h[s] = f[s] /\ g[s] \in Int /\ i[s] \in Int /\ i[s] <= g[s]
      BY <2>3
    <3> HIDE DEF f, g, h, i
    <3>3. Sum(Sessions, i) <= Sum(Sessions, g) BY <3>2, SumMonotone, ReportAssumption
    <3>4. Sum(Sessions, h) = Sum(Sessions, f) BY <3>2, SumSame, ReportAssumption
    <3>5. Sum(Sessions, f) \in Int /\ Sum(Sessions, g) \in Int /\ Sum(Sessions, i) \in Int
      BY <3>2, SumInt, ReportAssumption
    <3>6. Sum(Sessions, h) >= Sum(Sessions, i) BY <3>1, <3>3, <3>4, <3>5
    <3> QED BY <3>6 DEF h, i
  <2> QED BY <2>1, <2>2, <2>4 DEF ProtocolInv
<1>13. CASE AggregateDelete
  <2>1. /\ pc = "popularity" /\ pc' = "sleep" /\ urlLog' = [s \in Sessions |-> Nothing]
        /\ UNCHANGED <<logged, protocols, users>>
    BY <1>13 DEF AggregateDelete, Sleep
  <2>2. \A s \in Sessions, k \in Keys : InLog(s, k)' = 0
    BY <2>1, CountsKept, CountNothing
  <2>3. \A s \in Sessions, k \in Keys :
          /\ Came(s, k)' >= Came(s, k) /\ Came(s, k)' \in Nat
          /\ Protocol(s, k)' = Protocol(s, k) /\ Due(s, k)' = Due(s, k)
    BY <1>1, <2>1, <2>2 DEF Protocol, Due
  <2> QED BY <2>1, <2>3, ProtocolStays
<1> QED
  BY <1>3, <1>4, <1>5, <1>6, <1>7, <1>8, <1>9, <1>10, <1>11, <1>12, <1>13 DEF Step, Aggregate

-----------------------------------------------------------------------------
(* The rating *)

\* What is rated and visited are numbers.
LEMMA RatingTypes ==
  ASSUME TypeOK, LogInv
  PROVE  /\ \A x \in Sessions \X Pages :
              /\ urlLog[x[1]][x[2]] \in Nat /\ logged[x[1]][x[2]] \in Nat
              /\ Waiting(x) \in Nat /\ Taken(x) \in Nat
         /\ \A url \in Urls, u \in Users, m \in Months : popularity[<<url, u, m>>] \in Nat
         /\ \A url, u : IsFiniteSet(Mine(url, u)) /\ Mine(url, u) \subseteq Sessions \X Pages
         /\ IsFiniteSet(Months) /\ month \in Months /\ \A m \in Months : m \in Nat \ {0}
<1>1. ASSUME NEW x \in Sessions \X Pages
      PROVE  /\ urlLog[x[1]][x[2]] \in Nat /\ logged[x[1]][x[2]] \in Nat
             /\ Waiting(x) \in Nat /\ Taken(x) \in Nat
  <2>1. x[1] \in Sessions /\ x[2] \in Pages OBVIOUS
  <2>2. urlLog[x[1]] \in Text /\ logged[x[1]] \in Text BY <2>1, TextTypes
  <2>3. urlLog[x[1]][x[2]] \in Nat /\ logged[x[1]][x[2]] \in Nat BY <2>1, <2>2 DEF Text
  <2>4. urlLog[x[1]][x[2]] <= logged[x[1]][x[2]] BY <2>1 DEF LogInv
  <2> QED BY <2>3, <2>4 DEF Waiting, Taken
<1>2. IsFiniteSet(Sessions \X Pages) BY ReportAssumption, FS_Product
<1>3. \A url, u : IsFiniteSet(Mine(url, u)) BY <1>2, FS_Subset DEF Mine
<1>4. IsFiniteSet(Months) BY FS_Interval, ReportAssumption DEF Months
<1>5. \A url, u : Mine(url, u) \subseteq Sessions \X Pages BY DEF Mine
<1>6. month \in Months /\ \A m \in Months : m \in Nat \ {0}
  BY SettingTypes DEF TypeOK, Months
<1>7. \A url \in Urls, u \in Users, m \in Months : popularity[<<url, u, m>>] \in Nat
  BY DEF TypeOK
<1> QED BY <1>1, <1>3, <1>4, <1>5, <1>6, <1>7

\* Steps that change neither the rating nor what is taken.
LEMMA RatingStays ==
  ASSUME RatingInv, popularity' = popularity, users' = Users => users = Users,
         \A x \in Sessions \X Pages : Taken(x)' = Taken(x),
         \A m \in Months : m <= month => m <= month',
         month' = 1 => month = 1
  PROVE  RatingInv'
<1>1. ASSUME NEW url, NEW u PROVE Visits(url, u)' = Visits(url, u)
  <2>1. \A x \in Mine(url, u) : Taken(x)' = Taken(x) BY DEF Mine
  <2>2. [x \in Mine(url, u) |-> Taken(x)'] = [x \in Mine(url, u) |-> Taken(x)] BY <2>1
  <2> QED BY <2>2 DEF Visits, Mine
<1>2. \A url, u : Rating(url, u)' = Rating(url, u) BY DEF Rating
<1> QED BY <1>1, <1>2 DEF RatingInv

\* Two functions of the visits of a user to a url that differ in one of them.
LEMMA OneVisit ==
  ASSUME TypeOK, LogInv, NEW url, NEW u, NEW e \in Sessions \X Pages, NEW n \in Nat,
         \A x \in Sessions \X Pages :
           Taken(x)' = IF x = e THEN Taken(x) + n ELSE Taken(x)
  PROVE  Visits(url, u)' = Visits(url, u) + IF e \in Mine(url, u) THEN n ELSE 0
<1> DEFINE M == Mine(url, u)
           f == [x \in M |-> Taken(x)]
           g == [x \in M |-> Taken(x)']
<1>1. IsFiniteSet(M) /\ M \subseteq Sessions \X Pages BY RatingTypes
<1>2. \A x \in M : f[x] \in Int /\ g[x] = IF x = e THEN f[x] + n ELSE f[x]
  BY <1>1, RatingTypes
<1>3. Visits(url, u) = Sum(M, f) /\ Visits(url, u)' = Sum(M, g) BY DEF Visits, Mine
<1>4. \A x \in M : g[x] \in Int BY <1>2
<1> HIDE DEF M, f, g
<1>5. Sum(M, f) \in Int BY <1>1, <1>2, SumInt
<1>6. CASE e \in M
  <2>1. Sum(M, g) = Sum(M, f) - f[e] + g[e] BY <1>1, <1>2, <1>4, <1>6, SumChange
  <2>2. g[e] = f[e] + n /\ f[e] \in Int BY <1>2, <1>6
  <2>3. Sum(M, g) = Sum(M, f) + n BY <1>5, <2>1, <2>2
  <2> QED BY <1>3, <1>6, <2>3 DEF M
<1>7. CASE e \notin M
  <2>1. \A x \in M : f[x] = g[x] BY <1>2, <1>7
  <2>2. Sum(M, g) = Sum(M, f) BY <1>1, <2>1, SumSame
  <2> QED BY <1>3, <1>5, <1>7, <2>2 DEF M
<1> QED BY <1>6, <1>7

\* UpdatePopularity rates the visits of a row, and in the first month nothing
\* else.
LEMMA UpdateRates ==
  ASSUME TypeOK, LogInv, PointInv, RatingInv,
         NEW s \in Sessions, NEW p \in Pages, UpdatePopularity(s, p)
  PROVE  RatingInv'
<1> DEFINE n == urlLog[s][p]
           url == UrlOf[p]
           u == UserOf[s]
<1>1. /\ pc = "popularity" /\ pc' = pc /\ <<s, p>> \in left /\ left' = left \ {<<s, p>>}
      /\ UNCHANGED <<logged, urlLog, month, users>>
      /\ url \in Urls /\ u \in Users
  BY ReportAssumption DEF UpdatePopularity
<1>2. n \in Nat /\ n > 0
  <2>1. <<s, p>> \in LogRows BY <1>1 DEF PointInv
  <2> QED BY <2>1, TextTypes DEF LogRows, Text
<1>3. \A x \in Sessions \X Pages :
        Taken(x)' = IF x = <<s, p>> THEN Taken(x) + n ELSE Taken(x)
  <2>1. ASSUME NEW x \in Sessions \X Pages
        PROVE  Taken(x)' = IF x = <<s, p>> THEN Taken(x) + n ELSE Taken(x)
    <3>1. logged[x[1]][x[2]] \in Nat /\ urlLog[x[1]][x[2]] \in Nat BY RatingTypes
    <3>2. CASE x = <<s, p>>
      <4>1. Waiting(x) = n /\ Waiting(x)' = 0 BY <1>1, <3>2 DEF Waiting
      <4> QED BY <1>1, <1>2, <3>1, <3>2, <4>1 DEF Taken
    <3>3. CASE x # <<s, p>>
      <4>1. Waiting(x)' = Waiting(x) BY <1>1, <3>3 DEF Waiting
      <4> QED BY <1>1, <3>3, <4>1 DEF Taken
    <3> QED BY <3>2, <3>3
  <2> QED BY <2>1
<1>4. \A v \in Urls, w \in Users, m \in Months :
        popularity'[<<v, w, m>>] =
          IF v = url /\ w = u
            THEN IF popularity[<<url, u, month>>] > 0
                   THEN IF popularity[<<v, w, m>>] > 0
                          THEN popularity[<<v, w, m>>] + n ELSE popularity[<<v, w, m>>]
                   ELSE IF m = month THEN n ELSE popularity[<<v, w, m>>]
            ELSE popularity[<<v, w, m>>]
  <2>1. popularity' = [x \in Urls \X Users \X Months |->
           IF popularity[<<url, u, month>>] > 0 /\ popularity[x] > 0
              /\ \E m \in Months : x = <<url, u, m>>
             THEN popularity[x] + n
           ELSE IF ~(popularity[<<url, u, month>>] > 0) /\ x = <<url, u, month>> THEN n
           ELSE popularity[x]]
    BY DEF UpdatePopularity, Rated
  <2> HIDE DEF url, u, n
  <2>2. ASSUME NEW v \in Urls, NEW w \in Users, NEW m \in Months
        PROVE  /\ <<v, w, m>> \in Urls \X Users \X Months
               /\ (\E i \in Months : <<v, w, m>> = <<url, u, i>>) <=> v = url /\ w = u
               /\ <<v, w, m>> = <<url, u, month>> <=> v = url /\ w = u /\ m = month
    OBVIOUS
  <2>3. ASSUME NEW v \in Urls, NEW w \in Users, NEW m \in Months
        PROVE  popularity'[<<v, w, m>>] =
                 IF popularity[<<url, u, month>>] > 0 /\ popularity[<<v, w, m>>] > 0
                    /\ v = url /\ w = u
                   THEN popularity[<<v, w, m>>] + n
                 ELSE IF ~(popularity[<<url, u, month>>] > 0)
                         /\ v = url /\ w = u /\ m = month THEN n
                 ELSE popularity[<<v, w, m>>]
    BY <2>1, <2>2
  <2> QED BY <2>3
<1>5. /\ \A v \in Urls, w \in Users, m \in Months : popularity[<<v, w, m>>] \in Nat
      /\ IsFiniteSet(Months) /\ month \in Months /\ \A m \in Months : m \in Nat \ {0}
  BY RatingTypes
<1> HIDE DEF n
<1>6. ASSUME NEW v \in Urls, NEW w \in Users, NEW m \in Months, popularity'[<<v, w, m>>] > 0
      PROVE  m <= month'
  <2>1. popularity[<<v, w, m>>] > 0 \/ m = month BY <1>4, <1>5, <1>6
  <2> QED BY <1>1, <1>5, <2>1 DEF RatingInv
<1>7. ASSUME users = Users, NEW v \in Urls, NEW w \in Users
      PROVE  /\ Rating(v, w)' >= Visits(v, w)'
             /\ month = 1 => Rating(v, w)' = Visits(v, w)'
  <2>1. /\ Rating(v, w) >= Visits(v, w)
        /\ month = 1 => Rating(v, w) = Visits(v, w)
        /\ \A m \in Months : popularity[<<v, w, m>>] > 0 => m <= month
    BY <1>7 DEF RatingInv
  <2>2. <<s, p>> \in Mine(v, w) <=> v = url /\ w = u BY DEF Mine
  <2>3. Visits(v, w)' = Visits(v, w) + IF v = url /\ w = u THEN n ELSE 0
    BY <1>2, <1>3, <2>2, OneVisit
  <2>4. CASE ~(v = url /\ w = u)
    <3>1. \A m \in Months : popularity'[<<v, w, m>>] = popularity[<<v, w, m>>]
      BY <1>4, <2>4
    <3>2. Rating(v, w)' = Rating(v, w) BY <3>1 DEF Rating
    <3>3. Visits(v, w) \in Int
      <4> DEFINE f == [x \in Mine(v, w) |-> Taken(x)]
      <4>1. IsFiniteSet(Mine(v, w)) /\ \A x \in Mine(v, w) : f[x] \in Int BY RatingTypes
      <4> HIDE DEF f
      <4>2. Sum(Mine(v, w), f) \in Int BY <4>1, SumInt
      <4> QED BY <4>2 DEF f, Visits
    <3> QED BY <2>1, <2>3, <2>4, <3>2, <3>3
  <2>5. CASE v = url /\ w = u
    <3> DEFINE f == [m \in Months |-> popularity[<<v, w, m>>]]
               g == [m \in Months |-> popularity'[<<v, w, m>>]]
               h == [m \in Months |-> IF m = month THEN f[m] + n ELSE f[m]]
    <3>1. \A m \in Months :
            /\ f[m] \in Nat /\ h[m] = IF m = month THEN f[m] + n ELSE f[m]
            /\ g[m] = IF f[month] > 0
                        THEN IF f[m] > 0 THEN f[m] + n ELSE f[m]
                        ELSE IF m = month THEN n ELSE f[m]
            /\ f[m] > 0 => m <= month
      BY <1>4, <1>5, <2>1, <2>5
    <3>2. Rating(v, w) = Sum(Months, f) /\ Rating(v, w)' = Sum(Months, g)
      BY DEF Rating
    <3> HIDE DEF f, g, h
    <3>3. \A m \in Months : h[m] \in Int /\ g[m] \in Int /\ f[m] \in Int /\ h[m] <= g[m]
      BY <1>2, <1>5, <3>1
    <3>4. Sum(Months, h) = Sum(Months, f) + n
      <4>1. IsFiniteSet(Months) /\ month \in Months BY <1>5
      <4>2. n \in Int BY <1>2
      <4>3. \A m \in Months : f[m] \in Int BY <3>3
      <4>4. \A m \in Months : h[m] = IF m = month THEN f[m] + n ELSE f[m] BY <3>1
      <4> QED BY <4>1, <4>2, <4>3, <4>4, SumGrows
    <3>5. /\ Sum(Months, h) \in Int /\ Sum(Months, f) \in Int /\ Sum(Months, g) \in Int
      BY <1>5, <3>3, SumInt
    <3>6. Sum(Months, h) <= Sum(Months, g) BY <1>5, <3>3, SumMonotone
    <3>7. month = 1 => Sum(Months, g) = Sum(Months, h)
      <4>1. month = 1 => \A m \in Months : g[m] = h[m]
        BY <1>2, <1>5, <3>1
      <4> QED BY <1>5, <4>1, SumSame
    <3>8. Visits(v, w) \in Int
      <4> DEFINE i == [x \in Mine(v, w) |-> Taken(x)]
      <4>1. IsFiniteSet(Mine(v, w)) /\ \A x \in Mine(v, w) : i[x] \in Int BY RatingTypes
      <4> HIDE DEF i
      <4>2. Sum(Mine(v, w), i) \in Int BY <4>1, SumInt
      <4> QED BY <4>2 DEF i, Visits
    <3> QED BY <1>2, <2>1, <2>3, <2>5, <3>2, <3>4, <3>5, <3>6, <3>7, <3>8
  <2> QED BY <2>4, <2>5
<1> QED BY <1>1, <1>6, <1>7 DEF RatingInv

\* The steps keep the rating.
LEMMA RatingStep ==
  ASSUME TypeOK, LogInv, PointInv, RatingInv, Step
  PROVE  RatingInv'
<1>1. /\ \A x \in Sessions \X Pages :
           urlLog[x[1]][x[2]] \in Nat /\ logged[x[1]][x[2]] \in Nat
      /\ month \in Nat \ {0} /\ \A m \in Months : m \in Nat
  BY RatingTypes
<1>2. ASSUME NEW s \in Sessions, NEW p \in Pages, Log(s, p) PROVE RatingInv'
  <2>1. /\ pc = "sleep" /\ UNCHANGED <<popularity, users, month, pc>>
        /\ logged' = [logged EXCEPT ![s][p] = @ + 1] /\ urlLog' = [urlLog EXCEPT ![s][p] = @ + 1]
        /\ logged \in [Sessions -> [Pages -> 0..MaxResponses]]
        /\ urlLog \in [Sessions -> [Pages -> 0..MaxResponses]]
    BY <1>2 DEF Log, localVars, TypeOK
  <2>2. ASSUME NEW x \in Sessions \X Pages PROVE Taken(x)' = Taken(x)
    <3>1. x[1] \in Sessions /\ x[2] \in Pages OBVIOUS
    <3>2. /\ logged'[x[1]][x[2]] = IF x[1] = s /\ x[2] = p THEN logged[x[1]][x[2]] + 1
                                                           ELSE logged[x[1]][x[2]]
          /\ urlLog'[x[1]][x[2]] = IF x[1] = s /\ x[2] = p THEN urlLog[x[1]][x[2]] + 1
                                                           ELSE urlLog[x[1]][x[2]]
      BY <2>1, <3>1
    <3>3. /\ Taken(x) = logged[x[1]][x[2]] - urlLog[x[1]][x[2]]
          /\ Taken(x)' = logged'[x[1]][x[2]] - urlLog'[x[1]][x[2]]
      BY <2>1 DEF Taken, Waiting
    <3> QED BY <1>1, <3>2, <3>3
  <2> QED BY <2>1, <2>2, RatingStays
<1>3. CASE Write
  <2>1. /\ pc = "write" /\ pc' = "popularity" /\ left' = LogRows
        /\ UNCHANGED <<logged, urlLog, popularity, users, month>>
    BY <1>3 DEF Write
  <2>2. ASSUME NEW x \in Sessions \X Pages PROVE Taken(x)' = Taken(x)
    <3>1. x \notin LogRows => urlLog[x[1]][x[2]] = 0 BY <1>1 DEF LogRows
    <3>2. Waiting(x)' = Waiting(x) BY <2>1, <3>1 DEF Waiting
    <3> QED BY <2>1, <3>2 DEF Taken
  <2> QED BY <2>1, <2>2, RatingStays
<1>4. CASE AggregateDelete
  <2>1. /\ pc = "popularity" /\ pc' = "sleep" /\ left = {}
        /\ urlLog' = [s \in Sessions |-> Nothing]
        /\ UNCHANGED <<logged, popularity, users, month>>
    BY <1>4 DEF AggregateDelete, Sleep
  <2>2. ASSUME NEW x \in Sessions \X Pages PROVE Taken(x)' = Taken(x)
    <3>1. urlLog'[x[1]][x[2]] = 0 BY <2>1 DEF Nothing
    <3>2. Waiting(x)' = 0 /\ Waiting(x) = 0 BY <2>1, <3>1 DEF Waiting
    <3> QED BY <2>1, <3>2 DEF Taken
  <2> QED BY <2>1, <2>2, RatingStays
<1>5. CASE UidIsNull
  <2>1. pc = "popularity" /\ UNCHANGED <<popularity, users, month>>
    BY <1>5 DEF UidIsNull, dataVars
  <2>2. users # Users
    <3>1. PICK x \in left : UserOf[x[1]] \notin uids BY <1>5 DEF UidIsNull
    <3>2. x[1] \in LogSessions BY <2>1 DEF PointInv, LogSessions
    <3> QED BY <2>1, <3>1, <3>2 DEF PointInv
  <2> QED BY <2>1, <2>2 DEF RatingInv
<1>6. ASSUME UNCHANGED <<logged, urlLog, popularity>>, users' = Users => users = Users,
             month' \in {month, month + 1},
             pc' = "popularity" <=> pc = "popularity", pc = "popularity" => left' = left
      PROVE  RatingInv'
  <2>1. \A x \in Sessions \X Pages : Taken(x)' = Taken(x) BY <1>6 DEF Taken, Waiting
  <2>2. /\ \A m \in Months : m <= month => m <= month'
        /\ month' = 1 => month = 1
    BY <1>1, <1>6
  <2> QED BY <1>6, <2>1, <2>2, RatingStays
<1>7. ASSUME NEW u \in Users, DeleteUser(u) PROVE RatingInv'
  <2>1. users' # Users BY <1>7 DEF DeleteUser
  <2> QED BY <1>6, <1>7, <2>1 DEF DeleteUser, localVars
<1>8. CASE MonthPasses BY <1>6, <1>8 DEF MonthPasses, localVars
<1>9. CASE AggregateSelect \/ Regroup \/ Erase \/ \E s \in Sessions : Parse(s)
  BY <1>6, <1>9 DEF AggregateSelect, Regroup, Erase, Parse, dataVars
<1>10. ASSUME NEW s \in Sessions, NEW p \in Pages, UpdatePopularity(s, p) PROVE RatingInv'
  BY <1>10, UpdateRates
<1> QED
  BY <1>2, <1>3, <1>4, <1>5, <1>7, <1>8, <1>9, <1>10 DEF Step, Aggregate

-----------------------------------------------------------------------------
(* Theorems *)

\* The start has all the parts: nothing is counted anywhere.
LEMMA InitInv ==
  ASSUME Init
  PROVE  ReportInv
<1>1. TypeOK
  <2>1. Nothing \in Text /\ Nothing \in [Pages -> 0..MaxResponses] /\ 1 \in Months
    BY CountNothing, ReportAssumption DEF Nothing, Months
  <2>2. /\ logged \in [Sessions -> [Pages -> 0..MaxResponses]]
        /\ urlLog \in [Sessions -> [Pages -> 0..MaxResponses]]
        /\ texts \in [Sessions -> Text]
    BY <2>1 DEF Init
  <2>3. popularity \in [Urls \X Users \X Months -> Nat] BY DEF Init
  <2>4. MaxAggregations \in 0..MaxAggregations BY ReportAssumption
  <2> QED BY <2>1, <2>2, <2>3, <2>4 DEF Init, TypeOK
<1>2. LogInv BY DEF Init, LogInv, Nothing
<1>3. PointInv BY DEF Init, PointInv
<1>4. ItemInv BY DEF Init, ItemInv
<1>5. \A s \in Sessions, k \in Keys :
        Protocol(s, k) = 0 /\ Due(s, k) = 0
  BY CountNothing DEF Init, Protocol, Due, Came, InLog, InText, TextOf
<1>6. ProtocolInv
  <2>1. ASSUME NEW k \in Keys
        PROVE  Sum(Sessions, [s \in Sessions |-> Protocol(s, k)])
                 >= Sum(Sessions, [s \in Sessions |-> Due(s, k)])
    <3> DEFINE f == [s \in Sessions |-> Protocol(s, k)]
               g == [s \in Sessions |-> Due(s, k)]
    <3>1. \A s \in Sessions : f[s] = 0 /\ g[s] = 0 BY <1>5
    <3> HIDE DEF f, g
    <3>2. Sum(Sessions, f) = 0 /\ Sum(Sessions, g) = 0
      BY <3>1, SumZero, ReportAssumption
    <3> QED BY <3>2 DEF f, g
  <2> QED BY <1>5, <2>1 DEF ProtocolInv
<1>7. RatingInv
  <2> SUFFICES ASSUME NEW url \in Urls, NEW u \in Users
               PROVE  /\ \A m \in Months : popularity[<<url, u, m>>] = 0
                      /\ Rating(url, u) = 0 /\ Visits(url, u) = 0
    BY DEF RatingInv
  <2> DEFINE f == [m \in Months |-> popularity[<<url, u, m>>]]
             g == [x \in Mine(url, u) |-> Taken(x)]
  <2>1. \A m \in Months : popularity[<<url, u, m>>] = 0 BY DEF Init
  <2>2. \A m \in Months : f[m] = 0 BY <2>1
  <2>3. \A x \in Mine(url, u) : g[x] = 0
    BY DEF Init, Mine, Taken, Waiting, Nothing
  <2>4. IsFiniteSet(Months) /\ IsFiniteSet(Mine(url, u)) BY <1>1, <1>2, RatingTypes
  <2> HIDE DEF f, g
  <2>5. Sum(Months, f) = 0 /\ Sum(Mine(url, u), g) = 0 BY <2>2, <2>3, <2>4, SumZero
  <2> QED BY <2>1, <2>5 DEF f, g, Rating, Visits
<1> QED BY <1>1, <1>2, <1>3, <1>4, <1>6, <1>7 DEF ReportInv

\* Every step keeps the invariant.
LEMMA ReportStep ==
  ASSUME ReportInv, [Next]_vars
  PROVE  ReportInv'
<1> USE DEF ReportInv
<1>1. CASE UNCHANGED vars
  <2> USE DEF vars, dataVars, localVars
  <2>1. TypeOK' BY <1>1 DEF TypeOK
  <2>2. LogInv' BY <1>1 DEF LogInv
  <2>3. PointInv' BY <1>1, RowsKept DEF PointInv
  <2>4. \A s, k :
          /\ Came(s, k)' = Came(s, k) /\ InLog(s, k)' = InLog(s, k)
          /\ InText(s, k)' = InText(s, k) /\ InNew(s, k)' = InNew(s, k)
    BY <1>1 DEF Came, InLog, InText, InNew, TextOf, CountOfKey, PagesOf, Nothing
  <2>5. ItemInv'
    <3>1. \A s, k : ParsedCount(s, k)' = ParsedCount(s, k)
      BY <1>1, <2>4, RowsKept DEF ParsedCount, Parsed
    <3> QED BY <1>1, <3>1 DEF ItemInv, ItemCount
  <2>6. ProtocolInv'
    <3>1. \A s, k : Protocol(s, k)' = Protocol(s, k) /\ Due(s, k)' = Due(s, k)
                    /\ Own(s, k)' = Own(s, k)
      BY <1>1, <2>4 DEF Protocol, Due, Own
    <3> QED BY <1>1, <3>1 DEF ProtocolInv
  <2>7. RatingInv' BY <1>1 DEF RatingInv, Rating, Visits, Taken, Waiting
  <2> QED BY <2>1, <2>2, <2>3, <2>5, <2>6, <2>7
<1>2. CASE Next
  BY <1>2, TypeStep, LogStep, PointStep, ItemStep, ProtocolStep, RatingStep DEF Next
<1> QED BY <1>1, <1>2

\* The invariant of the tables that the Aggregator writes.
THEOREM ReportInvariant == Spec => []ReportInv
<1>1. Init => ReportInv BY InitInv
<1>2. ReportInv /\ [Next]_vars => ReportInv' BY ReportStep
<1> QED BY <1>1, <1>2, PTL DEF Spec

\* The tables and the locals of Aggregate() keep their types.
THEOREM ReportTypes == Spec => []TypeOK
<1>1. ReportInv => TypeOK BY DEF ReportInv
<1> QED BY <1>1, ReportInvariant, PTL

\* No response is missing in the protocols taken together, whatever is merged,
\* and whoever is deleted meanwhile.
THEOREM ProtocolsAreComplete == Spec => []ProtocolsComplete
<1>1. ReportInv => ProtocolsComplete
  <2> SUFFICES ASSUME ReportInv, pc = "sleep", NEW k \in Keys
               PROVE  Sum(Sessions, [s \in Sessions |-> CountOfKey(TextOf(s), k)])
                        >= Sum(Sessions, [s \in Sessions |->
                                 CountOfKey([p \in Pages |-> Aggregated(s, p)], k)])
    BY DEF ProtocolsComplete
  <2>1. TypeOK /\ LogInv /\ ProtocolInv BY DEF ReportInv
  <2>2. \A s \in Sessions :
          /\ Protocol(s, k) = CountOfKey(TextOf(s), k)
          /\ Due(s, k) = CountOfKey([p \in Pages |-> Aggregated(s, p)], k)
    BY <2>1, CountTypes, AggregatedCount DEF Protocol, Due, InText
  <2>3. /\ [s \in Sessions |-> Protocol(s, k)] = [s \in Sessions |-> CountOfKey(TextOf(s), k)]
        /\ [s \in Sessions |-> Due(s, k)]
             = [s \in Sessions |-> CountOfKey([p \in Pages |-> Aggregated(s, p)], k)]
    BY <2>2
  <2>4. Sum(Sessions, [s \in Sessions |-> Protocol(s, k)])
          >= Sum(Sessions, [s \in Sessions |-> Due(s, k)])
    BY <2>1 DEF ProtocolInv
  <2> QED BY <2>3, <2>4
<1> QED BY <1>1, ReportInvariant, PTL

\* The pages that only one session has are counted exactly, in its protocol
\* alone, and so are all pages when protocols are not merged.
THEOREM OwnPagesAreExact == Spec => []OwnPagesExact
<1>1. ReportInv => OwnPagesExact
  <2> SUFFICES ASSUME ReportInv, pc = "sleep", users = Users,
                      NEW k \in Keys, NEW s \in Sessions,
                      \/ ~setting.merging
                      \/ \A t \in Sessions \ {s} : CountOfKey(logged[t], k) = 0
               PROVE  /\ CountOfKey(TextOf(s), k)
                           = CountOfKey([p \in Pages |-> Aggregated(s, p)], k)
                      /\ setting.merging =>
                           \A t \in Sessions \ {s} : CountOfKey(TextOf(t), k) = 0
    BY DEF OwnPagesExact
  <2>1. TypeOK /\ LogInv /\ ProtocolInv BY DEF ReportInv
  <2>2. Own(s, k) BY DEF Own, Came
  <2>3. \A t \in Sessions :
          /\ Protocol(t, k) = CountOfKey(TextOf(t), k)
          /\ Due(t, k) = CountOfKey([p \in Pages |-> Aggregated(t, p)], k)
    BY <2>1, CountTypes, AggregatedCount DEF Protocol, Due, InText
  <2> QED BY <2>1, <2>2, <2>3 DEF ProtocolInv
<1> QED BY <1>1, ReportInvariant, PTL

\* The rating of a url has every visit, and in the first month none twice.
THEOREM RatingIsComplete == Spec => []RatingComplete
<1>1. ReportInv => RatingComplete
  <2> SUFFICES ASSUME ReportInv, pc = "sleep", users = Users,
                      NEW url \in Urls, NEW u \in Users
               PROVE  LET mine == Mine(url, u)
                          visits == Sum(mine, [x \in mine |-> Aggregated(x[1], x[2])])
                      IN  Rating(url, u) >= visits /\ (month = 1 => Rating(url, u) = visits)
    BY DEF RatingComplete, Rating, Mine
  <2>1. \A x \in Mine(url, u) : Taken(x) = Aggregated(x[1], x[2])
    BY DEF Taken, Waiting, Aggregated
  <2>2. [x \in Mine(url, u) |-> Taken(x)]
          = [x \in Mine(url, u) |-> Aggregated(x[1], x[2])]
    BY <2>1
  <2> QED BY <2>2 DEF ReportInv, RatingInv, Visits
<1> QED BY <1>1, ReportInvariant, PTL

=============================================================================
