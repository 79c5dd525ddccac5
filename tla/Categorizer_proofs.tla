-------------------------- MODULE Categorizer_proofs --------------------------
(***************************************************************************)
(* Proofs about Categorizer, for any hosts, categories, threads and        *)
(* scenarios: what is in memory is in the table, and the table is not      *)
(* asked to take what it would refuse.                                     *)
(***************************************************************************)
EXTENDS Categorizer, TLAPS

\* A thread that analyses has a host.
HostKnown ==
  \A t \in Recognizers :
    rec[t].pc \in {"add", "analyse", "enter", "insert"} => rec[t].host \in Hosts

\* rwLock
OneInside ==
  \A t, u \in Recognizers : rec[t].pc = "insert" /\ rec[u].pc = "insert" => t = u

\* reloadData reads rows that stay in the table, but for those that are edited.
UnreadInTable == \A x \in unread : x \in rows \/ edited[x.url] = "new"

\* Rows are left to be put into the map only while reloadData does so.
ReadOut == reload # "fill" => unread = {}

\* Without reloads the map covers the table, but for what is edited, and a
\* category that is about to be inserted is in the map already.
MapCoversTable ==
  ~Has("reload") =>
    /\ reload = "idle"
    /\ \A h \in Hosts : edited[h] # "old"
    /\ \A x \in rows : url_cat[x.url] # NoCid \/ edited[x.url] # "none"
    /\ \A t \in Recognizers : rec[t].pc = "insert" => url_cat[rec[t].host] # NoCid

CatInv ==
  /\ CatTypeOK
  /\ HostKnown
  /\ OneInside
  /\ UnreadInTable
  /\ ReadOut
  /\ MapCoversTable
  /\ InsertsSucceed
  /\ MemoryBacked

catSpecVars == <<catVars, scenario>>
CatStep == CatNext /\ UNCHANGED scenario

-----------------------------------------------------------------------------
(* Types *)

\* A step keeps the types.
LEMMA CatTypeStep ==
  ASSUME CatTypeOK, HostKnown, [CatStep]_catSpecVars
  PROVE  CatTypeOK'
<1> USE DEF CatTypeOK, AllRows, RecPoints, ReloadPoints, Moves, OnlyRec, OnlyReload,
            editVars
<1>1. ASSUME NEW t \in Recognizers, NEW h \in Hosts \cup {NoHost}, StartRecognizer(t, h)
      PROVE  CatTypeOK'
  BY <1>1 DEF StartRecognizer
<1>2. ASSUME NEW t \in Recognizers, NEW C \in SUBSET Hosts, Begin(t, C)
      PROVE  CatTypeOK'
  BY <1>2 DEF Begin
<1>3. ASSUME NEW t \in Recognizers, AddAnalysis(t) PROVE CatTypeOK'
  <2>1. rec[t].host \in Hosts
    BY <1>3 DEF AddAnalysis, HostKnown
  <2> QED BY <1>3, <2>1 DEF AddAnalysis, SetAnalysis
<1>4. ASSUME NEW t \in Recognizers, Recognize(t) PROVE CatTypeOK'
  <2>1. ASSUME NEW c \in {CategoryOf[h] : h \in rec[t].content} \cup {Unrecognized}
        PROVE  c \in Cids
    BY <2>1, CategoryAssumption
  <2> QED BY <1>4, <2>1 DEF Recognize
<1>5. ASSUME NEW t \in Recognizers, AddToMap(t) PROVE CatTypeOK'
  <2>1. rec[t].host \in Hosts /\ rec[t].cid \in Cids
    BY <1>5 DEF AddToMap, HostKnown
  <2> QED BY <1>5, <2>1 DEF AddToMap, SetAnalysis
<1>6. ASSUME NEW t \in Recognizers, AddMatch(t) PROVE CatTypeOK'
  <2>1. Row(rec[t].host, rec[t].cid) \in AllRows
    BY <1>6 DEF AddMatch, HostKnown, Row
  <2>2. rows' \in SUBSET AllRows
    BY <1>6, <2>1 DEF AddMatch, Insert
  <2> QED BY <1>6, <2>2 DEF AddMatch
<1>7. CASE ReloadBegin
  BY <1>7, CategoryAssumption DEF ReloadBegin
<1>8. CASE ReloadData
  BY <1>8 DEF ReloadData, ReloadSelect, ReloadForgetDenied, ReloadDenied, ReloadFill
<1>9. CASE Administration
  BY <1>9, CategoryAssumption DEF Administration, AddUrlCategoryMatch,
     UpdateUrlCategoryMatch, DeleteUrlCategoryMatch, Edits
<1>10. CASE UNCHANGED catSpecVars
  BY <1>10 DEF catSpecVars, catVars, editVars
<1> QED BY <1>1, <1>2, <1>3, <1>4, <1>5, <1>6, <1>7, <1>8, <1>9, <1>10
        DEF CatStep, CatNext, Recognizer

-----------------------------------------------------------------------------
(* The invariant *)

\* A thread keeps its host.
LEMMA HostStep ==
  ASSUME CatTypeOK, HostKnown, [CatStep]_catSpecVars
  PROVE  HostKnown'
<1> USE DEF CatTypeOK, HostKnown, Moves, OnlyRec, OnlyReload
<1>1. ASSUME NEW t \in Recognizers, NEW h \in Hosts \cup {NoHost}, StartRecognizer(t, h)
      PROVE  HostKnown'
  BY <1>1 DEF StartRecognizer
<1>2. ASSUME NEW t \in Recognizers, NEW C \in SUBSET Hosts, Begin(t, C)
      PROVE  HostKnown'
  BY <1>2 DEF Begin
<1>3. ASSUME NEW t \in Recognizers, AddAnalysis(t) PROVE HostKnown'
  BY <1>3 DEF AddAnalysis
<1>4. ASSUME NEW t \in Recognizers, Recognize(t) PROVE HostKnown'
  BY <1>4 DEF Recognize
<1>5. ASSUME NEW t \in Recognizers, AddToMap(t) PROVE HostKnown'
  <2>1. \/ rec' = [rec EXCEPT ![t].pc = "insert"]
        \/ rec' = [rec EXCEPT ![t].pc = "done"]
    BY <1>5 DEF AddToMap
  <2>2. rec[t].pc = "enter" /\ \A u \in Recognizers : rec[u].pc # "insert"
    BY <1>5 DEF AddToMap, RwLockFree
  <2> QED BY <2>1, <2>2
<1>6. ASSUME NEW t \in Recognizers, AddMatch(t) PROVE HostKnown'
  BY <1>6 DEF AddMatch
<1>7. CASE ReloadBegin \/ ReloadData \/ Administration
  BY <1>7 DEF ReloadBegin, ReloadData, ReloadSelect, ReloadForgetDenied,
              ReloadDenied, ReloadFill, Administration, AddUrlCategoryMatch,
              UpdateUrlCategoryMatch, DeleteUrlCategoryMatch, Edits
<1>8. CASE UNCHANGED catSpecVars
  BY <1>8 DEF catSpecVars, catVars
<1> QED BY <1>1, <1>2, <1>3, <1>4, <1>5, <1>6, <1>7, <1>8
        DEF CatStep, CatNext, Recognizer

\* rwLock keeps the others out.
LEMMA InsideStep ==
  ASSUME CatTypeOK, OneInside, [CatStep]_catSpecVars
  PROVE  OneInside'
<1> USE DEF CatTypeOK, OneInside, Moves, OnlyRec, OnlyReload
<1>1. ASSUME NEW t \in Recognizers, NEW h \in Hosts \cup {NoHost}, StartRecognizer(t, h)
      PROVE  OneInside'
  BY <1>1 DEF StartRecognizer
<1>2. ASSUME NEW t \in Recognizers, NEW C \in SUBSET Hosts, Begin(t, C)
      PROVE  OneInside'
  BY <1>2 DEF Begin
<1>3. ASSUME NEW t \in Recognizers, AddAnalysis(t) PROVE OneInside'
  BY <1>3 DEF AddAnalysis
<1>4. ASSUME NEW t \in Recognizers, Recognize(t) PROVE OneInside'
  BY <1>4 DEF Recognize
<1>5. ASSUME NEW t \in Recognizers, AddToMap(t) PROVE OneInside'
  <2>1. \/ rec' = [rec EXCEPT ![t].pc = "insert"]
        \/ rec' = [rec EXCEPT ![t].pc = "done"]
    BY <1>5 DEF AddToMap
  <2>2. rec[t].pc = "enter" /\ \A u \in Recognizers : rec[u].pc # "insert"
    BY <1>5 DEF AddToMap, RwLockFree
  <2> QED BY <2>1, <2>2
<1>6. ASSUME NEW t \in Recognizers, AddMatch(t) PROVE OneInside'
  BY <1>6 DEF AddMatch
<1>7. CASE ReloadBegin \/ ReloadData \/ Administration
  BY <1>7 DEF ReloadBegin, ReloadData, ReloadSelect, ReloadForgetDenied,
              ReloadDenied, ReloadFill, Administration, AddUrlCategoryMatch,
              UpdateUrlCategoryMatch, DeleteUrlCategoryMatch, Edits
<1>8. CASE UNCHANGED catSpecVars
  BY <1>8 DEF catSpecVars, catVars
<1> QED BY <1>1, <1>2, <1>3, <1>4, <1>5, <1>6, <1>7, <1>8
        DEF CatStep, CatNext, Recognizer

\* A row leaves the table only with an edit of its host, and edits are
\* remembered.
LEMMA RowsKept ==
  ASSUME CatTypeOK, [CatStep]_catSpecVars
  PROVE  /\ \A x \in rows : x \in rows' \/ edited'[x.url] = "new"
         /\ ReloadBegin \/ \A h \in Hosts : edited[h] = "new" => edited'[h] = "new"
         /\ \A h \in Hosts : edited[h] # "none" => edited'[h] # "none"
<1> DEFINE Goal ==
      /\ \A x \in rows : x \in rows' \/ edited'[x.url] = "new"
      /\ ReloadBegin \/ \A h \in Hosts : edited[h] = "new" => edited'[h] = "new"
      /\ \A h \in Hosts : edited[h] # "none" => edited'[h] # "none"
<1> USE DEF OnlyRec, OnlyReload, editVars
<1>1. ASSUME NEW t \in Recognizers, AddMatch(t) PROVE Goal
  BY <1>1 DEF AddMatch, Insert
<1>2. CASE UNCHANGED <<rows, edited>>
  BY <1>2
<1>3. CASE ReloadBegin
  BY <1>3 DEF ReloadBegin, CatTypeOK
<1>4. ASSUME NEW H \in SUBSET Hosts, Edits(H),
             \A x \in rows : x \in rows' \/ x.url \in H
      PROVE  Goal
  <2>1. \A x \in rows : x.url \in Hosts
    BY DEF CatTypeOK, AllRows
  <2>2. \A h \in Hosts : edited'[h] = IF h \in H THEN "new" ELSE edited[h]
    BY <1>4 DEF Edits
  <2> QED BY <1>4, <2>1, <2>2
<1>5. CASE Administration
  <2>1. PICK x \in AllRows : \/ AddUrlCategoryMatch(x)
                             \/ \E y \in AllRows : UpdateUrlCategoryMatch(x, y)
                             \/ DeleteUrlCategoryMatch(x)
    BY <1>5 DEF Administration
  <2>2. CASE AddUrlCategoryMatch(x)
    BY <2>2, <1>4 DEF AddUrlCategoryMatch, AllRows
  <2>3. ASSUME NEW y \in AllRows, UpdateUrlCategoryMatch(x, y) PROVE Goal
    <3>1. {x.url, y.url} \in SUBSET Hosts
      BY DEF AllRows
    <3> QED BY <2>3, <3>1, <1>4 DEF UpdateUrlCategoryMatch
  <2>4. CASE DeleteUrlCategoryMatch(x)
    BY <2>4, <1>4 DEF DeleteUrlCategoryMatch, AllRows
  <2> QED BY <2>1, <2>2, <2>3, <2>4
<1> QED BY <1>1, <1>2, <1>3, <1>5 DEF CatStep, CatNext, Recognizer, StartRecognizer,
        Begin, AddAnalysis, Recognize, AddToMap, ReloadData, ReloadSelect,
        ReloadForgetDenied, ReloadDenied, ReloadFill, catSpecVars, catVars

\* reloadData reads the whole result.
LEMMA ReadOutStep ==
  ASSUME CatTypeOK, ReadOut, [CatStep]_catSpecVars
  PROVE  ReadOut'
<1>1. CASE UNCHANGED <<reload, unread>>
  BY <1>1 DEF ReadOut
<1>2. CASE ReloadBegin
  BY <1>2 DEF ReadOut, ReloadBegin
<1>3. CASE ReloadData
  BY <1>3 DEF ReadOut, ReloadData, ReloadSelect, ReloadForgetDenied, ReloadDenied,
              ReloadFill
<1> QED BY <1>1, <1>2, <1>3 DEF CatStep, CatNext, Recognizer, StartRecognizer, Begin,
       AddAnalysis, Recognize, AddToMap, AddMatch, OnlyRec, Administration,
       AddUrlCategoryMatch, UpdateUrlCategoryMatch, DeleteUrlCategoryMatch, Edits,
       catSpecVars, catVars

\* What reloadData has read stays in the table, or is edited meanwhile.
LEMMA UnreadStep ==
  ASSUME CatTypeOK, UnreadInTable, ReadOut, [CatStep]_catSpecVars
  PROVE  UnreadInTable'
<1>1. \A x \in unread : x.url \in Hosts
  BY DEF CatTypeOK, AllRows
<1>2. CASE ReloadBegin
  BY <1>2 DEF ReloadBegin, ReadOut, UnreadInTable
<1>3. CASE ReloadSelect
  BY <1>3 DEF ReloadSelect, UnreadInTable, OnlyReload
<1>4. CASE ~ReloadBegin /\ ~ReloadSelect
  <2>1. unread' \subseteq unread
    BY <1>4 DEF OnlyRec, CatStep, CatNext, Recognizer, StartRecognizer, Begin,
          AddAnalysis, Recognize, AddToMap, AddMatch, ReloadData, ReloadForgetDenied,
          ReloadDenied, ReloadFill, Administration, AddUrlCategoryMatch,
          UpdateUrlCategoryMatch, DeleteUrlCategoryMatch, Edits, catSpecVars, catVars
  <2> QED BY <1>1, <1>4, <2>1, RowsKept DEF UnreadInTable
<1> QED BY <1>2, <1>3, <1>4

\* Without reloads the map and the table move together: a host gets its row
\* after its category, and the second recogniser of a host finds the category
\* under rwLock.
LEMMA CoverStep ==
  ASSUME CatTypeOK, HostKnown, OneInside, MapCoversTable, InsertsSucceed,
         [CatStep]_catSpecVars
  PROVE  MapCoversTable' /\ InsertsSucceed'
<1> USE DEF CatTypeOK, MapCoversTable, InsertsSucceed, AllRows
<1>h. Has("reload")' <=> Has("reload")
  BY DEF CatStep, Has, catSpecVars
<1> SUFFICES ASSUME ~Has("reload")
             PROVE  MapCoversTable' /\ InsertsSucceed'
  BY <1>h
<1> USE <1>h
<1>1. ASSUME NEW t \in Recognizers,
             \/ \E h \in Hosts \cup {NoHost} : StartRecognizer(t, h)
             \/ \E C \in SUBSET Hosts : Begin(t, C)
             \/ AddAnalysis(t)
             \/ Recognize(t)
      PROVE  MapCoversTable' /\ InsertsSucceed'
  <2>1. UNCHANGED <<url_cat, rows, reload, edited>>
    BY <1>1 DEF StartRecognizer, Begin, AddAnalysis, Recognize, OnlyRec, editVars
  <2>2. \A u \in Recognizers :
          rec'[u].pc = "insert" => rec[u].pc = "insert" /\ rec'[u].host = rec[u].host
    BY <1>1 DEF StartRecognizer, Begin, AddAnalysis, Recognize, Moves
  <2> QED BY <2>1, <2>2
<1>2. ASSUME NEW t \in Recognizers, AddToMap(t)
      PROVE  MapCoversTable' /\ InsertsSucceed'
  <2> DEFINE host == rec[t].host
  <2>1. host \in Hosts /\ rec[t].cid \in Cids /\ rec[t].cid # NoCid
    BY <1>2, CategoryAssumption DEF AddToMap, HostKnown
  <2>2. \A u \in Recognizers : rec[u].pc # "insert"
    BY <1>2 DEF AddToMap, RwLockFree
  <2>3. UNCHANGED <<rows, reload, edited>>
    BY <1>2 DEF AddToMap, editVars
  <2>4. CASE url_cat[host] = NoCid
    <3>1. url_cat' = [url_cat EXCEPT ![host] = rec[t].cid]
      BY <1>2, <2>4 DEF AddToMap
    <3>2. rec' = [rec EXCEPT ![t].pc = "insert"]
      BY <1>2, <2>4 DEF AddToMap, Moves
    <3>3. \A x \in rows : x.url # host \/ edited[host] # "none"
      BY <2>4
    <3>4. \A u \in Recognizers : rec'[u].pc = "insert" => u = t /\ rec'[u].host = host
      BY <3>2, <2>2
    <3> QED BY <2>1, <2>3, <3>1, <3>3, <3>4
  <2>5. CASE url_cat[host] # NoCid
    <3>1. UNCHANGED url_cat /\ rec' = [rec EXCEPT ![t].pc = "done"]
      BY <1>2, <2>5 DEF AddToMap, Moves
    <3> QED BY <2>2, <2>3, <3>1
  <2> QED BY <2>4, <2>5
<1>3. ASSUME NEW t \in Recognizers, AddMatch(t)
      PROVE  MapCoversTable' /\ InsertsSucceed'
  <2>1. rec[t].pc = "insert" /\ rec[t].host \in Hosts
    BY <1>3 DEF AddMatch, HostKnown
  <2>2. \A u \in Recognizers : rec'[u].pc # "insert"
    BY <1>3, <2>1 DEF AddMatch, Moves, OneInside
  <2>3. \A x \in rows' : x \in rows \/ x.url = rec[t].host
    BY <1>3 DEF AddMatch, Insert, Row
  <2>4. UNCHANGED <<url_cat, reload, edited>>
    BY <1>3 DEF AddMatch, editVars
  <2> QED BY <2>1, <2>2, <2>3, <2>4
<1>4. CASE ReloadBegin \/ ReloadData
  BY <1>4 DEF ReloadBegin, ReloadData, ReloadSelect, ReloadForgetDenied,
              ReloadDenied, ReloadFill
<1>5. ASSUME NEW H \in SUBSET Hosts, Edits(H),
             \A x \in rows' : x \in rows \/ x.url \in H
      PROVE  MapCoversTable' /\ InsertsSucceed'
  <2>1. UNCHANGED <<url_cat, reload, rec>>
    BY <1>5 DEF Edits
  <2>2. \A h \in Hosts : edited'[h] = IF h \in H THEN "new" ELSE edited[h]
    BY <1>5 DEF Edits
  <2>3. \A x \in rows : x.url \in Hosts
    OBVIOUS
  <2>4. \A t \in Recognizers : rec[t].pc = "insert" => rec[t].host \in Hosts
    BY DEF HostKnown
  <2>5. MapCoversTable'
    BY <1>5, <2>1, <2>2, <2>3
  <2>6. InsertsSucceed'
    BY <1>5, <2>1, <2>2, <2>3, <2>4
  <2> QED BY <2>5, <2>6
<1>6. CASE Administration
  <2>1. PICK x \in AllRows : \/ AddUrlCategoryMatch(x)
                             \/ \E y \in AllRows : UpdateUrlCategoryMatch(x, y)
                             \/ DeleteUrlCategoryMatch(x)
    BY <1>6 DEF Administration
  <2>2. CASE AddUrlCategoryMatch(x)
    BY <2>2, <1>5 DEF AddUrlCategoryMatch
  <2>3. ASSUME NEW y \in AllRows, UpdateUrlCategoryMatch(x, y)
        PROVE  MapCoversTable' /\ InsertsSucceed'
    <3>1. {x.url, y.url} \in SUBSET Hosts
      OBVIOUS
    <3> QED BY <2>3, <3>1, <1>5 DEF UpdateUrlCategoryMatch
  <2>4. CASE DeleteUrlCategoryMatch(x)
    BY <2>4, <1>5 DEF DeleteUrlCategoryMatch
  <2> QED BY <2>1, <2>2, <2>3, <2>4
<1>7. CASE UNCHANGED catSpecVars
  BY <1>7 DEF catSpecVars, catVars, editVars
<1> QED BY <1>1, <1>2, <1>3, <1>4, <1>5, <1>6, <1>7 DEF CatStep, CatNext, Recognizer

\* A category enters the map with an insert under way or from a row of the
\* table, and an insert leaves the row there.
LEMMA BackedStep ==
  ASSUME CatTypeOK, HostKnown, OneInside, UnreadInTable, MapCoversTable,
         InsertsSucceed, MemoryBacked, [CatStep]_catSpecVars
  PROVE  MemoryBacked'
<1> USE DEF CatTypeOK, MemoryBacked, AllRows, Row
<1>h. \A f : Has(f)' <=> Has(f)
  BY DEF CatStep, Has, catSpecVars
<1> DEFINE Inserts(t, h) ==
             rec[t].pc = "insert" /\ rec[t].host = h /\ rec[t].cid = url_cat[h]
           Lasting(h) ==
             \/ Row(h, url_cat[h]) \in rows
             \/ Has("reload") /\ \E x \in rows : x.url = h
             \/ edited[h] = "new"
           Backed(h) == Lasting(h) \/ \E t \in Recognizers : Inserts(t, h)
<1> SUFFICES ASSUME ~Has("failures"), NEW h \in Hosts, url_cat'[h] # NoCid
             PROVE  Backed(h)'
  BY <1>h
<1>g. ASSUME url_cat'[h] = url_cat[h], Lasting(h), ~ReloadBegin
      PROVE  Lasting(h)'
  <2>1. /\ \A x \in rows : x \in rows' \/ edited'[x.url] = "new"
        /\ edited[h] = "new" => edited'[h] = "new"
    BY <1>g, RowsKept
  <2>2. CASE Row(h, url_cat[h]) \in rows
    BY <1>g, <2>1, <2>2
  <2>3. CASE Has("reload") /\ \E x \in rows : x.url = h
    BY <1>h, <2>1, <2>3
  <2>4. CASE edited[h] = "new"
    BY <2>1, <2>4
  <2> QED BY <1>g, <2>2, <2>3, <2>4
<1>1. ASSUME NEW t \in Recognizers,
             \/ \E g \in Hosts \cup {NoHost} : StartRecognizer(t, g)
             \/ \E C \in SUBSET Hosts : Begin(t, C)
             \/ AddAnalysis(t)
             \/ Recognize(t)
      PROVE  /\ UNCHANGED <<url_cat, reload, reloads, rows, edited>>
             /\ \A u \in Recognizers : rec[u].pc = "insert" => rec'[u] = rec[u]
  BY <1>1 DEF StartRecognizer, Begin, AddAnalysis, Recognize, OnlyRec, Moves, editVars
<1>2. ASSUME NEW t \in Recognizers, AddToMap(t)
      PROVE  Backed(h)'
  <2>1. \A u \in Recognizers : rec[u].pc # "insert"
    BY <1>2 DEF AddToMap, RwLockFree
  <2>2. rec[t].host \in Hosts
    BY <1>2 DEF AddToMap, HostKnown
  <2>3. CASE url_cat[rec[t].host] = NoCid /\ h = rec[t].host
    <3>1. url_cat' = [url_cat EXCEPT ![h] = rec[t].cid]
      BY <1>2, <2>3 DEF AddToMap
    <3>2. rec' = [rec EXCEPT ![t].pc = "insert"]
      BY <1>2, <2>3 DEF AddToMap, Moves
    <3>3. rec'[t].pc = "insert" /\ rec'[t].host = h /\ rec'[t].cid = rec[t].cid
      BY <3>2, <2>3
    <3> QED BY <3>1, <3>3
  <2>4. CASE ~(url_cat[rec[t].host] = NoCid /\ h = rec[t].host)
    <3>1. url_cat'[h] = url_cat[h]
      BY <1>2, <2>4, <2>2 DEF AddToMap
    <3>2. Lasting(h)
      BY <3>1, <2>1
    <3>3. UNCHANGED <<rows, edited>>
      BY <1>2 DEF AddToMap, editVars
    <3> QED BY <3>1, <3>2, <3>3, <1>h
  <2> QED BY <2>3, <2>4
<1>3. ASSUME NEW t \in Recognizers, AddMatch(t)
      PROVE  Lasting(h)'
  <2>1. UNCHANGED <<url_cat, edited>> /\ rec[t].pc = "insert"
        /\ Insert(Row(rec[t].host, rec[t].cid))
    BY <1>3 DEF AddMatch, editVars
  <2>2. CASE Lasting(h)
    BY <1>h, <2>1, <2>2 DEF Insert
  <2>3. CASE \E u \in Recognizers : Inserts(u, h)
    <3>1. rec[t].host = h /\ rec[t].cid = url_cat[h]
      BY <2>1, <2>3 DEF OneInside
    <3>2. CASE \E y \in rows : y.url = h
      <4>1. Has("reload") \/ edited[h] = "new"
        BY <2>1, <3>1, <3>2 DEF InsertsSucceed, MapCoversTable
      <4> QED BY <2>2, <3>2, <4>1
    <3>3. CASE ~\E y \in rows : y.url = h
      <4>1. rows' = rows \cup {Row(h, url_cat[h])}
        BY <2>1, <3>1, <3>3 DEF Insert
      <4> QED BY <4>1, <2>1
    <3> QED BY <3>2, <3>3
  <2> QED BY <2>1, <2>2, <2>3
<1>4. CASE ReloadBegin
  BY <1>4 DEF ReloadBegin
<1>5. ASSUME NEW x \in unread, ReloadFill(x)
      PROVE  Backed(h)'
  <2>1. x = Row(x.url, x.cid) /\ (x \in rows \/ edited[x.url] = "new")
    BY DEF UnreadInTable
  <2>2. UNCHANGED <<rows, rec, edited>>
    BY <1>5 DEF ReloadFill, OnlyReload
  <2>3. CASE url_cat'[h] = url_cat[h]
    BY <1>h, <2>2, <2>3
  <2>4. CASE url_cat'[h] # url_cat[h]
    <3>1. h = x.url /\ url_cat'[h] = x.cid
      BY <1>5, <2>4 DEF ReloadFill
    <3> QED BY <2>1, <2>2, <3>1
  <2> QED BY <2>3, <2>4
<1>6. CASE \/ ReloadSelect \/ ReloadForgetDenied \/ ReloadDenied
           \/ UNCHANGED catSpecVars
  <2>1. UNCHANGED <<url_cat, rows, rec, edited>>
    BY <1>6 DEF ReloadSelect, ReloadForgetDenied, ReloadDenied, OnlyReload,
                catSpecVars, catVars, editVars
  <2> QED BY <1>h, <2>1
<1>7. CASE \E t \in Recognizers :
             \/ \E g \in Hosts \cup {NoHost} : StartRecognizer(t, g)
             \/ \E C \in SUBSET Hosts : Begin(t, C)
             \/ AddAnalysis(t)
             \/ Recognize(t)
  BY <1>h, <1>7, <1>1
<1>8. CASE \E x \in unread : ReloadFill(x)
  BY <1>8, <1>5
<1>9. CASE Administration /\ ~ReloadBegin
  <2>1. UNCHANGED <<url_cat, rec>>
    BY <1>9 DEF Administration, AddUrlCategoryMatch, UpdateUrlCategoryMatch,
                DeleteUrlCategoryMatch, Edits
  <2>2. CASE Lasting(h)
    BY <1>9, <1>g, <2>1, <2>2
  <2>3. CASE \E t \in Recognizers : Inserts(t, h)
    BY <2>1, <2>3
  <2> QED BY <2>1, <2>2, <2>3
<1> QED BY <1>2, <1>3, <1>4, <1>6, <1>7, <1>8, <1>9
        DEF CatStep, CatNext, Recognizer, ReloadData

-----------------------------------------------------------------------------
(* Theorems *)

\* The invariant holds when the proxy has loaded the table.
LEMMA CatInitInv == CatInit => CatInv
<1> SUFFICES ASSUME CatInit PROVE CatInv
  OBVIOUS
<1> USE CategoryAssumption DEF CatInit, Unborn
<1>1. CatTypeOK
  BY DEF CatTypeOK, AllRows, RecPoints, ReloadPoints
<1>2. \A x \in rows : url_cat[x.url] = x.cid
  <2> TAKE x \in rows
  <2>1. x.url \in Hosts /\ x.cid \in Cids /\ x = Row(x.url, x.cid)
    BY DEF Row
  <2> QED BY <2>1
<1>3. HostKnown /\ OneInside /\ UnreadInTable /\ ReadOut /\ InsertsSucceed
  BY DEF HostKnown, OneInside, UnreadInTable, ReadOut, InsertsSucceed
<1>4. MapCoversTable
  BY <1>2 DEF MapCoversTable
<1>5. MemoryBacked
  BY <1>1 DEF MemoryBacked, CatTypeOK
<1> QED BY <1>1, <1>3, <1>4, <1>5 DEF CatInv

\* Every step keeps the invariant.
LEMMA CatInvStep == CatInv /\ [CatStep]_catSpecVars => CatInv'
BY CatTypeStep, HostStep, InsideStep, UnreadStep, ReadOutStep, CoverStep, BackedStep
   DEF CatInv

\* The Categorizer keeps its invariant, whatever connections start which
\* recognisers, and whatever is reloaded, lost or thrown.
THEOREM CatInvariant == CatSpec => []CatInv
<1>1. CatSpec => CatInit /\ [][CatStep]_catSpecVars
  BY PTL DEF CatSpec, CatStep, catSpecVars
<1> QED BY <1>1, CatInitInv, CatInvStep, PTL

\* While statements work, what url_cat says of a host is in the table, or is
\* being written to it, or was edited since the last reload began.
THEOREM CatMemoryBacked == CatSpec => []MemoryBacked
<1>1. CatInv => MemoryBacked
  BY DEF CatInv
<1> QED BY <1>1, CatInvariant, PTL

\* Without reloads no insert into url_categories_match meets a row of its host,
\* however often changes of current_analysis are lost, unless the administration
\* has edited the row of that host.
THEOREM CatInsertsSucceed == CatSpec => []InsertsSucceed
<1>1. CatInv => InsertsSucceed
  BY DEF CatInv
<1> QED BY <1>1, CatInvariant, PTL

=============================================================================
