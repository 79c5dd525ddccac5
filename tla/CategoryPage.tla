----------------------------- MODULE CategoryPage -----------------------------
(***************************************************************************)
(* The page of the web site where an administrator gives urls their        *)
(* categories, admin_cats_match: a grid of the urls that are not           *)
(* recognised and one of those that are, the EntitiesManager that puts a   *)
(* command into hidden inputs of the first, and the backend that performs  *)
(* the command a request carries, if any, before it renders the grid.      *)
(*                                                                         *)
(* The settings of the grids (sorting, page, filter) travel as the command *)
(* does and are left out: what they do is to send the inputs once more.    *)
(***************************************************************************)
EXTENDS AjaxBuffer

CONSTANTS
  Urls,
  Cids,           \* categories
  Unrecognized,   \* category 0
  Rows0,          \* url_categories_match when the page is loaded
  MaxIds,         \* bound: u2cids in use
  NoItem,         \* an item that is no JSON text, or none
  MaxCommands,    \* bound: commands
  MaxLooks,       \* bound: clicks that only refresh a grid
  Scenarios       \* what is studied together

Features ==
  {"impatient",  \* the user does not wait until nothing is under way
   "refused",    \* the server answers with an error
   "lost"}       \* connections break

\* deleteURL, addURL, editURL, changeCatByName and recognizeAll.
AllKinds == {"del", "add", "upd", "byName", "all"}

\* What may happen, and the commands that are given.
Scenario == [features : SUBSET Features, kinds : SUBSET AllKinds]

Row(id, url, cid) == [u2cid |-> id, url |-> url, cid |-> cid]

ASSUME PageAssumption ==
  /\ Buffers = {"cats", "matched"}
  /\ Urls # {} /\ Unrecognized \in Cids
  /\ Rows0 \subseteq [u2cid : 1..MaxIds, url : Urls, cid : Cids]
  /\ \A x, y \in Rows0 : x.u2cid = y.u2cid \/ x.url = y.url => x = y
  /\ {MaxCalls, MaxIds, MaxCommands, MaxLooks} \subseteq Nat
  /\ Scenarios \subseteq Scenario

VARIABLES
  scenario,   \* constant in every behaviour
  rows,       \* the table url_categories_match
  commands,   \* commands given so far
  looks,      \* clicks so far
  performed   \* history: how often each command was performed

vars == <<bufVars, scenario, rows, commands, looks, performed>>

Has(feature) == feature \in scenario.features

\* A command has a number, to be told from an equal one.
Item(kind, id, url, cid) ==
  [no |-> commands + 1, kind |-> kind, u2cid |-> id, url |-> url, cid |-> cid]
Items ==
  [no : 1..MaxCommands, kind : AllKinds, u2cid : 0..MaxIds, url : Urls, cid : Cids]

Inputs(action, item) == [action |-> action, item |-> item]
AllInputs == [action : AllKinds \cup {"noact"}, item : Items \cup {NoItem}]
Disarmed == Inputs("noact", NoItem)

AllRows == [u2cid : 1..MaxIds, url : Urls, cid : Cids]

ASSUME InputsAssumption == NoItem \notin Items /\ Blank \notin AllInputs

TypeOK ==
  /\ scenario \in Scenarios
  /\ DOMAIN inputs = Buffers
  /\ \A b \in Buffers : inputs[b] = Blank \/ inputs[b] \in AllInputs
  /\ shown \in [Buffers -> SUBSET AllRows]
  /\ onSuccess \in [Buffers -> {"nothing", "refreshOther"}]
  /\ window \in Items \cup {NoWindow, Progress}
  /\ \A k \in calls :
       /\ k.slot \in 1..MaxCalls
       /\ k.buffer \in Buffers
       /\ k.params \in AllInputs
       /\ k.callback \in {"nothing", "refreshOther"}
       /\ k.progress \in BOOLEAN
       /\ k.state \in {"sent", "performed", "answered"}
       /\ IF k.state = "answered" THEN k.answer.rows \subseteq AllRows
                                  ELSE k.answer = NoAnswer
  /\ \A k, l \in calls : k.slot = l.slot => k = l
  /\ rows \in SUBSET AllRows
  /\ commands \in 0..MaxCommands
  /\ looks \in 0..MaxLooks
  /\ performed \in [1..MaxCommands -> 0..2]

\* What a grid renders.
Grid(b, T) ==
  {x \in T : IF b = "cats" THEN x.cid = Unrecognized ELSE x.cid # Unrecognized}

\* The page has been loaded and GridsInitialized called.
Init ==
  /\ scenario \in Scenarios
  /\ rows = Rows0
  /\ inputs = [b \in Buffers |-> Disarmed]
  /\ shown = [b \in Buffers |-> Grid(b, Rows0)]
  /\ onSuccess = [b \in Buffers |-> "refreshOther"]
  /\ window = NoWindow
  /\ calls = {}
  /\ commands = 0
  /\ looks = 0
  /\ performed = [n \in 1..MaxCommands |-> 0]

-----------------------------------------------------------------------------
(* The user.  Dialogs are modal. *)

Acts ==
  /\ Has("impatient") \/ calls = {}
  /\ Cardinality(calls) < MaxCalls

\* What the forms let the user ask for: rows are those he sees.
Offered ==
  UNION {
    {Item("add", 0, url, cid) : url \in Urls, cid \in Cids},
    {Item("upd", x.u2cid, url, cid) :
       x \in UNION {shown[b] : b \in Buffers}, url \in Urls, cid \in Cids},
    {Item("del", x.u2cid, x.url, x.cid) : x \in UNION {shown[b] : b \in Buffers}},
    {Item("byName", 0, x.url, cid) :
       x \in UNION {shown[b] : b \in Buffers}, cid \in Cids}}

OpenForm ==
  /\ window = NoWindow
  /\ commands < MaxCommands
  /\ window' \in {x \in Offered : x.kind \in scenario.kinds}
  /\ UNCHANGED <<inputs, shown, onSuccess, calls, commands, looks>>

\* Mutants: a command does not have the other grid refreshed; one grid is
\* forgotten.
GridsInitializedNot == onSuccess
GridsInitializedOne == [b \in {"cats"} |-> "refreshOther"]

GridsInitialized == [b \in Buffers |-> "refreshOther"]

\* Mutant: the request is sent before the item is set.
ArmedLate(item) == Inputs(item.kind, inputs["cats"].item)

\* setAction and setItem, or the reverse.
Armed(item) == Inputs(item.kind, item)

\* The dialog after a command: the link changeCatByName is in one that stays.
Hidden(x) == IF x \in Items /\ x.kind = "byName" THEN x ELSE NoWindow

\* GridsInitialized, setAction, setItem and Update, and the form is hidden.
\* Only recognizeAll asks for the progress window, and takes the wish back when
\* the request is sent.
Command(x) ==
  LET item == [x EXCEPT !.no = commands + 1]
      in == [inputs EXCEPT !["cats"] = Armed(item)]
      progress == item.kind = "all"
  IN  /\ Acts
      /\ commands < MaxCommands
      /\ ~Throws("cats", inputs)
      /\ onSuccess' = GridsInitialized
      /\ inputs' = in
      /\ calls' = calls \cup {Request("cats", in, GridsInitialized, progress, calls)}
      /\ commands' = commands + 1
      /\ window' = Info(progress, Hidden(window))
      /\ UNCHANGED <<shown, looks>>

\* set_var finds no input and throws; the form stays.
CommandThrows ==
  /\ Acts
  /\ Throws("cats", inputs)
  /\ onSuccess' = GridsInitialized
  /\ UNCHANGED <<inputs, shown, window, calls, commands, looks>>

\* The button of a form, or the link in a dialog.
Confirm ==
  /\ window \in Items
  /\ Command(window) \/ CommandThrows

\* recognizeAll is a link of the page.
AllClicked ==
  /\ window = NoWindow
  /\ "all" \in scenario.kinds
  /\ \/ Command(Item("all", 0, CHOOSE url \in Urls : TRUE, Unrecognized))
     \/ CommandThrows

Cancel ==
  /\ window \in Items
  /\ window' = NoWindow
  /\ UNCHANGED <<inputs, shown, onSuccess, calls, commands, looks>>

\* A click on a column, a page or the filter, which are in the element.
Look(b) ==
  /\ window = NoWindow
  /\ Acts
  /\ looks < MaxLooks
  /\ ~Throws(b, inputs)
  /\ calls' = calls \cup {Request(b, inputs, onSuccess, FALSE, calls)}
  /\ looks' = looks + 1
  /\ window' = Info(FALSE, window)
  /\ UNCHANGED <<inputs, shown, onSuccess, commands>>

User ==
  /\ OpenForm \/ Confirm \/ AllClicked \/ Cancel \/ \E b \in Buffers : Look(b)
  /\ UNCHANGED <<scenario, rows, performed>>

-----------------------------------------------------------------------------
(* The backend: a request performs, then renders *)

\* auto_increment; a number is taken again when nothing refers to it any more.
Mentioned ==
  {x.u2cid : x \in rows \cup UNION {shown[b] : b \in Buffers}}
    \cup {k.params.item.u2cid : k \in {l \in calls : l.params.item # NoItem}}
    \cup UNION {{x.u2cid : x \in k.answer.rows} :
                  k \in {l \in calls : l.state = "answered"}}
    \cup (IF window \in Items THEN {window.u2cid} ELSE {})
    \cup (IF inputs["cats"] = Blank \/ inputs["cats"].item = NoItem THEN {}
          ELSE {inputs["cats"].item.u2cid})
NewId == CHOOSE n \in 1..MaxIds : n \notin Mentioned

\* replace into: a row with the url goes.
AddUrlCategoryMatch(x) ==
  /\ \E n \in 1..MaxIds : n \notin Mentioned   \* bound
  /\ rows' = {y \in rows : y.url # x.url} \cup {Row(NewId, x.url, x.cid)}

\* The unique index on url refuses a url that another row has.
UpdateUrlCategoryMatch(x) ==
  rows' = IF \E y \in rows : y.u2cid # x.u2cid /\ y.url = x.url
            THEN rows
            ELSE {IF y.u2cid = x.u2cid THEN Row(y.u2cid, x.url, x.cid) ELSE y :
                    y \in rows}

DeleteUrlCategoryMatch(x) == rows' = {y \in rows : y.u2cid # x.u2cid}

UpdateUrlCategoryMatchByName(x) ==
  rows' = {IF y.url = x.url THEN Row(y.u2cid, y.url, x.cid) ELSE y : y \in rows}

\* Some of the urls that are not recognised get the category that a service
\* outside finds.
RecognizeAll ==
  \E f \in [rows -> Cids] :
    /\ \A y \in rows : y.cid # Unrecognized => f[y] = y.cid
    /\ rows' = {Row(y.u2cid, y.url, f[y]) : y \in rows}

\* The switch compares the name of a command with the number of DEL, which are
\* equal to PHP: byName and all go on to delete the row 0, which there is not.
PerformAction(x) ==
  \/ x.kind = "add" /\ AddUrlCategoryMatch(x)
  \/ x.kind = "upd" /\ UpdateUrlCategoryMatch(x)
  \/ x.kind = "del" /\ DeleteUrlCategoryMatch(x)
  \/ x.kind = "byName" /\ UpdateUrlCategoryMatchByName(x)
  \/ x.kind = "all" /\ RecognizeAll

Counted(n) == performed' = [performed EXCEPT ![n] = IF @ = 2 THEN 2 ELSE @ + 1]

Goes(k, l) ==
  /\ calls' = (calls \ {k}) \cup {l}
  /\ UNCHANGED <<inputs, shown, onSuccess, window>>

\* isAnyAction: the inputs of the manager belong to the first grid.
Perform(k) ==
  /\ k.state = "sent"
  /\ IF k.buffer = "cats" /\ k.params.action # "noact"
       THEN PerformAction(k.params.item) /\ Counted(k.params.item.no)
       ELSE UNCHANGED <<rows, performed>>
  /\ Goes(k, [k EXCEPT !.state = "performed"])

\* Mutant: the action is rendered as it came.
EraseActionNot(in) == in

\* eraseAction; the item is rendered inside quotes that it contains itself.
EraseAction(in) == Disarmed

Render(k) ==
  /\ k.state = "performed"
  /\ Goes(k, [k EXCEPT !.state = "answered",
                       !.answer = Answer(EraseAction(k.params), Grid(k.buffer, rows))])
  /\ UNCHANGED <<rows, performed>>

-----------------------------------------------------------------------------
(* The network *)

Refuse(k) ==
  /\ Has("refused")
  /\ k.state = "sent"
  /\ Ignored(k)

Lose(k) ==
  /\ Has("lost")
  /\ Breaks(k)

Served(k) ==
  /\ \/ Perform(k)
     \/ Render(k)
     \/ (Responds(k) \/ Refuse(k) \/ Lose(k)) /\ UNCHANGED <<rows, performed>>
  /\ UNCHANGED <<scenario, commands, looks>>

InSlot(n) == \E k \in calls : k.slot = n /\ Served(k)

Next == User \/ \E n \in 1..MaxCalls : InSlot(n)

\* A request is answered sooner or later, or the browser gives it up.
FairSpec == Init /\ [][Next]_vars /\ \A n \in 1..MaxCalls : WF_vars(InSlot(n))

-----------------------------------------------------------------------------
(* Properties *)

\* Whatever overtakes what, the action and the item that are armed or sent are
\* those of one command: no answer that replaces the inputs, and no command
\* given meanwhile, lets a deletion have the item of a change.
CommandsAreWhole ==
  \A in \in {inputs["cats"]} \cup {k.params : k \in calls} :
    in # Blank /\ in.action # "noact" =>
      in.item # NoItem /\ in.item.kind = in.action

\* When all is answered nothing is left armed that the next click would
\* perform once more, also if answers came in another order than the requests.
NothingArmed ==
  calls = {} /\ ~Has("refused") /\ ~Has("lost") => inputs["cats"].action = "noact"

\* A command of a user who waits is performed, and once, though the grids
\* refresh each other and send the inputs again and again.
PerformedOnce ==
  scenario.features = {} =>
    \A n \in 1..commands : performed[n] <= 1 /\ (calls = {} => performed[n] = 1)

\* When all is answered to a user who waits, both grids show the table: a url
\* that a command moves from one to the other has left the first.
GridsAgree ==
  scenario.features = {} /\ calls = {} => \A b \in Buffers : shown[b] = Grid(b, rows)

\* Two grids that refresh each other come to rest, whatever is lost and
\* whatever the user does meanwhile.
RefreshEnds == []<>(calls = {})

=============================================================================
