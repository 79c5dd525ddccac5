------------------------- MODULE CategoryPage_proofs -------------------------
(***************************************************************************)
(* Proofs about CategoryPage for every set of urls, categories and rows,   *)
(* any number of commands and any number of requests at a time: commands   *)
(* travel whole, a page used in turns with its answers performs each       *)
(* command once and shows the table, and every state keeps its types (a    *)
(* request finds a slot of its own, since fewer are on their way than      *)
(* there are slots).                                                       *)
(***************************************************************************)
EXTENDS CategoryPage, WellFoundedInduction, FiniteSetTheorems, FunctionTheorems, TLAPS

-----------------------------------------------------------------------------
(* Commands travel whole *)

\* The inputs of an element, as a request may send them.
Whole(in) ==
  /\ in \in AllInputs
  /\ in.action # "noact" => in.item # NoItem /\ in.item.kind = in.action

Shaped(k) ==
  k = [slot |-> k.slot, buffer |-> k.buffer, params |-> k.params,
       callback |-> k.callback, progress |-> k.progress, state |-> k.state,
       answer |-> k.answer]

WholeCall(k) ==
  /\ Shaped(k)
  /\ k.buffer \in Buffers
  /\ Whole(k.params)
  /\ k.buffer = "matched" => k.params = Disarmed
  /\ k.state = "answered" => k.answer.inputs = Disarmed

\* Only the first grid is armed.
InputsWhole ==
  /\ inputs = [b \in Buffers |-> inputs[b]]
  /\ inputs["cats"] = Blank \/ Whole(inputs["cats"])
  /\ inputs["matched"] = Blank \/ inputs["matched"] = Disarmed

CallsWhole == \A k \in calls : WholeCall(k)

\* Who is armed has been sent, and the answer will disarm it.
AnswerDisarms ==
  ~Has("refused") /\ ~Has("lost") =>
    \/ inputs["cats"] # Blank /\ inputs["cats"].action = "noact"
    \/ \E k \in calls : k.buffer = "cats"

PageInv ==
  /\ commands \in 0..MaxCommands
  /\ InputsWhole
  /\ CallsWhole
  /\ AnswerDisarms

\* What the form is reset to is whole and asks for no action.
LEMMA DisarmedWhole == Whole(Disarmed) /\ Disarmed # Blank /\ Disarmed.action = "noact"
<1>1. Disarmed \in AllInputs /\ Disarmed.action = "noact"
  BY DEF Disarmed, Inputs, AllInputs
<1> QED BY <1>1, InputsAssumption DEF Whole

\* There are two grids, and the other of each is the other one.
LEMMA OtherBuffer ==
  /\ Other("cats") = "matched" /\ Other("matched") = "cats"
  /\ \A b \in Buffers : Other(b) \in Buffers /\ Other(b) # b
BY PageAssumption DEF Other

\* A request has the inputs of its element.
LEMMA RequestWhole ==
  ASSUME NEW b \in Buffers, NEW in, NEW callbacks, NEW progress, NEW C,
         Whole(in[b]), b = "matched" => in[b] = Disarmed
  PROVE  WholeCall(Request(b, in, callbacks, progress, C))
BY DEF WholeCall, Shaped, Request

\* Inputs that do not throw are whole.
LEMMA PresentWhole ==
  ASSUME NEW b \in Buffers, NEW in, ~Throws(b, in),
         in["cats"] = Blank \/ Whole(in["cats"]),
         in["matched"] = Blank \/ in["matched"] = Disarmed
  PROVE  Whole(in[b]) /\ (b = "matched" => in[b] = Disarmed)
BY PageAssumption, DisarmedWhole DEF Throws

\* What a command arms.
LEMMA CommandItem ==
  ASSUME NEW x \in Items, commands \in 0..MaxCommands, commands < MaxCommands
  PROVE  LET item == [x EXCEPT !.no = commands + 1]
         IN  /\ Whole(Armed(item)) /\ Armed(item).action # "noact"
             /\ Armed(item).item.no = commands + 1
             /\ commands + 1 \in 1..MaxCommands
<1> DEFINE item == [x EXCEPT !.no = commands + 1]
<1>0. MaxCommands \in Nat
  BY PageAssumption
<1>1. commands + 1 \in 1..MaxCommands
  BY <1>0
<1>2. item \in Items /\ item.kind \in AllKinds /\ item.no = commands + 1
  BY <1>1 DEF Items
<1> HIDE DEF item
<1>3. Armed(item) = [action |-> item.kind, item |-> item]
  BY DEF Armed, Inputs
<1>4. "noact" \notin AllKinds
  BY DEF AllKinds
<1>5. Armed(item) \in AllInputs
  BY <1>2, <1>3 DEF AllInputs
<1>6. Whole(Armed(item)) /\ Armed(item).action # "noact" /\ Armed(item).item = item
  BY <1>2, <1>3, <1>4, <1>5, InputsAssumption DEF Whole
<1>7. Armed(item).item.no = commands + 1
  BY <1>2, <1>6
<1> QED BY <1>1, <1>6, <1>7 DEF item

\* The command of the link of the page is one of the items.
LEMMA AllItem ==
  ASSUME commands \in 0..MaxCommands, commands < MaxCommands
  PROVE  Item("all", 0, CHOOSE url \in Urls : TRUE, Unrecognized) \in Items
<1>1. commands + 1 \in 1..MaxCommands /\ 0 \in 0..MaxIds
  BY PageAssumption
<1>2. (CHOOSE url \in Urls : TRUE) \in Urls /\ Unrecognized \in Cids
  BY PageAssumption
<1> QED BY <1>1, <1>2 DEF Item, Items, AllKinds

\* What the user does to the state of the page: nothing, a command, or a click.
LEMMA UserSteps ==
  ASSUME commands \in 0..MaxCommands, User
  PROVE  /\ UNCHANGED <<scenario, rows, performed>>
         /\ \/ UNCHANGED <<inputs, shown, onSuccess, calls, commands>>
            \/ \E x \in Items : Command(x)
            \/ CommandThrows
            \/ \E b \in Buffers : Look(b)
<1>1. CASE OpenForm
  BY <1>1 DEF User, OpenForm
<1>2. CASE Confirm
  BY <1>2 DEF User, Confirm
<1>3. CASE AllClicked
  <2>1. CASE Command(Item("all", 0, CHOOSE url \in Urls : TRUE, Unrecognized))
    BY <2>1, AllItem DEF Command, User
  <2> QED BY <1>3, <2>1 DEF AllClicked, User
<1>4. CASE Cancel
  BY <1>4 DEF User, Cancel
<1>5. CASE \E b \in Buffers : Look(b)
  BY <1>5 DEF User
<1> QED BY <1>1, <1>2, <1>3, <1>4, <1>5 DEF User

\* The page starts with whole inputs and no request.
LEMMA InitWhole == Init => PageInv
<1> SUFFICES ASSUME Init PROVE PageInv
  OBVIOUS
<1>1. InputsWhole
  BY PageAssumption, DisarmedWhole DEF Init, InputsWhole
<1>2. CallsWhole
  BY DEF Init, CallsWhole
<1>3. AnswerDisarms
  BY PageAssumption, DisarmedWhole DEF Init, AnswerDisarms
<1>4. commands \in 0..MaxCommands
  BY PageAssumption DEF Init
<1> QED BY <1>1, <1>2, <1>3, <1>4 DEF PageInv

\* What the user does keeps inputs and requests whole.
LEMMA UserWhole == PageInv /\ User => PageInv'
<1> SUFFICES ASSUME PageInv, User PROVE PageInv'
  OBVIOUS
<1> USE DEF PageInv
<1>0. MaxCommands \in Nat /\ "cats" \in Buffers /\ "matched" \in Buffers
  BY PageAssumption
<1>1. CASE UNCHANGED <<inputs, shown, onSuccess, calls, commands>>
  BY <1>1 DEF User, InputsWhole, CallsWhole, AnswerDisarms, Has
<1>2. ASSUME NEW x \in Items, Command(x) PROVE PageInv'
  <2> DEFINE item == [x EXCEPT !.no = commands + 1]
             in == [inputs EXCEPT !["cats"] = Armed(item)]
             k == Request("cats", in, GridsInitialized, item.kind = "all", calls)
  <2>1. /\ commands < MaxCommands /\ inputs' = in /\ calls' = calls \cup {k}
        /\ commands' = commands + 1
    BY <1>2 DEF Command
  <2>2. Whole(Armed(item)) /\ commands + 1 \in 1..MaxCommands
    BY <2>1, CommandItem
  <2>3. in["cats"] = Armed(item) /\ in["matched"] = inputs["matched"]
        /\ in = [b \in Buffers |-> in[b]]
    BY <1>0 DEF InputsWhole
  <2>4. WholeCall(k)
    BY <1>0, <2>2, <2>3, RequestWhole
  <2>5. InputsWhole'
    BY <2>1, <2>2, <2>3 DEF InputsWhole
  <2>6. CallsWhole'
    BY <2>1, <2>4 DEF CallsWhole
  <2>7. k.buffer = "cats"
    BY DEF Request
  <2>8. AnswerDisarms'
    BY <2>1, <2>7 DEF AnswerDisarms
  <2> QED BY <1>0, <2>1, <2>2, <2>5, <2>6, <2>8
<1>3. CASE CommandThrows
  BY <1>3 DEF CommandThrows, User, InputsWhole, CallsWhole, AnswerDisarms, Has
<1>4. ASSUME NEW b \in Buffers, Look(b) PROVE PageInv'
  <2> DEFINE k == Request(b, inputs, onSuccess, FALSE, calls)
  <2>1. /\ ~Throws(b, inputs) /\ calls' = calls \cup {k}
        /\ UNCHANGED <<inputs, commands>>
    BY <1>4 DEF Look
  <2>2. WholeCall(k)
    BY <2>1, PresentWhole, RequestWhole DEF InputsWhole
  <2>3. CallsWhole'
    BY <2>1, <2>2 DEF CallsWhole
  <2>4. AnswerDisarms'
    BY <2>1, UserSteps DEF AnswerDisarms, Has
  <2> QED BY <2>1, <2>3, <2>4 DEF InputsWhole
<1> QED BY <1>1, <1>2, <1>3, <1>4, UserSteps

\* An answer replaces the inputs and may send a request to the other grid.
LEMMA ArrivesWhole ==
  ASSUME PageInv, NEW k \in calls, NEW answer, Arrives(k, answer),
         answer.inputs = Disarmed \/ (answer.inputs = Blank /\ Has("lost")),
         UNCHANGED <<scenario, commands>>
  PROVE  PageInv'
<1> USE DEF PageInv
<1> DEFINE in == [inputs EXCEPT ![k.buffer] = answer.inputs]
           other == Other(k.buffer)
           C == calls \ {k}
           l == Request(other, in, onSuccess, FALSE, C)
<1>0. k.buffer \in Buffers /\ "cats" \in Buffers /\ "matched" \in Buffers
  BY PageAssumption DEF CallsWhole, WholeCall
<1>1. inputs' = in /\ in = [b \in Buffers |-> in[b]] /\ in[k.buffer] = answer.inputs
  BY <1>0 DEF Arrives, InputsWhole
<1>2. /\ in["cats"] = Blank \/ Whole(in["cats"])
      /\ in["matched"] = Blank \/ in["matched"] = Disarmed
  BY <1>0, <1>1, DisarmedWhole, PageAssumption DEF InputsWhole
<1>3. InputsWhole'
  BY <1>1, <1>2 DEF InputsWhole
<1>4. calls' = C \/ (calls' = C \cup {l} /\ ~Throws(other, in))
  BY DEF Arrives, Callback
<1>5. CallsWhole'
  <2>1. other \in Buffers
    BY <1>0, OtherBuffer
  <2>2. ~Throws(other, in) => WholeCall(l)
    BY <1>2, <2>1, PresentWhole, RequestWhole
  <2> QED BY <1>4, <2>2 DEF CallsWhole
<1>6. AnswerDisarms'
  <2>1. CASE Has("lost")
    BY <2>1 DEF AnswerDisarms, Has
  <2>2. CASE ~Has("lost") /\ k.buffer = "cats"
    BY <1>1, <2>2, DisarmedWhole DEF AnswerDisarms
  <2>3. CASE ~Has("lost") /\ k.buffer = "matched"
    <3>1. in["cats"] = inputs["cats"]
      BY <1>0, <2>3 DEF InputsWhole
    <3> QED BY <1>1, <1>4, <2>3, <3>1 DEF AnswerDisarms, Has
  <2> QED BY <1>0, <2>1, <2>2, <2>3, PageAssumption
<1> QED BY <1>3, <1>5, <1>6

\* What becomes of a request.
LEMMA ServedSteps ==
  ASSUME NEW k \in calls, Served(k)
  PROVE  /\ UNCHANGED <<scenario, commands, looks>>
         /\ \/ Perform(k)
            \/ Render(k)
            \/ /\ UNCHANGED <<rows, performed>>
               /\ \/ Responds(k)
                  \/ Has("lost") /\ Arrives(k, Answer(Blank, {}))
                  \/ (Has("lost") \/ Has("refused")) /\ Ignored(k)
BY DEF Served, Refuse, Lose, Breaks

Rendered(k) ==
  [slot |-> k.slot, buffer |-> k.buffer, params |-> k.params,
   callback |-> k.callback, progress |-> k.progress, state |-> "answered",
   answer |-> Answer(Disarmed, Grid(k.buffer, rows))]

\* A rendered request keeps everything but its state and answer.
LEMMA RenderedCall ==
  ASSUME NEW k, Shaped(k), Render(k)
  PROVE  Goes(k, Rendered(k))
<1> DEFINE m == [k EXCEPT !.state = "answered"]
           answer == Answer(EraseAction(k.params), Grid(k.buffer, rows))
<1>1. Goes(k, [m EXCEPT !.answer = answer])
  BY DEF Render
<1>2. m = [slot |-> k.slot, buffer |-> k.buffer, params |-> k.params,
           callback |-> k.callback, progress |-> k.progress, state |-> "answered",
           answer |-> k.answer]
  BY DEF Shaped
<1>3. answer = Answer(Disarmed, Grid(k.buffer, rows))
  BY DEF EraseAction
<1> HIDE DEF m, answer
<1>4. [m EXCEPT !.answer = answer] = Rendered(k)
  BY <1>2, <1>3 DEF Rendered
<1> QED BY <1>1, <1>4

\* What the server and the answers do keeps inputs and requests whole.
LEMMA ServedWhole == ASSUME PageInv, NEW k \in calls, Served(k) PROVE PageInv'
<1> USE DEF PageInv
<1>0. Shaped(k) /\ WholeCall(k) /\ UNCHANGED <<scenario, commands>>
  BY ServedSteps DEF CallsWhole, WholeCall
<1>1. ASSUME NEW l, WholeCall(l), l.buffer = k.buffer, Goes(k, l) PROVE PageInv'
  BY <1>0, <1>1 DEF Goes, InputsWhole, CallsWhole, AnswerDisarms, Has
<1>2. CASE Perform(k)
  <2> DEFINE l == [k EXCEPT !.state = "performed"]
  <2>1. l.buffer = k.buffer /\ WholeCall(l)
    BY <1>0 DEF WholeCall, Shaped
  <2> QED BY <1>1, <1>2, <2>1 DEF Perform
<1>3. CASE Render(k)
  <2> DEFINE l == Rendered(k)
  <2>1. l.answer.inputs = Disarmed /\ Shaped(l)
        /\ l.buffer = k.buffer /\ l.params = k.params
    BY DEF Rendered, Shaped, Answer
  <2>2. WholeCall(l)
    BY <1>0, <2>1 DEF WholeCall
  <2> QED BY <1>0, <1>1, <1>3, <2>1, <2>2, RenderedCall
<1>4. CASE Responds(k)
  <2>1. Arrives(k, k.answer) /\ k.answer.inputs = Disarmed
    BY <1>0, <1>4 DEF Responds, WholeCall
  <2> QED BY <1>0, <2>1, ArrivesWhole
<1>5. CASE Has("lost") /\ Arrives(k, Answer(Blank, {}))
  <2>1. Answer(Blank, {}).inputs = Blank
    BY DEF Answer
  <2> QED BY <1>0, <1>5, <2>1, ArrivesWhole
<1>6. CASE (Has("lost") \/ Has("refused")) /\ Ignored(k)
  BY <1>0, <1>6 DEF Ignored, InputsWhole, CallsWhole, AnswerDisarms, Has
<1> QED BY <1>2, <1>3, <1>4, <1>5, <1>6, ServedSteps

\* The invariant that commands are whole and answers disarm.
THEOREM PageInvariant == FairSpec => []PageInv
<1>1. Init => PageInv
  BY InitWhole
<1>2. PageInv /\ [Next]_vars => PageInv'
  <2>1. ASSUME PageInv, UNCHANGED vars PROVE PageInv'
    BY <2>1 DEF vars, bufVars, PageInv, InputsWhole, CallsWhole, AnswerDisarms, Has
  <2> QED BY <2>1, UserWhole, ServedWhole DEF Next, InSlot
<1> QED BY <1>1, <1>2, PTL DEF FairSpec

\* Whatever overtakes what, the action and the item that are armed or sent are
\* those of one command (setAction and setItem of the EntitiesManager).
THEOREM CommandsStayWhole == FairSpec => []CommandsAreWhole
<1>1. PageInv => CommandsAreWhole
  BY DEF PageInv, InputsWhole, CallsWhole, WholeCall, Whole, CommandsAreWhole
<1> QED BY <1>1, PageInvariant, PTL

\* When all is answered nothing is left armed (eraseAction of the backend).
THEOREM NothingStaysArmed == FairSpec => []NothingArmed
<1>1. PageInv => NothingArmed
  BY DEF PageInv, AnswerDisarms, NothingArmed
<1> QED BY <1>1, PageInvariant, PTL

-----------------------------------------------------------------------------
(* A user who waits *)

Patient == scenario.features = {}

BothRefresh == [b \in Buffers |-> "refreshOther"]

Agrees(b) == shown[b] = Grid(b, rows)

\* What a request is answered with.
RightAnswer(k) ==
  k.state = "answered" => k.answer = Answer(Disarmed, Grid(k.buffer, rows))

Settled == commands > 0 => performed[commands] = 1

\* The request of a command: the only one, and the next one is to the other
\* grid.
CarriesCommand(k) ==
  /\ calls = {k} /\ k.buffer = "cats"
  /\ k.params.action # "noact" /\ k.params.item.no = commands
  /\ k.callback = "refreshOther" /\ onSuccess = BothRefresh
  /\ commands > 0
  /\ performed[commands] = IF k.state = "sent" THEN 0 ELSE 1

\* A request that refreshes a grid, while the other one is up to date.
Refreshes(k) ==
  /\ calls = {k}
  /\ k.params = Disarmed /\ inputs["cats"] = Disarmed
  /\ Agrees(Other(k.buffer))
  /\ Settled

AtRest ==
  /\ calls = {}
  /\ inputs["cats"] = Disarmed
  /\ \A b \in Buffers : Agrees(b)
  /\ Settled

Numbered ==
  /\ performed = [n \in 1..MaxCommands |-> performed[n]]
  /\ \A n \in 1..MaxCommands :
       (n < commands => performed[n] = 1) /\ (n > commands => performed[n] = 0)

PatientInv ==
  /\ inputs["matched"] = Disarmed
  /\ shown = [b \in Buffers |-> shown[b]]
  /\ Numbered
  /\ AtRest \/ \E k \in calls : (CarriesCommand(k) \/ Refreshes(k)) /\ RightAnswer(k)

\* The initial state satisfies the invariant of a patient user.
LEMMA PatientInit == Init => PatientInv
<1> SUFFICES ASSUME Init PROVE PatientInv
  OBVIOUS
<1>1. "cats" \in Buffers /\ "matched" \in Buffers /\ MaxCommands \in Nat
  BY PageAssumption
<1>2. AtRest
  BY <1>1 DEF Init, AtRest, Agrees, Settled
<1>3. Numbered
  BY <1>1 DEF Init, Numbered
<1> QED BY <1>1, <1>2, <1>3 DEF Init, PatientInv

\* What a patient user does keeps that invariant.
LEMMA PatientUser == Patient /\ PageInv /\ PatientInv /\ User => PatientInv'
<1> SUFFICES ASSUME Patient, PageInv, PatientInv, User PROVE PatientInv'
  OBVIOUS
<1>0. /\ "cats" \in Buffers /\ "matched" \in Buffers /\ MaxCommands \in Nat
      /\ commands \in 0..MaxCommands
      /\ UNCHANGED <<scenario, rows, performed>>
  BY PageAssumption, UserSteps DEF PageInv
<1>a. Acts => AtRest
  BY DEF Acts, Patient, Has, PatientInv
<1>1. CASE UNCHANGED <<inputs, shown, onSuccess, calls, commands>>
  BY <1>0, <1>1 DEF PatientInv, AtRest, Agrees, Settled, CarriesCommand, Refreshes,
    RightAnswer, Numbered
<1>2. ASSUME NEW x \in Items, Command(x) PROVE PatientInv'
  <2> DEFINE item == [x EXCEPT !.no = commands + 1]
             in == [inputs EXCEPT !["cats"] = Armed(item)]
  <2>k. PICK k : k = Request("cats", in, GridsInitialized, item.kind = "all", calls)
    OBVIOUS
  <2>1. /\ commands < MaxCommands /\ inputs' = in /\ calls' = calls \cup {k}
        /\ commands' = commands + 1 /\ onSuccess' = GridsInitialized
        /\ shown' = shown
    BY <1>2, <2>k DEF Command
  <2>2. AtRest /\ calls' = {k}
    BY <1>a, <1>2, <2>1 DEF Command, AtRest
  <2>3. /\ Armed(item).action # "noact" /\ Armed(item).item.no = commands + 1
        /\ commands + 1 \in 1..MaxCommands
    BY <1>0, <2>1, CommandItem
  <2>4. in["cats"] = Armed(item) /\ in["matched"] = inputs["matched"]
    BY <1>0 DEF PageInv, InputsWhole
  <2> HIDE DEF item, in
  <2>5. /\ k.buffer = "cats" /\ k.params = Armed(item) /\ k.state = "sent"
        /\ k.callback = "refreshOther"
    BY <1>0, <2>4, <2>k DEF Request, GridsInitialized
  <2>6. performed'[commands'] = 0 /\ commands' > 0
    BY <1>0, <2>1, <2>3 DEF PatientInv, Numbered
  <2>7. CarriesCommand(k)'
    BY <2>1, <2>2, <2>3, <2>5, <2>6 DEF CarriesCommand, BothRefresh, GridsInitialized
  <2>8. RightAnswer(k)'
    BY <2>5 DEF RightAnswer
  <2>9. Numbered'
    BY <1>0, <2>1, <2>2 DEF PatientInv, Numbered, AtRest, Settled
  <2> QED BY <1>0, <2>1, <2>2, <2>4, <2>7, <2>8, <2>9 DEF PatientInv
<1>3. CASE CommandThrows
  <2>1. AtRest /\ Throws("cats", inputs)
    BY <1>3, <1>a DEF CommandThrows
  <2> QED BY <2>1, DisarmedWhole DEF AtRest, Throws
<1>4. ASSUME NEW b \in Buffers, Look(b) PROVE PatientInv'
  <2>k. PICK k : k = Request(b, inputs, onSuccess, FALSE, calls)
    OBVIOUS
  <2>1. /\ AtRest /\ calls' = calls \cup {k}
        /\ UNCHANGED <<inputs, shown, commands>>
    BY <1>4, <1>a, <2>k DEF Look
  <2>2. k.buffer = b /\ k.params = inputs[b] /\ k.state = "sent"
    BY <2>k DEF Request
  <2>3. calls' = {k} /\ k.params = Disarmed
    BY <2>1, <2>2, PageAssumption DEF AtRest, PatientInv
  <2>4. Refreshes(k)'
    BY <1>0, <2>1, <2>2, <2>3, OtherBuffer DEF Refreshes, AtRest, Agrees, Settled
  <2>5. RightAnswer(k)'
    BY <2>2 DEF RightAnswer
  <2> QED BY <1>0, <2>1, <2>3, <2>4, <2>5 DEF PatientInv, Numbered
<1> QED BY <1>0, <1>1, <1>2, <1>3, <1>4, UserSteps DEF PageInv

\* An answer to a user who waits: the other grid follows, or all is at rest.
LEMMA PatientArrives ==
  ASSUME PageInv, PatientInv, NEW k \in calls, Responds(k),
         UNCHANGED <<scenario, rows, commands, performed>>
  PROVE  PatientInv'
<1> DEFINE other == Other(k.buffer)
           in == [inputs EXCEPT ![k.buffer] = k.answer.inputs]
<1>0. /\ "cats" \in Buffers /\ "matched" \in Buffers
      /\ k.buffer \in Buffers /\ other \in Buffers /\ Other(other) = k.buffer
      /\ commands \in 0..MaxCommands
  BY PageAssumption, OtherBuffer DEF PageInv, CallsWhole, WholeCall
<1>1. /\ CarriesCommand(k) \/ Refreshes(k)
      /\ calls = {k} /\ k.state = "answered"
      /\ k.answer = Answer(Disarmed, Grid(k.buffer, rows))
  BY DEF PatientInv, AtRest, CarriesCommand, Refreshes, RightAnswer, Responds
<1>2. k.answer.inputs = Disarmed /\ k.answer.rows = Grid(k.buffer, rows)
  BY <1>1 DEF Answer
<1>3. /\ inputs' = in /\ shown' = [shown EXCEPT ![k.buffer] = Grid(k.buffer, rows)]
      /\ Arrives(k, k.answer)
  BY <1>2 DEF Responds, Arrives
<1>4. in["cats"] = Disarmed /\ in["matched"] = Disarmed
  BY <1>0, <1>1, <1>2, PageAssumption
    DEF PatientInv, PageInv, InputsWhole, CarriesCommand, Refreshes
<1>5. ~Throws(other, in)
  BY <1>0, <1>4, DisarmedWhole, PageAssumption DEF Throws
<1>6. Agrees(k.buffer)' /\ (shown = [b \in Buffers |-> shown[b]])'
      /\ (Agrees(other) => Agrees(other)')
  BY <1>0, <1>3, OtherBuffer DEF PatientInv, Agrees
<1>7. Settled' /\ Numbered'
  BY <1>1 DEF PatientInv, Numbered, Settled, CarriesCommand, Refreshes
<1>8. CASE k.callback = "nothing"
  <2>1. calls' = {}
    BY <1>1, <1>3, <1>8 DEF Arrives
  <2>2. Refreshes(k)
    BY <1>1, <1>8 DEF CarriesCommand
  <2>3. \A b \in Buffers : Agrees(b)'
    BY <1>0, <1>6, <2>2, PageAssumption, OtherBuffer DEF Refreshes
  <2>4. AtRest'
    BY <1>3, <1>4, <1>7, <2>1, <2>3 DEF AtRest, Agrees
  <2> QED BY <1>3, <1>4, <1>6, <1>7, <2>4 DEF PatientInv
<1>9. CASE k.callback = "refreshOther"
  <2>l. PICK l : l = Request(other, in, onSuccess, FALSE, {})
    OBVIOUS
  <2>1. calls' = {l}
    BY <1>1, <1>3, <1>5, <1>9, <2>l DEF Arrives, Callback
  <2>2. l.buffer = other /\ l.params = Disarmed /\ l.state = "sent"
    BY <1>0, <1>4, <2>l, PageAssumption DEF Request
  <2>3. Refreshes(l)'
    BY <1>0, <1>3, <1>4, <1>6, <1>7, <2>1, <2>2 DEF Refreshes
  <2>4. RightAnswer(l)'
    BY <2>2 DEF RightAnswer
  <2> QED BY <1>3, <1>4, <1>6, <1>7, <2>1, <2>3, <2>4 DEF PatientInv
<1> QED BY <1>3, <1>8, <1>9 DEF Arrives

\* What happens to a request of a patient user keeps it too.
LEMMA PatientServed ==
  ASSUME Patient, PageInv, PatientInv, NEW k \in calls, Served(k)
  PROVE  PatientInv'
<1>0. /\ Shaped(k) /\ k.buffer \in Buffers /\ UNCHANGED <<scenario, commands>>
      /\ commands \in 0..MaxCommands /\ MaxCommands \in Nat
  BY PageAssumption, ServedSteps DEF PageInv, CallsWhole, WholeCall
<1>1. calls = {k} /\ (CarriesCommand(k) \/ Refreshes(k)) /\ RightAnswer(k)
  BY DEF PatientInv, AtRest, CarriesCommand, Refreshes
<1>2. CASE Perform(k)
  <2>l. PICK l : l = [k EXCEPT !.state = "performed"]
    OBVIOUS
  <2>1. /\ l.buffer = k.buffer /\ l.params = k.params /\ l.callback = k.callback
        /\ l.state = "performed"
    BY <1>0, <2>l DEF Shaped
  <2>2. k.state = "sent" /\ Goes(k, l)
    BY <1>2, <2>l DEF Perform
  <2>3. calls' = {l} /\ UNCHANGED <<inputs, shown, onSuccess>> /\ RightAnswer(l)'
    BY <1>1, <2>1, <2>2 DEF Goes, RightAnswer
  <2>4. CASE CarriesCommand(k)
    <3>1. commands \in 1..MaxCommands /\ performed[commands] = 0
      BY <1>0, <2>2, <2>4 DEF CarriesCommand
    <3>2. Counted(commands)
      BY <1>2, <2>4 DEF Perform, CarriesCommand
    <3>3. performed' = [performed EXCEPT ![commands] = 1]
      BY <3>1, <3>2 DEF Counted
    <3>4. performed'[commands] = 1 /\ Numbered'
      BY <1>0, <3>1, <3>3 DEF PatientInv, Numbered
    <3>5. CarriesCommand(l)'
      BY <1>0, <2>1, <2>3, <2>4, <3>4 DEF CarriesCommand
    <3> QED BY <2>3, <3>4, <3>5 DEF PatientInv
  <2>5. CASE Refreshes(k)
    <3>1. UNCHANGED <<rows, performed>>
      BY <1>2, <2>5, DisarmedWhole DEF Perform, Refreshes
    <3>2. Refreshes(l)'
      BY <1>0, <2>1, <2>3, <2>5, <3>1 DEF Refreshes, Agrees, Settled
    <3> QED BY <1>0, <2>3, <3>1, <3>2 DEF PatientInv, Numbered
  <2> QED BY <1>1, <2>4, <2>5
<1>3. CASE Render(k)
  <2>l. PICK l : l = Rendered(k)
    OBVIOUS
  <2>1. /\ l.buffer = k.buffer /\ l.params = k.params /\ l.callback = k.callback
        /\ l.state = "answered" /\ l.answer = Answer(Disarmed, Grid(k.buffer, rows))
    BY <2>l DEF Rendered
  <2>2. k.state = "performed" /\ Goes(k, l) /\ UNCHANGED <<rows, performed>>
    BY <1>0, <1>3, <2>l, RenderedCall DEF Render
  <2>3. calls' = {l} /\ UNCHANGED <<inputs, shown, onSuccess>> /\ RightAnswer(l)'
    BY <1>1, <2>1, <2>2 DEF Goes, RightAnswer
  <2>4. CarriesCommand(k) => CarriesCommand(l)'
    BY <1>0, <2>1, <2>2, <2>3 DEF CarriesCommand
  <2>5. Refreshes(k) => Refreshes(l)'
    BY <1>0, <2>1, <2>2, <2>3 DEF Refreshes, Agrees, Settled
  <2> QED BY <1>0, <1>1, <2>2, <2>3, <2>4, <2>5 DEF PatientInv, Numbered
<1>4. CASE Responds(k) /\ UNCHANGED <<rows, performed>>
  BY <1>0, <1>4, PatientArrives
<1> QED BY <1>2, <1>3, <1>4, ServedSteps DEF Patient, Has

\* The invariant of a user who waits: one request at a time, and the grid that
\* it does not refresh shows the table.
THEOREM PatientInvariant == FairSpec => [](Patient => PatientInv)
<1> DEFINE Inv == PageInv /\ (Patient => PatientInv)
<1>1. Init => Inv
  BY InitWhole, PatientInit
<1>2. Inv /\ [Next]_vars => Inv'
  <2> SUFFICES ASSUME Inv, [Next]_vars PROVE Inv'
    OBVIOUS
  <2>1. CASE UNCHANGED vars
    BY <2>1 DEF vars, bufVars, PageInv, InputsWhole, CallsWhole, AnswerDisarms, Has,
      Patient, PatientInv, AtRest, Agrees, Settled, CarriesCommand, Refreshes,
      RightAnswer, Numbered
  <2>2. CASE User
    <3>1. Patient' => Patient
      BY <2>2 DEF User, Patient
    <3> QED BY <2>2, <3>1, UserWhole, PatientUser
  <2>3. ASSUME NEW k \in calls, Served(k) PROVE Inv'
    <3>1. Patient' => Patient
      BY <2>3, ServedSteps DEF Patient
    <3> QED BY <2>3, <3>1, ServedWhole, PatientServed
  <2> QED BY <2>1, <2>2, <2>3 DEF Next, InSlot
<1>3. Inv => (Patient => PatientInv)
  OBVIOUS
<1> QED BY <1>1, <1>2, <1>3, PTL DEF FairSpec

\* A command of a user who waits is performed, and once, though the grids
\* refresh each other (GridsInitialized).
THEOREM CommandsPerformedOnce == FairSpec => []PerformedOnce
<1>1. PageInv /\ (Patient => PatientInv) => PerformedOnce
  <2> SUFFICES ASSUME PageInv, Patient => PatientInv, scenario.features = {},
                      NEW n \in 1..commands
               PROVE  performed[n] <= 1 /\ (calls = {} => performed[n] = 1)
    BY DEF PerformedOnce
  <2>1. PatientInv /\ commands \in 0..MaxCommands /\ MaxCommands \in Nat
    BY PageAssumption DEF Patient, PageInv
  <2>2. CASE n < commands
    BY <2>1, <2>2 DEF PatientInv, Numbered
  <2>3. CASE n = commands
    BY <2>1, <2>3 DEF PatientInv, AtRest, Refreshes, CarriesCommand, Settled
  <2> QED BY <2>1, <2>2, <2>3
<1> QED BY <1>1, PageInvariant, PatientInvariant, PTL

\* When all is answered to a user who waits, both grids show the table.
THEOREM GridsShowTheTable == FairSpec => []GridsAgree
<1>1. (Patient => PatientInv) => GridsAgree
  BY DEF Patient, PatientInv, AtRest, Agrees, GridsAgree
<1> QED BY <1>1, PatientInvariant, PTL

-----------------------------------------------------------------------------
(* Types *)

\* The least slot that is free is one, when there is one.
LEMMA FreeSlotIsFree ==
  ASSUME NEW C, NEW n \in 1..MaxCalls, \A k \in C : k.slot # n
  PROVE  FreeSlot(C) \in 1..MaxCalls /\ \A k \in C : k.slot # FreeSlot(C)
<1> DEFINE T == {m \in 1..MaxCalls : \A k \in C : k.slot # m}
<1>1. MaxCalls \in Nat BY PageAssumption
<1>2. T \subseteq Nat /\ T # {} /\ \A m \in T : m \in 1..MaxCalls /\ \A k \in C : k.slot # m
  BY <1>1
<1>3. \A m \in 1..MaxCalls : m \notin T => \E k \in C : k.slot = m
  OBVIOUS
<1> HIDE DEF T
<1>4. PICK i \in T : \A m \in T : ~(<<m, i>> \in OpToRel(<, Nat))
  BY <1>2, NatLessThanWellFounded, WFMin, Zenon
<1>5. \A m \in T : ~(m < i)
  BY <1>2, <1>4 DEF OpToRel
<1>6. \A m \in 1..(i - 1) : \E k \in C : k.slot = m
  <2> TAKE m \in 1..(i - 1)
  <2>1. m \in 1..MaxCalls /\ m < i BY <1>1, <1>2
  <2> QED BY <1>3, <1>5, <2>1
<1> QED BY <1>2, <1>6 DEF FreeSlot

\* The slots of requests differ.
SlotsDiffer(C) ==
  /\ \A k \in C : k.slot \in 1..MaxCalls
  /\ \A k, l \in C : k.slot = l.slot => k = l

\* Fewer requests than slots leave one free.
LEMMA SlotIsLeft ==
  ASSUME NEW C, SlotsDiffer(C), Cardinality(C) < MaxCalls
  PROVE  \E n \in 1..MaxCalls : \A k \in C : k.slot # n
<1> DEFINE f == [k \in C |-> k.slot]
           T == 1..MaxCalls
<1>1. MaxCalls \in Nat BY PageAssumption
<1>2. IsFiniteSet(T) /\ Cardinality(T) = MaxCalls
  BY <1>1, FS_Interval
<1>3. f \in [C -> T] /\ \A k, l \in C : f[k] = f[l] => k = l
  BY DEF SlotsDiffer
<1>4. f \in Injection(C, T)
  BY <1>3, Fun_IsInj
<1> HIDE DEF f, T
<1>5. Cardinality(C) = Cardinality(T) <=> f \in Surjection(C, T)
  BY <1>2, <1>4, FS_Injection
<1>6. f \notin Surjection(C, T)
  <2>1. Cardinality(C) # Cardinality(T) BY <1>1, <1>2
  <2> QED BY <1>5, <2>1
<1>7. \E n \in T : \A k \in C : f[k] # n
  BY <1>3, <1>6, Fun_IsSurj
<1> QED BY <1>7 DEF f, T

\* A request on its way, but for its slot.
CallTyped(k) ==
  /\ Shaped(k)
  /\ k.slot \in 1..MaxCalls
  /\ k.buffer \in Buffers
  /\ k.params \in AllInputs
  /\ k.callback \in {"nothing", "refreshOther"}
  /\ k.progress \in BOOLEAN
  /\ k.state \in {"sent", "performed", "answered"}
  /\ k.state = "answered" => k.answer.rows \subseteq AllRows
  /\ k.state # "answered" => k.answer = NoAnswer

CallsTyped == SlotsDiffer(calls) /\ \A k \in calls : CallTyped(k)

\* The part of TypeOK that is not about requests.
PageTyped ==
  /\ scenario \in Scenarios
  /\ shown \in [Buffers -> SUBSET AllRows]
  /\ onSuccess \in [Buffers -> {"nothing", "refreshOther"}]
  /\ window \in Items \cup {NoWindow, Progress}
  /\ rows \in SUBSET AllRows
  /\ looks \in 0..MaxLooks
  /\ performed \in [1..MaxCommands -> 0..2]

TypeInv == CallsTyped /\ PageTyped

\* One more request gets a slot of its own.
LEMMA RequestTyped ==
  ASSUME NEW C, SlotsDiffer(C), \A k \in C : CallTyped(k),
         NEW n \in 1..MaxCalls, \A k \in C : k.slot # n,
         NEW b \in Buffers, NEW in, Whole(in[b]),
         NEW callbacks \in [Buffers -> {"nothing", "refreshOther"}],
         NEW progress \in BOOLEAN
  PROVE  LET D == C \cup {Request(b, in, callbacks, progress, C)}
         IN  SlotsDiffer(D) /\ \A k \in D : CallTyped(k)
<1> DEFINE l == Request(b, in, callbacks, progress, C)
<1>1. l.slot \in 1..MaxCalls /\ \A k \in C : k.slot # l.slot
  BY FreeSlotIsFree DEF Request
<1>2. CallTyped(l)
  BY <1>1 DEF CallTyped, Shaped, Request, Whole
<1> HIDE DEF l
<1>3. SlotsDiffer(C \cup {l})
  BY <1>1 DEF SlotsDiffer
<1> QED BY <1>2, <1>3 DEF l

\* The page starts with values of its types.
LEMMA TypeInit == Init => TypeInv
<1> SUFFICES ASSUME Init PROVE TypeInv
  OBVIOUS
<1>1. CallsTyped
  BY DEF Init, CallsTyped, SlotsDiffer
<1>2. Rows0 \subseteq AllRows BY PageAssumption DEF AllRows
<1>3. shown \in [Buffers -> SUBSET AllRows]
  BY <1>2 DEF Init, Grid
<1> QED BY <1>1, <1>2, <1>3, PageAssumption DEF Init, TypeInv, PageTyped

\* What the forms offer are items.
LEMMA OfferedItems ==
  ASSUME PageTyped, commands \in 0..MaxCommands, commands < MaxCommands
  PROVE  Offered \subseteq Items
<1>1. commands + 1 \in 1..MaxCommands /\ MaxIds \in Nat BY PageAssumption
<1>2. \A x \in UNION {shown[b] : b \in Buffers} :
        x.u2cid \in 0..MaxIds /\ x.url \in Urls /\ x.cid \in Cids
  BY <1>1 DEF PageTyped, AllRows
<1>3. \A kind \in {"add", "upd", "del", "byName"}, id \in 0..MaxIds, url \in Urls, cid \in Cids :
        Item(kind, id, url, cid) \in Items
  BY <1>1 DEF Item, Items, AllKinds
<1>4. 0 \in 0..MaxIds BY <1>1
<1>5. \A url \in Urls, cid \in Cids : Item("add", 0, url, cid) \in Items
  BY <1>3, <1>4
<1>6. \A x \in UNION {shown[b] : b \in Buffers}, url \in Urls, cid \in Cids :
        /\ Item("upd", x.u2cid, url, cid) \in Items
        /\ Item("del", x.u2cid, x.url, x.cid) \in Items
        /\ Item("byName", 0, x.url, cid) \in Items
  BY <1>2, <1>3, <1>4
<1> DEFINE seen == UNION {shown[b] : b \in Buffers}
<1>7. {Item("add", 0, url, cid) : url \in Urls, cid \in Cids} \subseteq Items
  BY <1>5
<1>8. {Item("upd", x.u2cid, url, cid) : x \in seen, url \in Urls, cid \in Cids} \subseteq Items
  <2> SUFFICES ASSUME NEW x \in seen, NEW url \in Urls, NEW cid \in Cids
               PROVE  Item("upd", x.u2cid, url, cid) \in Items
    OBVIOUS
  <2> QED BY <1>6
<1>9. {Item("del", x.u2cid, x.url, x.cid) : x \in seen} \subseteq Items
  BY <1>2, <1>3
<1>10. {Item("byName", 0, x.url, cid) : x \in seen, cid \in Cids} \subseteq Items
  <2> SUFFICES ASSUME NEW x \in seen, NEW cid \in Cids
               PROVE  Item("byName", 0, x.url, cid) \in Items
    OBVIOUS
  <2> QED BY <1>2, <1>3, <1>4
<1> QED BY <1>7, <1>8, <1>9, <1>10 DEF Offered

\* What the user does keeps the types.
LEMMA UserTyped ==
  ASSUME PageInv, TypeInv, User
  PROVE  TypeInv'
<1> USE DEF TypeInv
<1>0. /\ commands \in 0..MaxCommands /\ MaxCommands \in Nat /\ MaxLooks \in Nat
      /\ "cats" \in Buffers
      /\ UNCHANGED <<scenario, rows, performed>>
  BY PageAssumption DEF PageInv, User
<1>1. CASE OpenForm
  <2>1. window' \in Items /\ UNCHANGED <<shown, onSuccess, calls, looks>>
    BY <1>0, <1>1, OfferedItems DEF OpenForm
  <2> QED BY <1>0, <2>1 DEF CallsTyped, PageTyped
<1>2. ASSUME NEW x \in Items, Command(x) PROVE TypeInv'
  <2> DEFINE item == [x EXCEPT !.no = commands + 1]
             in == [inputs EXCEPT !["cats"] = Armed(item)]
  <2>1. /\ calls' = calls \cup {Request("cats", in, GridsInitialized, item.kind = "all", calls)}
        /\ onSuccess' = GridsInitialized /\ UNCHANGED <<shown, looks>>
        /\ window' = Hidden(window)
        /\ commands < MaxCommands /\ Cardinality(calls) < MaxCalls
    BY <1>2 DEF Command, Info, Acts
  <2>2. GridsInitialized \in [Buffers -> {"nothing", "refreshOther"}]
    BY DEF GridsInitialized
  <2>3. Whole(in["cats"])
    BY <1>0, <2>1, CommandItem DEF PageInv, InputsWhole
  <2>4. (item.kind = "all") \in BOOLEAN OBVIOUS
  <2>5. PICK n \in 1..MaxCalls : \A k \in calls : k.slot # n
    BY <2>1, SlotIsLeft DEF CallsTyped
  <2> HIDE DEF item, in
  <2>6. CallsTyped'
    BY <1>0, <2>1, <2>2, <2>3, <2>4, <2>5, RequestTyped DEF CallsTyped
  <2>7. window' \in Items \cup {NoWindow, Progress}
    BY <2>1 DEF Hidden, PageTyped
  <2> QED BY <1>0, <2>1, <2>2, <2>6, <2>7 DEF PageTyped
<1>3. CASE CommandThrows
  BY <1>0, <1>3 DEF CommandThrows, GridsInitialized, CallsTyped, PageTyped
<1>4. CASE Confirm
  <2>1. window \in Items BY <1>4 DEF Confirm
  <2> QED BY <1>2, <1>3, <1>4, <2>1 DEF Confirm
<1>5. CASE AllClicked
  <2>1. CASE Command(Item("all", 0, CHOOSE url \in Urls : TRUE, Unrecognized))
    <3>1. commands < MaxCommands BY <2>1 DEF Command
    <3> QED BY <1>0, <1>2, <2>1, <3>1, AllItem
  <2> QED BY <1>3, <1>5, <2>1 DEF AllClicked
<1>6. CASE Cancel
  BY <1>0, <1>6 DEF Cancel, CallsTyped, PageTyped
<1>7. ASSUME NEW b \in Buffers, Look(b) PROVE TypeInv'
  <2>1. /\ calls' = calls \cup {Request(b, inputs, onSuccess, FALSE, calls)}
        /\ UNCHANGED <<shown, onSuccess>> /\ window' = window
        /\ looks' = looks + 1 /\ looks < MaxLooks
        /\ ~Throws(b, inputs) /\ Cardinality(calls) < MaxCalls
    BY <1>7 DEF Look, Info, Acts
  <2>2. Whole(inputs[b])
    BY <2>1, PresentWhole DEF PageInv, InputsWhole
  <2>3. PICK n \in 1..MaxCalls : \A k \in calls : k.slot # n
    BY <2>1, SlotIsLeft DEF CallsTyped
  <2>4. CallsTyped'
    BY <2>1, <2>2, <2>3, RequestTyped DEF CallsTyped, PageTyped
  <2>5. looks' \in 0..MaxLooks
    BY <1>0, <2>1 DEF PageTyped
  <2> QED BY <1>0, <2>1, <2>4, <2>5 DEF PageTyped
<1> QED BY <1>1, <1>3, <1>4, <1>5, <1>6, <1>7 DEF User

\* A command keeps the table a table.
LEMMA PerformTyped ==
  ASSUME PageTyped, NEW x \in Items, PerformAction(x)
  PROVE  rows' \in SUBSET AllRows
<1>1. x.url \in Urls /\ x.cid \in Cids BY DEF Items
<1>2. \A y \in rows : y.u2cid \in 1..MaxIds /\ y.url \in Urls /\ y.cid \in Cids
  BY DEF PageTyped, AllRows
<1>3. \A id \in 1..MaxIds, url \in Urls, cid \in Cids : Row(id, url, cid) \in AllRows
  BY DEF Row, AllRows
<1>4. rows \subseteq AllRows BY DEF PageTyped
<1>5. CASE AddUrlCategoryMatch(x)
  <2>1. NewId \in 1..MaxIds BY <1>5 DEF AddUrlCategoryMatch, NewId
  <2> QED BY <1>1, <1>3, <1>4, <1>5, <2>1 DEF AddUrlCategoryMatch
<1>6. CASE UpdateUrlCategoryMatch(x)
  BY <1>1, <1>2, <1>3, <1>4, <1>6 DEF UpdateUrlCategoryMatch
<1>7. CASE DeleteUrlCategoryMatch(x)
  BY <1>4, <1>7 DEF DeleteUrlCategoryMatch
<1>8. CASE UpdateUrlCategoryMatchByName(x)
  BY <1>1, <1>2, <1>3, <1>4, <1>8 DEF UpdateUrlCategoryMatchByName
<1>9. CASE RecognizeAll
  BY <1>2, <1>3, <1>9 DEF RecognizeAll
<1> QED BY <1>5, <1>6, <1>7, <1>8, <1>9 DEF PerformAction

\* An answer may send one more request, in a slot that is free.
LEMMA ArrivesTyped ==
  ASSUME PageInv, TypeInv, NEW k \in calls, NEW answer, Arrives(k, answer),
         answer.inputs = Disarmed \/ answer.inputs = Blank,
         answer.rows \subseteq AllRows,
         UNCHANGED <<scenario, rows, performed, looks>>
  PROVE  TypeInv'
<1> USE DEF TypeInv
<1> DEFINE in == [inputs EXCEPT ![k.buffer] = answer.inputs]
           other == Other(k.buffer)
           C == calls \ {k}
<1>1. k.buffer \in Buffers /\ other \in Buffers /\ k.slot \in 1..MaxCalls
  BY OtherBuffer DEF CallsTyped, CallTyped
<1>2. /\ shown' = [shown EXCEPT ![k.buffer] = answer.rows]
      /\ \/ window' = window
         \/ window' = NoWindow
      /\ \/ calls' = C /\ onSuccess' = onSuccess
         \/ /\ calls' = C \cup {Request(other, in, onSuccess, FALSE, C)}
            /\ onSuccess' = [onSuccess EXCEPT ![k.buffer] = "nothing"]
            /\ ~Throws(other, in)
  BY DEF Arrives, CloseInfo, Info, Callback
<1>3. PageTyped'
  BY <1>1, <1>2 DEF PageTyped
<1>4. SlotsDiffer(C) /\ (\A l \in C : CallTyped(l)) /\ \A l \in C : l.slot # k.slot
  BY DEF CallsTyped, SlotsDiffer
<1>5. ~Throws(other, in) => Whole(in[other])
  <2>1. /\ in["cats"] = Blank \/ Whole(in["cats"])
        /\ in["matched"] = Blank \/ in["matched"] = Disarmed
    BY <1>1, DisarmedWhole, PageAssumption DEF PageInv, InputsWhole
  <2> QED BY <1>1, <2>1, PresentWhole
<1>6. onSuccess \in [Buffers -> {"nothing", "refreshOther"}] BY DEF PageTyped
<1> HIDE DEF in, other, C
<1>7. CASE calls' = C
  <2>1. CallsTyped' BY <1>4, <1>7 DEF CallsTyped
  <2> QED BY <1>3, <2>1
<1>8. CASE /\ calls' = C \cup {Request(other, in, onSuccess, FALSE, C)}
           /\ ~Throws(other, in)
  <2>1. LET D == C \cup {Request(other, in, onSuccess, FALSE, C)}
        IN  SlotsDiffer(D) /\ \A l \in D : CallTyped(l)
    BY <1>1, <1>4, <1>5, <1>6, <1>8, RequestTyped
  <2>2. CallsTyped' BY <1>8, <2>1 DEF CallsTyped
  <2> QED BY <1>3, <2>2
<1> QED BY <1>2, <1>7, <1>8

\* What becomes of a request keeps the types.
LEMMA ServedTyped ==
  ASSUME PageInv, TypeInv, NEW k \in calls, Served(k)
  PROVE  TypeInv'
<1> USE DEF TypeInv
<1>0. CallTyped(k) /\ WholeCall(k) /\ UNCHANGED <<scenario, commands, looks>>
  BY ServedSteps DEF PageInv, CallsWhole, CallsTyped
<1>1. ASSUME NEW l, CallTyped(l), l.slot = k.slot, Goes(k, l) PROVE CallsTyped'
  BY <1>1 DEF Goes, CallsTyped, SlotsDiffer
<1>2. CASE Perform(k)
  <2> DEFINE l == [k EXCEPT !.state = "performed"]
  <2>1. l.slot = k.slot /\ CallTyped(l)
    BY <1>0, <1>2 DEF Perform, CallTyped, Shaped
  <2>2. Goes(k, l) BY <1>2 DEF Perform
  <2>3. CallsTyped' BY <1>1, <2>1, <2>2
  <2>4. rows' \in SUBSET AllRows /\ performed' \in [1..MaxCommands -> 0..2]
    <3>1. CASE k.buffer = "cats" /\ k.params.action # "noact"
      <4>1. k.params.item \in Items
        BY <1>0, <3>1 DEF WholeCall, Whole, AllInputs
      <4>2. k.params.item.no \in 1..MaxCommands BY <4>1 DEF Items
      <4>3. PerformAction(k.params.item) /\ Counted(k.params.item.no)
        BY <1>2, <3>1 DEF Perform
      <4> QED BY <4>1, <4>2, <4>3, PerformTyped DEF Counted, PageTyped
    <3>2. CASE ~(k.buffer = "cats" /\ k.params.action # "noact")
      BY <1>2, <3>2 DEF Perform, PageTyped
    <3> QED BY <3>1, <3>2
  <2> QED BY <1>0, <2>2, <2>3, <2>4 DEF PageTyped, Goes
<1>3. CASE Render(k)
  <2> DEFINE l == Rendered(k)
  <2>1. Goes(k, l) /\ UNCHANGED <<rows, performed>>
    BY <1>0, <1>3, RenderedCall DEF CallTyped, Render
  <2>2. Grid(k.buffer, rows) \subseteq AllRows BY DEF Grid, PageTyped
  <2>3. l.slot = k.slot /\ CallTyped(l)
    BY <1>0, <2>2 DEF Rendered, CallTyped, Shaped, Answer
  <2>4. CallsTyped' BY <1>1, <2>1, <2>3
  <2> QED BY <1>0, <2>1, <2>4 DEF PageTyped, Goes
<1>4. CASE Responds(k) /\ UNCHANGED <<rows, performed>>
  <2>1. /\ Arrives(k, k.answer) /\ k.answer.inputs = Disarmed
        /\ k.answer.rows \subseteq AllRows
    BY <1>0, <1>4 DEF Responds, WholeCall, CallTyped
  <2> QED BY <1>0, <1>4, <2>1, ArrivesTyped
<1>5. CASE Arrives(k, Answer(Blank, {})) /\ UNCHANGED <<rows, performed>>
  <2>1. Answer(Blank, {}).inputs = Blank /\ Answer(Blank, {}).rows \subseteq AllRows
    BY DEF Answer
  <2> QED BY <1>0, <1>5, <2>1, ArrivesTyped
<1>6. CASE Ignored(k) /\ UNCHANGED <<rows, performed>>
  BY <1>0, <1>6 DEF Ignored, CallsTyped, SlotsDiffer, PageTyped
<1> QED BY <1>2, <1>3, <1>4, <1>5, <1>6, ServedSteps

\* The page, its requests and the table keep their types; no two requests are
\* in one slot.
THEOREM PageTypes == FairSpec => []TypeOK
<1>1. Init => TypeInv BY TypeInit
<1>2. PageInv /\ TypeInv /\ [Next]_vars => TypeInv'
  <2>1. ASSUME PageInv, TypeInv, UNCHANGED vars PROVE TypeInv'
    BY <2>1 DEF vars, bufVars, TypeInv, CallsTyped, PageTyped
  <2> QED BY <2>1, UserTyped, ServedTyped DEF Next, InSlot
<1>3. PageInv /\ TypeInv => TypeOK
  <2> SUFFICES ASSUME PageInv, TypeInv PROVE TypeOK
    OBVIOUS
  <2>1. DOMAIN inputs = Buffers BY DEF PageInv, InputsWhole
  <2>2. \A b \in Buffers : inputs[b] = Blank \/ inputs[b] \in AllInputs
    BY PageAssumption, DisarmedWhole DEF PageInv, InputsWhole, Whole
  <2>3. commands \in 0..MaxCommands BY DEF PageInv
  <2> QED BY <2>1, <2>2, <2>3 DEF TypeInv, CallsTyped, CallTyped, SlotsDiffer, PageTyped, TypeOK
<1> QED BY <1>1, <1>2, <1>3, PageInvariant, PTL DEF FairSpec

=============================================================================
