------------------------------ MODULE AjaxBuffer ------------------------------
(***************************************************************************)
(* The client side of SMPHPToolkit: ajax_buffer, an element of a page that *)
(* is fetched again by update(), over the Ajax.Request of prototype.js.    *)
(* update() posts the hidden inputs that are rendered inside the element;  *)
(* the answer replaces the element, the inputs with it, and then calls     *)
(* what onSuccess was when the request was sent.  Nothing holds the user   *)
(* back meanwhile, requests overtake each other, and an answer that does   *)
(* not come looks like an empty one or like nothing.                       *)
(*                                                                         *)
(* Two buffers that refresh each other are all the pages have.  A step is  *)
(* a turn of the script, which no other turn interrupts.                   *)
(***************************************************************************)
EXTENDS Naturals, FiniteSets

CONSTANTS
  Buffers,     \* ids of the elements
  Blank,       \* the inputs of an element that has become empty
  NoAnswer,    \* of a request that is under way
  NoWindow,    \* no dialog
  Progress,    \* that of Dialog.info
  MaxCalls     \* bound: requests at a time

VARIABLES
  inputs,        \* the values of the hidden inputs of an element
  shown,         \* the rows it shows
  onSuccess,     \* what its buffer is to call after an answer
  window,        \* the dialog that is open
  calls          \* requests on the way, at the server, or on the way back

bufVars == <<inputs, shown, onSuccess, window, calls>>

Other(b) == CHOOSE c \in Buffers : c # b

Answer(in, rows) == [inputs |-> in, rows |-> rows]

FreeSlot(C) ==
  CHOOSE n \in 1..MaxCalls :
    /\ \A k \in C : k.slot # n
    /\ \A m \in 1..(n - 1) : \E k \in C : k.slot = m

\* The request of update(): the inputs, the callback and _show_progress are those
\* of now.
Request(b, in, callbacks, progress, C) ==
  [slot |-> FreeSlot(C), buffer |-> b, params |-> in[b],
   callback |-> callbacks[b], progress |-> progress,
   state |-> "sent", answer |-> NoAnswer]

\* An input that is gone throws before anything is sent.
Throws(b, in) == in[b] = Blank

\* update() is written to open a window, but asks this._show_progress, which
\* nobody sets: the value is in the variable _show_progress.
Info(progress, w) == w

\* Mutant: the callback stays for the next answer.
CallbackStays(k, in, C) ==
  /\ calls' = C \cup {Request(Other(k.buffer), in, onSuccess, FALSE, C)}
  /\ UNCHANGED onSuccess

\* The callback of a page with two grids: the other grid, once.
Callback(k, in, C) ==
  /\ calls' = C \cup {Request(Other(k.buffer), in, onSuccess, FALSE, C)}
  /\ onSuccess' = [onSuccess EXCEPT ![k.buffer] = "nothing"]

\* Dialog.closeInfo closes whatever dialog was opened last.
CloseInfo(k, opened) == window' = IF k.progress THEN NoWindow ELSE opened

\* onSuccess of the Ajax.Request.  An exception of the callback is swallowed,
\* together with what follows.
Arrives(k, answer) ==
  LET in == [inputs EXCEPT ![k.buffer] = answer.inputs]
      C == calls \ {k}
      other == Other(k.buffer)
  IN  /\ inputs' = in
      /\ shown' = [shown EXCEPT ![k.buffer] = answer.rows]
      /\ \/ /\ k.callback = "nothing"
            /\ CloseInfo(k, window)
            /\ calls' = C
            /\ UNCHANGED onSuccess
         \/ /\ k.callback = "refreshOther"
            /\ ~Throws(other, in)
            /\ CloseInfo(k, Info(FALSE, window))
            /\ Callback(k, in, C)
         \/ /\ k.callback = "refreshOther"
            /\ Throws(other, in)
            /\ calls' = C
            /\ UNCHANGED <<onSuccess, window>>

\* The answer of the server.
Responds(k) ==
  /\ k.state = "answered"
  /\ Arrives(k, k.answer)

\* There is no handler for a failure.
Ignored(k) ==
  /\ calls' = calls \ {k}
  /\ UNCHANGED <<inputs, shown, onSuccess, window>>

\* success() takes status 0, that of a connection that broke, for a success
\* without a text; other browsers throw when they are asked for the status.
Breaks(k) == Arrives(k, Answer(Blank, {})) \/ Ignored(k)

=============================================================================
