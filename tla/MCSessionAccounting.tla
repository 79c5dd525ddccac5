------------------------ MODULE MCSessionAccounting ------------------------
(* SessionAccounting on small instances. *)
EXTENDS SessionAccounting, TLC

CONSTANTS s1, s2, u1, p1, p2

OneSession == {s1}
OneLogin == s1 :> u1

\* Two sessions under one login.
TwoSessions == {s1, s2}
OneUser == {u1}
SameLogin == s1 :> u1 @@ s2 :> u1
TwoProcessors == {p1, p2}
Interchangeable == Permutations(TwoProcessors)

Quiet ==
  [sids |-> {s1}, processors |-> TwoProcessors, simultaneousUse |-> 1,
   portLimit |-> 0, timeout |-> 1, crashes |-> 0, events |-> {}]

\* Packets that come twice; statements that fail, with a port limit and a
\* restart; two sessions and a restart.
Troubles ==
  {[Quiet EXCEPT !.timeout = 2, !.events = {"repeats"}],
   [Quiet EXCEPT !.portLimit = 1, !.crashes = 1,
                 !.events = {"races", "failures", "closing", "late"}],
   [Quiet EXCEPT !.sids = TwoSessions, !.processors = {p1}, !.timeout = 2,
                 !.simultaneousUse = 2, !.crashes = 1]}

\* Everything that may become of a session but failing statements.
Endings ==
  {[Quiet EXCEPT !.crashes = 1, !.events = {"repeats", "races", "closing", "late"}]}

TwoAtOnce == {[Quiet EXCEPT !.sids = TwoSessions]}

=============================================================================
