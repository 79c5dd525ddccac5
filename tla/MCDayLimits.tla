---------------------------- MODULE MCDayLimits ----------------------------
(* DayLimits on small instances. *)
EXTENDS DayLimits, TLC

CONSTANTS t1, t2

TwoThreads == {t1, t2}
OneThread == {t1}
TwoTariffs == 1..2
TwoObjects == {1, 2}
Interchangeable == Permutations(TwoThreads)

Quiet ==
  [owner |-> "proxy", threads |-> OneThread, days |-> 2, maximum |-> 4,
   rang |-> 1 :> 1 @@ 2 :> 2, exceed_times |-> 1 :> 0 @@ 2 :> 2,
   piece |-> 2, used |-> 5, events |-> {}]

\* One thread and the calendar; two threads; RADIUS, which keeps its object;
\* statements that fail; a configuration without a limit, or without ranks.
Troubles ==
  {[Quiet EXCEPT !.maximum = 3, !.used = 4, !.events = {"midnight"}],
   [Quiet EXCEPT !.threads = TwoThreads, !.maximum = 2, !.piece = 1, !.used = 2],
   [Quiet EXCEPT !.owner = "radius", !.threads = TwoThreads, !.maximum = 3,
                 !.piece = 1, !.used = 3, !.events = {"midnight"}],
   [Quiet EXCEPT !.events = {"failures"}],
   [Quiet EXCEPT !.owner = "radius", !.threads = TwoThreads, !.maximum = 1,
                 !.piece = 1, !.used = 2, !.events = {"races", "failures"}],
   [Quiet EXCEPT !.maximum = NoLimit],
   [Quiet EXCEPT !.rang = 1 :> 0 @@ 2 :> 0]}

=============================================================================
