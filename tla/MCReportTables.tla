--------------------------- MODULE MCReportTables ---------------------------
(* ReportTables on small instances. *)
EXTENDS ReportTables, TLC

CONSTANTS s1, s2, u1, u2, html, image, w1, k1, k2

TwoSessions == {s1, s2}
TwoUsers == {u1, u2}
TwoUserOf == s1 :> u1 @@ s2 :> u2

\* One url that answers with two content types.
TwoPages == {html, image}
OneUrl == {w1}
OneUrlOf == html :> w1 @@ image :> w1
TwoKeys == {k1, k2}

Shipped ==
  [merging |-> TRUE, deletable |-> {}, keyOf |-> html :> k1 @@ image :> k2]

\* As it is shipped; with a user who is deleted; with hash codes that
\* collide; without merging.
Configurations ==
  {Shipped,
   [Shipped EXCEPT !.deletable = {u2}],
   [Shipped EXCEPT !.keyOf = html :> k1 @@ image :> k1],
   [Shipped EXCEPT !.merging = FALSE]}

=============================================================================
