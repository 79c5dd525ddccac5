--------------------------- MODULE MCCategoryPage ---------------------------
(* CategoryPage on small instances. *)
EXTENDS CategoryPage

CONSTANTS u1, u2, unrecognized, games

TwoUrls == {u1, u2}
TwoCids == {unrecognized, games}
Grids == {"cats", "matched"}
OneRow == {Row(1, u1, unrecognized)}

Study(features, kinds) == [features |-> features, kinds |-> kinds]

\* Every command of a user who waits, and some when something goes wrong.
Habits ==
  {Study({}, AllKinds),
   Study({"impatient"}, {"del", "byName"}),
   Study({"refused"}, {"add"}),
   Study({"lost"}, {"upd", "all"})}

=============================================================================
