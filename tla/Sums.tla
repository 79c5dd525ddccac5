-------------------------------- MODULE Sums --------------------------------
(* The sum of the values of a function over a finite set of arguments, for the
   modules whose properties are about totals. *)
EXTENDS Integers, FiniteSets, FiniteSetsExt

Sum(S, f) == MapThenSumSet(LAMBDA x : f[x], S)

=============================================================================
