-------------------------------- MODULE Sums --------------------------------
(***************************************************************************)
(* The sum of a column over a set of rows: what the loops of               *)
(* service/settlement.go add up in a variable or a map entry.              *)
(***************************************************************************)
EXTENDS Integers, FiniteSetsExt

\* The sum of F[w] over the elements w of W.
SumOver(F, W) == MapThenSumSet(LAMBDA w : F[w], W)
=============================================================================
