-------------------------------- MODULE Sums --------------------------------
(***************************************************************************)
(* The sum of a column of numbers, as a recursive function.  (The folds of   *)
(* the community modules say the same; this form can be reasoned about.)      *)
(***************************************************************************)
EXTENDS Integers

(* amounts[1] + ... + amounts[n] *)
SumUpTo(amounts, n) ==
  LET sum[k \in 0..n] == IF k = 0 THEN 0 ELSE sum[k - 1] + amounts[k]
  IN  sum[n]
=============================================================================
