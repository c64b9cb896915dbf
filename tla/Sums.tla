-------------------------------- MODULE Sums --------------------------------
(***************************************************************************)
(* The sum of the entries 1..n of a function, for the counts that the      *)
(* threads of a search keep.                                               *)
(***************************************************************************)
EXTENDS Integers

SumUpTo(f, n) ==
  LET s[k \in 0..n] == IF k = 0 THEN 0 ELSE s[k - 1] + f[k]
  IN  s[n]
=============================================================================
