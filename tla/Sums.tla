-------------------------------- MODULE Sums --------------------------------
(***************************************************************************)
(* Finite sums of integers, written as a recursive function (the code adds *)
(* amounts up in "for" loops over arrays).                                 *)
(***************************************************************************)
EXTENDS Integers

\* f[1] + f[2] + ... + f[n]
Total(f, n) ==
  LET sum[k \in 0 .. n] == IF k = 0 THEN 0 ELSE sum[k - 1] + f[k]
  IN  sum[n]
=============================================================================
