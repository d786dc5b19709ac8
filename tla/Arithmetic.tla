------------------------------ MODULE Arithmetic ------------------------------
(***************************************************************************)
(* Sums over a set of indices and powers, as functions that can be         *)
(* reasoned about.                                                         *)
(***************************************************************************)
EXTENDS Integers, FiniteSetsExt

\* The sum of f[x] for the x in S.
SumOver(f, S) == MapThenSumSet(LAMBDA x : f[x], S)

\* b to the n.
Power(b, n) ==
  LET p[k \in Nat] == IF k = 0 THEN 1 ELSE b * p[k - 1]
  IN  p[n]
===============================================================================
