---------------------------- MODULE MCCalculator ----------------------------
(***************************************************************************)
(* Calculator for TLC: every text of up to MaxLen characters over a small  *)
(* alphabet, and a sum 1+1+... of each length in Long.                     *)
(***************************************************************************)
EXTENDS Calculator

CONSTANTS Alphabet, MaxLen, Long

Ones(n) == [i \in 1..n |-> IF i % 2 = 1 THEN Zero + 1 ELSE Plus]
MCExpressions ==
  UNION {[1..n -> Alphabet] : n \in 0..MaxLen} \cup {Ones(n) : n \in Long}
=============================================================================
