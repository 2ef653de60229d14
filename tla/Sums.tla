------------------------------- MODULE Sums -------------------------------
(* The sum of the numbers a function has for its (finitely many) arguments. *)
EXTENDS Integers, FiniteSetsExt

Total(f) == IF DOMAIN f = {} THEN 0 ELSE MapThenSumSet(LAMBDA x : f[x], DOMAIN f)
============================================================================
