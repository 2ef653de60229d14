----------------------------- MODULE MCFallback -----------------------------
(***************************************************************************)
(* A small instance of Fallback: bill ids are interchangeable.             *)
(***************************************************************************)
EXTENDS Fallback, TLC

BillSymmetry == Permutations(Bills)
=============================================================================
