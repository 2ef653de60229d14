---------------------------- MODULE MCRegisters ----------------------------
(***************************************************************************)
(* A small instance of Registers: two counters and two users, and ids      *)
(* enough to open a register again.  Ids are interchangeable.              *)
(***************************************************************************)
EXTENDS Registers, TLC

RegisterSymmetry ==
  Permutations(Registers) \cup Permutations(Calls)
    \cup Permutations(Users) \cup Permutations(Counters)
=============================================================================
