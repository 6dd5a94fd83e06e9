---------------------------- MODULE MCWaiterList ----------------------------
(***************************************************************************)
(* Small instances of WaiterList for TLC.                                  *)
(***************************************************************************)
EXTENDS WaiterList, TLC

Sym == Permutations(Waiters) \cup Permutations(Lists) \cup Permutations(Tasks)
=============================================================================
