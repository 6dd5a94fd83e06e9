------------------------------- MODULE MCLog -------------------------------
(***************************************************************************)
(* Small instances of Log for TLC.                                         *)
(***************************************************************************)
EXTENDS Log, TLC

CONSTANTS r1, r2

ReaderSymmetry == Permutations(Readers)
=============================================================================
