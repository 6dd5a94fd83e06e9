------------------------------ MODULE MCQueue ------------------------------
(***************************************************************************)
(* A small instance of Queue, and of the gates of Wakes, for TLC.          *)
(***************************************************************************)
EXTENDS Wakes

CONSTANTS t1, t2, t3, r1, r2

AllModes == {"queue", "front", "reader"}
InOrder == <<r1, r2>>
=============================================================================
