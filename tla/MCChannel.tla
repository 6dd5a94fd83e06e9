----------------------------- MODULE MCChannel -----------------------------
(***************************************************************************)
(* Small instances of Channel for TLC.                                     *)
(***************************************************************************)
EXTENDS Channel, TLC

CONSTANTS p1, t1, t2, w1, w2

\* A writer, a task that watches the value and one that waits for the closure.
KindWatch == p1 :> "write" @@ t1 :> "watch" @@ t2 :> "closed"
TargetWatch == p1 :> {} @@ t1 :> {1} @@ t2 :> {}
=============================================================================
