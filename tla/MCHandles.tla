----------------------------- MODULE MCHandles -----------------------------
(***************************************************************************)
(* Small instances of Handles for TLC.                                     *)
(***************************************************************************)
EXTENDS Handles, TLC

CONSTANTS p1, p2, t1, w1, w2

\* Two threads trade handles while a task watches the demand.
KindDemand == p1 :> "write" @@ p2 :> "write" @@ t1 :> "wanted"
TargetDemand == p1 :> {} @@ p2 :> {} @@ t1 :> {}
=============================================================================
