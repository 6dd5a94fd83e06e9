------------------------------ MODULE Registry ------------------------------
(***************************************************************************)
(* What a kio WaiterList promises its users: a waiter that registered and  *)
(* still exists stays parked until the list is drained, and a drain wakes  *)
(* everyone parked.  WaiterList.tla implements it with weak entries, tags  *)
(* and a bounded record of registrations.                                  *)
(***************************************************************************)
CONSTANTS
    Lists,
    Waiters,
    Nobody        \* no registration in progress

VARIABLES
    parked,       \* the waiters each list would wake
    calling,      \* the waiter registering on each list, under the list's lock
    woken         \* the waiters woken since they last looked

regVars == <<parked, calling, woken>>

RegInit ==
    /\ parked = [l \in Lists |-> {}]
    /\ calling = [l \in Lists |-> Nobody]
    /\ woken = {}

Call(l, w) ==
    /\ calling[l] = Nobody
    /\ calling' = [calling EXCEPT ![l] = w]
    /\ UNCHANGED <<parked, woken>>

\* A registration that returned has parked its waiter.
Return(l) ==
    /\ calling[l] # Nobody
    /\ parked' = [parked EXCEPT ![l] = @ \cup {calling[l]}]
    /\ calling' = [calling EXCEPT ![l] = Nobody]
    /\ UNCHANGED woken

\* A drain wakes all that are parked, and only those.
Drain(l) ==
    /\ calling[l] = Nobody
    /\ woken' = woken \cup parked[l]
    /\ parked' = [parked EXCEPT ![l] = {}]
    /\ UNCHANGED calling

\* A waiter that is dropped leaves every list, whether or not a new one takes over.
Leave(w) ==
    /\ \A l \in Lists : calling[l] # w
    /\ parked' = [l \in Lists |-> parked[l] \ {w}]
    /\ woken' = woken \ {w}
    /\ UNCHANGED calling

\* The task looks: it is polled again.
Look(w) ==
    /\ woken' = woken \ {w}
    /\ UNCHANGED <<parked, calling>>

RegNext ==
    \/ \E l \in Lists, w \in Waiters : Call(l, w)
    \/ \E l \in Lists : Return(l) \/ Drain(l)
    \/ \E w \in Waiters : Leave(w) \/ Look(w)

RegSpec == RegInit /\ [][RegNext]_regVars

=============================================================================
