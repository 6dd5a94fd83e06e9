---------------------------- MODULE BridgeProofs ----------------------------
(***************************************************************************)
(* The bridge loses no wake and wakes nobody under the lock of the handle, *)
(* for any number of tasks and of sources.                                 *)
(***************************************************************************)
EXTENDS Bridge, TLAPS

\* Where a thread can be.
Places == {"idle", "lock", "hold", "poll", "use", "inline", "release", "unlock", "fire", "wake"}

\* Where a task has the lock of the handle, and where the handle is marked locked.
Locked == {"hold", "poll", "use", "inline", "release", "unlock"}
Marked == {"poll", "use", "inline", "release"}

\* The lock of the handle and its mark follow the place of the task that has it; a deferred
\* wake waits for that task, and only a thread on its way out of the lock has waiters to wake.
LockInv ==
    /\ \A t \in Tasks : at[t] \in Locked <=> inner = t
    /\ \A t \in Tasks : at[t] # "fire"
    /\ \A s \in Sources : at[s] \in {"idle", "fire", "wake"}
    /\ held <=> \E t \in Tasks : at[t] \in Marked
    /\ deferred => held
    /\ \A p \in Threads : taken[p] # {} => at[p] \in {"unlock", "wake"}

\* A task polls the handle only inside Bridge::poll.
PollInv ==
    \A t \in Tasks :
        /\ at[t] = "poll" => t \in waiting
        /\ at[t] = "use" => t \notin waiting

\* The waiter of a pending poll is parked or taken from its registration on, and once the
\* handle answered Pending something is left that wakes it.
Covered(t) ==
    \/ \E p \in Threads : t \in taken[p]
    \/ /\ t \in list
       /\ \/ armed /\ ready = 0
          \/ held /\ deferred
          \/ \E s \in Sources : at[s] = "fire"
Parked(t) == t \in list \/ \E p \in Threads : t \in taken[p]
WaitInv ==
    \A t \in waiting \ woken :
        /\ Parked(t)
        /\ at[t] \in {"lock", "hold", "poll"} \/ Covered(t)

\* The handle hands out no more progress than was made.
Owed == ready <= made

IInv == TypeOK /\ Owed /\ LockInv /\ PollInv /\ WaitInv

\* A new bridge satisfies the inductive invariant (Bridge::new).
LEMMA InitInv == Init => IInv
<1>. SUFFICES ASSUME Init PROVE IInv
  OBVIOUS
<1>. USE BridgeAssumption DEF Init, Threads
<1>1. TypeOK /\ Owed
  <2>1. 0 \in 0 .. MaxReady /\ 0 <= 0
    OBVIOUS
  <2>2. at \in [Threads -> {"idle"}] /\ taken \in [Threads -> {{}}]
    OBVIOUS
  <2>. QED
    BY <2>1, <2>2 DEF TypeOK, Owed
<1>2. LockInv
  BY DEF LockInv, Locked, Marked
<1>3. PollInv /\ WaitInv
  BY DEF PollInv, WaitInv
<1>. QED
  BY <1>1, <1>2, <1>3 DEF IInv

\* A step keeps the types.
LEMMA TypeStep ==
    ASSUME TypeOK, Owed, Next
    PROVE  TypeOK' /\ Owed'
<1>. USE BridgeAssumption DEF TypeOK, Owed, Threads, Goto
<1>1. ASSUME NEW t \in Tasks, Poll(t) PROVE TypeOK' /\ Owed'
  BY <1>1 DEF Poll, Register
<1>2. ASSUME NEW t \in Tasks, Use(t) PROVE TypeOK' /\ Owed'
  BY <1>2 DEF Use
<1>3. ASSUME NEW t \in Tasks, Cancel(t) PROVE TypeOK' /\ Owed'
  BY <1>3 DEF Cancel
<1>4. ASSUME NEW t \in Tasks, Lock(t) PROVE TypeOK' /\ Owed'
  BY <1>4 DEF Lock
<1>5. ASSUME NEW t \in Tasks, Hold(t) PROVE TypeOK' /\ Owed'
  BY <1>5 DEF Hold
<1>6. ASSUME NEW t \in Tasks, Resolve(t) PROVE TypeOK' /\ Owed'
  BY <1>6 DEF Resolve
<1>7. ASSUME NEW t \in Tasks, Pend(t) PROVE TypeOK' /\ Owed'
  BY <1>7 DEF Pend
<1>8. ASSUME NEW t \in Tasks, Yield(t) PROVE TypeOK' /\ Owed'
  BY <1>8 DEF Yield, WakeByRef
<1>9. ASSUME NEW t \in Tasks, Operate(t) PROVE TypeOK' /\ Owed'
  <2>1. ready' \in 0 .. MaxReady /\ made' \in 0 .. MaxReady /\ ready' <= made'
    BY <1>9 DEF Operate
  <2>2. list' \subseteq Tasks /\ deferred' \in BOOLEAN /\ taken' \in [Threads -> SUBSET Tasks]
    BY <1>9 DEF Operate, WakeByRef
  <2>3. at' \in [Threads -> Places]
    BY <1>9 DEF Operate, Places
  <2>. QED
    BY <1>9, <2>1, <2>2, <2>3 DEF Operate, Places
<1>10. ASSUME NEW t \in Tasks, Look(t) PROVE TypeOK' /\ Owed'
  BY <1>10 DEF Look
<1>11. ASSUME NEW t \in Tasks, Release(t) PROVE TypeOK' /\ Owed'
  BY <1>11 DEF Release
<1>12. ASSUME NEW t \in Tasks, Unlock(t) PROVE TypeOK' /\ Owed'
  BY <1>12 DEF Unlock
<1>13. ASSUME NEW s \in Sources, Progress(s) PROVE TypeOK' /\ Owed'
  <2>1. ready' \in 0 .. MaxReady /\ made' \in 0 .. MaxReady /\ ready' <= made'
    BY <1>13 DEF Progress
  <2>2. at' \in [Threads -> Places]
    BY <1>13 DEF Progress, Places
  <2>. QED
    BY <1>13, <2>1, <2>2 DEF Progress, Places
<1>14. ASSUME NEW s \in Sources, Fire(s) PROVE TypeOK' /\ Owed'
  <2>1. list' \subseteq Tasks /\ deferred' \in BOOLEAN /\ taken' \in [Threads -> SUBSET Tasks]
    <3>1. CASE held
      BY <1>14, <3>1 DEF Fire, WakeByRef
    <3>2. CASE ~held
      BY <1>14, <3>2 DEF Fire, WakeByRef
    <3>. QED
      BY <3>1, <3>2
  <2>2. at' \in [Threads -> Places]
    BY <1>14 DEF Fire, Places
  <2>. QED
    BY <1>14, <2>1, <2>2 DEF Fire, Places
<1>15. ASSUME NEW p \in Threads, Wake(p) PROVE TypeOK' /\ Owed'
  BY <1>15 DEF Wake
<1>16. ASSUME NEW p \in Threads, Woken(p) PROVE TypeOK' /\ Owed'
  BY <1>16 DEF Woken
<1>. QED
  BY <1>1, <1>2, <1>3, <1>4, <1>5, <1>6, <1>7, <1>8, <1>9, <1>10, <1>11, <1>12, <1>13,
     <1>14, <1>15, <1>16 DEF Next, Step

\* Who has the lock of the handle, its mark, the deferred wake and the taken waiters
\* (Bridge::lock, Waiters::hold, Waiters::release, Guard::drop).
LEMMA LockStep ==
    ASSUME TypeOK, LockInv, Next
    PROVE  LockInv'
<1>. USE BridgeAssumption DEF TypeOK, LockInv, Threads, Goto, Locked, Marked
<1>1. ASSUME NEW t \in Tasks, Poll(t) PROVE LockInv'
  BY <1>1 DEF Poll, Register
<1>2. ASSUME NEW t \in Tasks, Use(t) PROVE LockInv'
  BY <1>2 DEF Use
<1>3. ASSUME NEW t \in Tasks, Cancel(t) PROVE LockInv'
  BY <1>3 DEF Cancel
<1>4. ASSUME NEW t \in Tasks, Lock(t) PROVE LockInv'
  BY <1>4 DEF Lock
<1>5. ASSUME NEW t \in Tasks, Hold(t) PROVE LockInv'
  BY <1>5 DEF Hold
<1>6. ASSUME NEW t \in Tasks, Resolve(t) PROVE LockInv'
  BY <1>6 DEF Resolve
<1>7. ASSUME NEW t \in Tasks, Pend(t) PROVE LockInv'
  BY <1>7 DEF Pend
<1>8. ASSUME NEW t \in Tasks, Yield(t) PROVE LockInv'
  BY <1>8 DEF Yield, WakeByRef
<1>9. ASSUME NEW t \in Tasks, Operate(t) PROVE LockInv'
  BY <1>9 DEF Operate, WakeByRef
<1>10. ASSUME NEW t \in Tasks, Look(t) PROVE LockInv'
  BY <1>10 DEF Look
<1>11. ASSUME NEW t \in Tasks, Release(t) PROVE LockInv'
  BY <1>11 DEF Release
<1>12. ASSUME NEW t \in Tasks, Unlock(t) PROVE LockInv'
  BY <1>12 DEF Unlock
<1>13. ASSUME NEW s \in Sources, Progress(s) PROVE LockInv'
  BY <1>13 DEF Progress
<1>14. ASSUME NEW s \in Sources, Fire(s) PROVE LockInv'
  BY <1>14 DEF Fire, WakeByRef
<1>15. ASSUME NEW p \in Threads, Wake(p) PROVE LockInv'
  BY <1>15 DEF Wake
<1>16. ASSUME NEW p \in Threads, Woken(p) PROVE LockInv'
  BY <1>16 DEF Woken
<1>. QED
  BY <1>1, <1>2, <1>3, <1>4, <1>5, <1>6, <1>7, <1>8, <1>9, <1>10, <1>11, <1>12, <1>13,
     <1>14, <1>15, <1>16 DEF Next, Step

\* Only the task itself starts and ends a poll.
LEMMA PollStep ==
    ASSUME TypeOK, LockInv, PollInv, Next
    PROVE  PollInv'
<1>. USE BridgeAssumption DEF TypeOK, LockInv, PollInv, Threads, Goto
<1>1. ASSUME NEW t \in Tasks, Poll(t) \/ Use(t) \/ Cancel(t) PROVE PollInv'
  BY <1>1 DEF Poll, Use, Cancel
<1>2. ASSUME NEW t \in Tasks, Lock(t) \/ Hold(t) \/ Resolve(t) \/ Pend(t) \/ Look(t) \/ Unlock(t) PROVE PollInv'
  BY <1>2 DEF Lock, Hold, Resolve, Pend, Look, Unlock
<1>3. ASSUME NEW t \in Tasks, Yield(t) \/ Operate(t) \/ Release(t) PROVE PollInv'
  BY <1>3 DEF Yield, Operate, Release
<1>4. ASSUME NEW s \in Sources, Progress(s) \/ Fire(s) PROVE PollInv'
  BY <1>4 DEF Progress, Fire
<1>5. ASSUME NEW p \in Threads, Wake(p) \/ Woken(p) PROVE PollInv'
  BY <1>5 DEF Wake, Woken
<1>. QED
  BY <1>1, <1>2, <1>3, <1>4, <1>5 DEF Next, Step

\* A poll that found nothing leaves its waiter where some wake will find it (Bridge::poll,
\* Waiters::wake_by_ref, Guard::drop).
LEMMA WaitStep ==
    ASSUME TypeOK, LockInv, PollInv, WaitInv, Next
    PROVE  WaitInv'
<1>. USE BridgeAssumption DEF TypeOK, LockInv, PollInv, WaitInv, Parked, Covered, Threads, Goto, Locked, Marked
<1>1. ASSUME NEW t \in Tasks, Poll(t) PROVE WaitInv'
  BY <1>1 DEF Poll, Register
<1>2. ASSUME NEW t \in Tasks, Use(t) PROVE WaitInv'
  BY <1>2 DEF Use
<1>3. ASSUME NEW t \in Tasks, Cancel(t) PROVE WaitInv'
  BY <1>3 DEF Cancel
<1>4. ASSUME NEW t \in Tasks, Lock(t) PROVE WaitInv'
  BY <1>4 DEF Lock
<1>5. ASSUME NEW t \in Tasks, Hold(t) PROVE WaitInv'
  BY <1>5 DEF Hold
<1>6. ASSUME NEW t \in Tasks, Resolve(t) PROVE WaitInv'
  BY <1>6 DEF Resolve
<1>7. ASSUME NEW t \in Tasks, Pend(t) PROVE WaitInv'
  BY <1>7 DEF Pend
<1>8. ASSUME NEW t \in Tasks, Yield(t) PROVE WaitInv'
  BY <1>8 DEF Yield, WakeByRef
<1>9. ASSUME NEW t \in Tasks, Operate(t) PROVE WaitInv'
  BY <1>9 DEF Operate, WakeByRef
<1>10. ASSUME NEW t \in Tasks, Look(t) PROVE WaitInv'
  BY <1>10 DEF Look
<1>11. ASSUME NEW t \in Tasks, Release(t) PROVE WaitInv'
  BY <1>11 DEF Release
<1>12. ASSUME NEW t \in Tasks, Unlock(t) PROVE WaitInv'
  BY <1>12 DEF Unlock
<1>13. ASSUME NEW s \in Sources, Progress(s) PROVE WaitInv'
  BY <1>13 DEF Progress
<1>14. ASSUME NEW s \in Sources, Fire(s) PROVE WaitInv'
  BY <1>14 DEF Fire, WakeByRef
<1>15. ASSUME NEW p \in Threads, Wake(p) PROVE WaitInv'
  BY <1>15 DEF Wake
<1>16. ASSUME NEW p \in Threads, Woken(p) PROVE WaitInv'
  BY <1>16 DEF Woken
<1>. QED
  BY <1>1, <1>2, <1>3, <1>4, <1>5, <1>6, <1>7, <1>8, <1>9, <1>10, <1>11, <1>12, <1>13,
     <1>14, <1>15, <1>16 DEF Next, Step

\* No call, wake or progress breaks the inductive invariant.
LEMMA StepInv == IInv /\ [Next]_vars => IInv'
<1>. SUFFICES ASSUME IInv, [Next]_vars PROVE IInv'
  OBVIOUS
<1>1. CASE Next
  BY <1>1, TypeStep, LockStep, PollStep, WaitStep DEF IInv
<1>2. CASE UNCHANGED vars
  BY <1>2 DEF IInv, vars, TypeOK, Owed, LockInv, PollInv, WaitInv, Parked, Covered, Threads
<1>. QED
  BY <1>1, <1>2

\* The inductive invariant holds of every bridge.
THEOREM Invariance == Spec => []IInv
  BY InitInv, StepInv, PTL DEF Spec

\* No task sleeps in a pending poll of the handle with progress to take and no wake on the
\* way, whatever lock a wake runs into (bridge.rs poll, wake_by_ref and Guard::drop).
THEOREM WakeSafety == Spec => []NoLostWake
<1>1. IInv => NoLostWake
  BY DEF IInv, NoLostWake, WaitInv, Covered, TypeOK
<1>. QED
  BY <1>1, Invariance, PTL

\* No thread wakes a waiter while it has the lock of the handle (bridge.rs State::held).
THEOREM WakesUnlocked == Spec => []NoWakeUnderLock
<1>1. IInv => NoWakeUnderLock
  BY DEF IInv, NoWakeUnderLock, LockInv, Locked, Threads
<1>. QED
  BY <1>1, Invariance, PTL
=============================================================================
