------------------------------- MODULE Bridge -------------------------------
(***************************************************************************)
(* The bridge of kio (rs/kio/src/bridge.rs) from a handle that remembers   *)
(* one std waker to any number of kio waiters.  Every poll gives the       *)
(* handle the bridge's own waker, whose wake drains the list of waiters.   *)
(* The handle is locked while it is used; a wake that lands meanwhile is   *)
(* deferred to the release of the lock, because a waiter may poll the      *)
(* bridge again from inside its waker.                                     *)
(*                                                                         *)
(* The handle is external: it has `ready` units of progress to hand out,   *)
(* and a poll that finds none leaves the waker behind.  A source is what   *)
(* makes progress behind the handle's back.                                *)
(***************************************************************************)
EXTENDS Naturals, FiniteSets

CONSTANTS
    Tasks,
    Sources,
    None,
    MaxReady      \* bound on the units of progress

ASSUME BridgeAssumption ==
    /\ Tasks \cap Sources = {}
    /\ None \notin Tasks
    /\ MaxReady \in Nat

VARIABLES
    list,         \* State::list, the waiters, one for each task
    held,
    deferred,
    inner,        \* who has the lock of Bridge::inner, or None
    ready,        \* the handle: the progress it has to hand out
    armed,        \* the handle: it remembers the bridge's waker
    made,         \* the progress ever made
    at,           \* what each task and source does
    waiting,      \* the tasks whose last poll was pending
    woken,        \* the tasks the executor owes a poll
    taken         \* the waiters a thread took and has not woken yet

vars == <<list, held, deferred, inner, ready, armed, made, at, waiting, woken, taken>>

Threads == Tasks \cup Sources

TypeOK ==
    /\ list \subseteq Tasks
    /\ held \in BOOLEAN /\ deferred \in BOOLEAN
    /\ inner \in Tasks \cup {None}
    /\ ready \in 0 .. MaxReady /\ made \in 0 .. MaxReady
    /\ armed \in BOOLEAN
    /\ at \in [Threads -> {"idle", "lock", "hold", "poll", "use", "inline", "release", "unlock", "fire", "wake"}]
    /\ waiting \subseteq Tasks /\ woken \subseteq Tasks
    /\ taken \in [Threads -> SUBSET Tasks]

Init ==
    /\ list = {} /\ held = FALSE /\ deferred = FALSE
    /\ inner = None
    /\ ready = 0 /\ armed = FALSE /\ made = 0
    /\ at = [p \in Threads |-> "idle"]
    /\ waiting = {} /\ woken = {}
    /\ taken = [p \in Threads |-> {}]

Goto(p, where) == at' = [at EXCEPT ![p] = where]

-----------------------------------------------------------------------------
\* Waiters::wake_by_ref, under the lock of the waiters; what it took is woken after it.
WakeByRef(p) ==
    IF held
      THEN deferred' = TRUE /\ UNCHANGED <<list, taken>>
      ELSE /\ taken' = [taken EXCEPT ![p] = list]
           /\ list' = {}
           /\ UNCHANGED deferred

Register(t) == list' = list \cup {t}

\* Bridge::poll, up to the lock of the handle.  `poll` is the task's first or one it was
\* woken for, here or elsewhere.
Poll(t) ==
    /\ at[t] = "idle"
    /\ Register(t)
    /\ woken' = woken \ {t}
    /\ waiting' = waiting \cup {t}
    /\ Goto(t, "lock")
    /\ UNCHANGED <<held, deferred, inner, ready, armed, made, taken>>

\* Bridge::lock, called on its own.
Use(t) ==
    /\ at[t] = "idle" /\ t \notin waiting
    /\ Goto(t, "lock")
    /\ UNCHANGED <<list, held, deferred, inner, ready, armed, made, waiting, woken, taken>>

Lock(t) ==
    /\ at[t] = "lock" /\ inner = None
    /\ inner' = t
    /\ Goto(t, "hold")
    /\ UNCHANGED <<list, held, deferred, ready, armed, made, waiting, woken, taken>>

\* Mutant of Hold: the handle is not marked locked.
Hold_not(t) ==
    /\ at[t] = "hold"
    /\ Goto(t, IF t \in waiting THEN "poll" ELSE "use")
    /\ UNCHANGED <<list, held, deferred, inner, ready, armed, made, waiting, woken, taken>>

Hold(t) ==
    /\ at[t] = "hold"
    /\ held' = TRUE
    /\ Goto(t, IF t \in waiting THEN "poll" ELSE "use")
    /\ UNCHANGED <<list, deferred, inner, ready, armed, made, waiting, woken, taken>>

\* The handle's poll is ready,
Resolve(t) ==
    /\ at[t] = "poll" /\ ready > 0
    /\ ready' = ready - 1
    /\ waiting' = waiting \ {t}
    /\ Goto(t, "release")
    /\ UNCHANGED <<list, held, deferred, inner, armed, made, woken, taken>>

\* or is pending and remembers the waker,
Pend(t) ==
    /\ at[t] = "poll" /\ ready = 0
    /\ armed' = TRUE
    /\ Goto(t, "release")
    /\ UNCHANGED <<list, held, deferred, inner, ready, made, waiting, woken, taken>>

\* or yields: it is pending and has already woken the waker.
Yield(t) ==
    /\ at[t] = "poll"
    /\ WakeByRef(t)
    /\ Goto(t, "inline")
    /\ UNCHANGED <<held, inner, ready, armed, made, waiting, woken>>

\* An operation on the locked handle that makes progress and wakes who polled it.
Operate(t) ==
    /\ at[t] = "use"
    /\ made < MaxReady
    /\ made' = made + 1 /\ ready' = ready + 1
    /\ armed' = FALSE
    /\ IF armed THEN WakeByRef(t) ELSE UNCHANGED <<list, deferred, taken>>
    /\ Goto(t, "inline")
    /\ UNCHANGED <<held, inner, waiting, woken>>

\* One that does not.
Look(t) ==
    /\ at[t] = "use"
    /\ Goto(t, "release")
    /\ UNCHANGED <<list, held, deferred, inner, ready, armed, made, waiting, woken, taken>>

\* Mutant of Release: a deferred wake is forgotten.
Release_forgets(t) ==
    /\ at[t] = "release"
    /\ held' = FALSE
    /\ deferred' = FALSE
    /\ Goto(t, "unlock")
    /\ UNCHANGED <<list, inner, ready, armed, made, waiting, woken, taken>>

\* Guard::drop: Waiters::release while the handle is still locked, which takes the waiters
\* a deferred wake owes,
Release(t) ==
    /\ at[t] = "release"
    /\ held' = FALSE
    /\ deferred' = FALSE
    /\ IF deferred
         THEN taken' = [taken EXCEPT ![t] = list] /\ list' = {}
         ELSE UNCHANGED <<list, taken>>
    /\ Goto(t, "unlock")
    /\ UNCHANGED <<inner, ready, armed, made, waiting, woken>>

\* then the unlock, and the wakes after it.
Unlock(t) ==
    /\ at[t] = "unlock"
    /\ inner' = None
    /\ Goto(t, "wake")
    /\ UNCHANGED <<list, held, deferred, ready, armed, made, waiting, woken, taken>>

\* The wakes are done: back to the handle's code, or out of the call.
Woken(p) ==
    /\ at[p] \in {"inline", "wake"} /\ taken[p] = {}
    /\ Goto(p, IF at[p] = "inline" THEN "release" ELSE "idle")
    /\ UNCHANGED <<list, held, deferred, inner, ready, armed, made, waiting, woken, taken>>

\* Mutant of Wake: a waiter stays in the snapshot when it is woken.
Wake_stuck(p) ==
    /\ at[p] \in {"inline", "wake"}
    /\ \E u \in taken[p] : woken' = woken \cup {u}
    /\ UNCHANGED <<list, held, deferred, inner, ready, armed, made, at, waiting, taken>>

\* WaiterList::wake, one waiter at a time.
Wake(p) ==
    /\ at[p] \in {"inline", "wake"}
    /\ \E u \in taken[p] :
          /\ woken' = woken \cup {u}
          /\ taken' = [taken EXCEPT ![p] = @ \ {u}]
    /\ UNCHANGED <<list, held, deferred, inner, ready, armed, made, at, waiting>>

\* Progress behind the handle: it wakes the waker it remembers.
Progress(s) ==
    /\ at[s] = "idle"
    /\ made < MaxReady
    /\ made' = made + 1 /\ ready' = ready + 1
    /\ armed' = FALSE
    /\ Goto(s, IF armed THEN "fire" ELSE "idle")
    /\ UNCHANGED <<list, held, deferred, inner, waiting, woken, taken>>

Fire(s) ==
    /\ at[s] = "fire"
    /\ WakeByRef(s)
    /\ Goto(s, "wake")
    /\ UNCHANGED <<held, inner, ready, armed, made, waiting, woken>>

\* A pending poll is given up, or the waiter of one that returned is dropped.
Cancel(t) ==
    /\ at[t] = "idle"
    /\ waiting' = waiting \ {t}
    /\ woken' = woken \ {t}
    /\ list' = list \ {t}
    /\ taken' = [p \in Threads |-> taken[p] \ {t}]
    /\ UNCHANGED <<held, deferred, inner, ready, armed, made, at>>

-----------------------------------------------------------------------------
Step(t) ==
    \/ Lock(t) \/ Hold(t)
    \/ Resolve(t) \/ Pend(t) \/ Yield(t) \/ Operate(t) \/ Look(t)
    \/ Release(t) \/ Unlock(t)

Next ==
    \/ \E t \in Tasks : Poll(t) \/ Use(t) \/ Step(t) \/ Cancel(t)
    \/ \E s \in Sources : Progress(s) \/ Fire(s)
    \/ \E p \in Threads : Wake(p) \/ Woken(p)

Spec == Init /\ [][Next]_vars

\* The executor polls a woken task, a thread in a call goes on, a task that waits for the
\* lock of the handle gets it, and a handle with progress to hand out does not yield for
\* ever.
Fairness ==
    /\ \A t \in Tasks :
          /\ WF_vars(t \in woken /\ Poll(t))
          /\ WF_vars(Step(t)) /\ SF_vars(Lock(t)) /\ SF_vars(Resolve(t))
    /\ \A s \in Sources : WF_vars(Fire(s))
    /\ \A p \in Threads : WF_vars(Wake(p) \/ Woken(p))

FairSpec == Spec /\ Fairness

-----------------------------------------------------------------------------
(* Properties.                                                             *)

\* A task that sleeps in a pending poll is on the list of an armed handle that has nothing
\* to hand out, or its wake is on the way: fired by a source, deferred to the release of the
\* lock, or taken (bridge.rs poll against wake_by_ref and Guard::drop).
NoLostWake ==
    \A t \in waiting \ woken :
        at[t] = "idle" =>
            \/ \E p \in Threads : t \in taken[p]
            \/ /\ t \in list
               /\ \/ armed /\ ready = 0
                  \/ held /\ deferred
                  \/ \E s \in Sources : at[s] = "fire"

\* No thread wakes a waiter while it has the lock of the handle (bridge.rs State::held: a
\* waiter woken inline that polls the bridge again would block on it for ever).
NoWakeUnderLock ==
    \A t \in Tasks : at[t] \in {"inline", "wake"} /\ taken[t] # {} => inner # t

\* A poll that never resolves found a handle with nothing to hand out for good.
Resolves == \A t \in Tasks : <>[](t \in waiting) => <>[](ready = 0)
=============================================================================
