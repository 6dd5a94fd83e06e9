------------------------------- MODULE Queue -------------------------------
(***************************************************************************)
(* The FIFO queue of kio (rs/kio/src/queue.rs): one lock around the items, *)
(* the closed flag and two waiter lists.  An operation decides under the   *)
(* lock and wakes the other side's waiters after it has let go of it.      *)
(*                                                                         *)
(* A task that calls an operation holds no other state between two calls   *)
(* than the waiter it parked; a waiter wakes the task that parked it.      *)
(***************************************************************************)
EXTENDS Naturals, Sequences, FiniteSets

CONSTANTS
    Tasks,
    Capacity,     \* of a bounded queue
    Unbounded,    \* the queue has no capacity
    MaxPushes     \* bound on the items ever pushed

ASSUME QueueAssumption ==
    /\ Capacity \in Nat \ {0}
    /\ Unbounded \in BOOLEAN
    /\ MaxPushes \in Nat

VARIABLES
    queue,        \* State::queue; the items are numbered in the order of their pushes
    closed,
    waiters_pop,
    waiters_push,
    at,           \* what each task does: "run", "wake", or parked in "pop" or "push"
    woken,        \* the tasks the executor owes a poll
    taken,        \* the waiters a task took and has not woken yet
    pushed,       \* history: the items pushed
    popped,       \* history: the items popped, in order
    told          \* history: the tasks a pop told Closed

vars == <<queue, closed, waiters_pop, waiters_push, at, woken, taken, pushed, popped, told>>

\* The types, and the capacity of a bounded queue.
TypeOK ==
    /\ queue \in Seq(Nat)
    /\ Unbounded \/ Len(queue) <= Capacity
    /\ closed \in BOOLEAN
    /\ waiters_pop \subseteq Tasks /\ waiters_push \subseteq Tasks
    /\ at \in [Tasks -> {"run", "wake", "pop", "push"}]
    /\ woken \subseteq Tasks
    /\ taken \in [Tasks -> SUBSET Tasks]
    /\ pushed \in Nat
    /\ popped \in Seq(Nat)
    /\ told \subseteq Tasks

Init ==
    /\ queue = <<>> /\ closed = FALSE
    /\ waiters_pop = {} /\ waiters_push = {}
    /\ at = [t \in Tasks |-> "run"]
    /\ woken = {}
    /\ taken = [t \in Tasks |-> {}]
    /\ pushed = 0 /\ popped = <<>> /\ told = {}

-----------------------------------------------------------------------------
\* Mutant of has_space: a full queue takes one more.
has_space_at_capacity == Unbounded \/ Len(queue) <= Capacity

has_space == Unbounded \/ Len(queue) < Capacity

\* The executor polls the task: for the first time, or again, because it was woken here or
\* by something else it waits on.
Polled(t, side) == at[t] \in {"run", side}

\* The bound: every push begun has a number left.
MayPush == pushed + Cardinality({t \in Tasks : at[t] = "push"}) < MaxPushes

\* The operation returns without waking anybody.
Return(t) ==
    /\ at' = [at EXCEPT ![t] = "run"]
    /\ woken' = woken \ {t}
    /\ UNCHANGED taken

\* It has taken waiters to wake outside the lock.
Owe(t, waiters) ==
    /\ at' = [at EXCEPT ![t] = "wake"]
    /\ woken' = woken \ {t}
    /\ taken' = [taken EXCEPT ![t] = waiters]

\* A pending poll parks the task.
Suspend(t, side) ==
    /\ at' = [at EXCEPT ![t] = side]
    /\ woken' = woken \ {t}
    /\ UNCHANGED taken

\* The critical section of a push that goes through.
Enqueue(t) ==
    /\ queue' = Append(queue, pushed + 1)
    /\ pushed' = pushed + 1
    /\ waiters_pop' = {}
    /\ Owe(t, waiters_pop)
    /\ UNCHANGED <<closed, waiters_push, popped, told>>

\* try_push hands the item back when the queue is closed or full.
TryPush(t) ==
    /\ at[t] = "run" /\ MayPush
    /\ IF closed \/ ~has_space
         THEN Return(t) /\ UNCHANGED <<queue, closed, waiters_pop, waiters_push, pushed, popped, told>>
         ELSE Enqueue(t)

\* poll_push_with.
PollPush(t) ==
    /\ Polled(t, "push")
    /\ at[t] = "run" => MayPush
    /\ \/ /\ closed
          /\ Return(t)
          /\ UNCHANGED <<queue, closed, waiters_pop, waiters_push, pushed, popped, told>>
       \/ /\ ~closed /\ ~has_space
          /\ waiters_push' = waiters_push \cup {t}
          /\ Suspend(t, "push")
          /\ UNCHANGED <<queue, closed, waiters_pop, pushed, popped, told>>
       \/ /\ ~closed /\ has_space
          /\ Enqueue(t)

\* The critical section of a pop that finds an item.
Dequeue(t) ==
    /\ queue # <<>>
    /\ queue' = Tail(queue)
    /\ popped' = Append(popped, Head(queue))
    /\ waiters_push' = {}
    /\ Owe(t, waiters_push)
    /\ UNCHANGED <<closed, waiters_pop, pushed, told>>

\* Queued items drain before the closure is reported.
Drained(t) ==
    /\ queue = <<>> /\ closed
    /\ told' = told \cup {t}
    /\ Return(t)
    /\ UNCHANGED <<queue, closed, waiters_pop, waiters_push, pushed, popped>>

TryPop(t) ==
    /\ at[t] = "run"
    /\ \/ Dequeue(t)
       \/ Drained(t)
       \/ /\ queue = <<>> /\ ~closed
          /\ Return(t)
          /\ UNCHANGED <<queue, closed, waiters_pop, waiters_push, pushed, popped, told>>

\* Mutant of PollPop: the closure is reported before the items are drained.
PollPop_closed_first(t) ==
    /\ Polled(t, "pop")
    /\ IF closed
         THEN /\ told' = told \cup {t}
              /\ Return(t)
              /\ UNCHANGED <<queue, closed, waiters_pop, waiters_push, pushed, popped>>
         ELSE \/ Dequeue(t)
              \/ /\ queue = <<>>
                 /\ waiters_pop' = waiters_pop \cup {t}
                 /\ Suspend(t, "pop")
                 /\ UNCHANGED <<queue, closed, waiters_push, pushed, popped, told>>

PollPop(t) ==
    /\ Polled(t, "pop")
    /\ \/ Dequeue(t)
       \/ Drained(t)
       \/ /\ queue = <<>> /\ ~closed
          /\ waiters_pop' = waiters_pop \cup {t}
          /\ Suspend(t, "pop")
          /\ UNCHANGED <<queue, closed, waiters_push, pushed, popped, told>>

\* Mutant of Close: the parked pushes are not woken.
Close_pops_only(t) ==
    /\ at[t] = "run"
    /\ ~closed
    /\ closed' = TRUE
    /\ waiters_pop' = {} /\ waiters_push' = {}
    /\ Owe(t, waiters_pop)
    /\ UNCHANGED <<queue, pushed, popped, told>>

\* A second close does nothing.
Close(t) ==
    /\ at[t] = "run"
    /\ ~closed
    /\ closed' = TRUE
    /\ waiters_pop' = {} /\ waiters_push' = {}
    /\ Owe(t, waiters_pop \cup waiters_push)
    /\ UNCHANGED <<queue, pushed, popped, told>>

\* Mutant of Wake: a waiter stays in the snapshot when it is woken.
Wake_stuck(t) ==
    /\ at[t] = "wake"
    /\ \/ \E u \in taken[t] : woken' = woken \cup {u} /\ UNCHANGED <<taken, at>>
       \/ /\ taken[t] = {}
          /\ at' = [at EXCEPT ![t] = "run"]
          /\ UNCHANGED <<woken, taken>>
    /\ UNCHANGED <<queue, closed, waiters_pop, waiters_push, pushed, popped, told>>

\* WaiterList::wake, one waiter at a time.
Wake(t) ==
    /\ at[t] = "wake"
    /\ \/ \E u \in taken[t] :
             /\ woken' = woken \cup {u}
             /\ taken' = [taken EXCEPT ![t] = @ \ {u}]
             /\ UNCHANGED at
       \/ /\ taken[t] = {}
          /\ at' = [at EXCEPT ![t] = "run"]
          /\ UNCHANGED <<woken, taken>>
    /\ UNCHANGED <<queue, closed, waiters_pop, waiters_push, pushed, popped, told>>

\* The task gives up a pending call, or drops the waiter of one that returned: its
\* entries are dead.
Cancel(t) ==
    /\ at[t] # "wake"
    /\ at' = [at EXCEPT ![t] = "run"]
    /\ woken' = woken \ {t}
    /\ waiters_pop' = waiters_pop \ {t}
    /\ waiters_push' = waiters_push \ {t}
    /\ taken' = [u \in Tasks |-> taken[u] \ {t}]
    /\ UNCHANGED <<queue, closed, pushed, popped, told>>

-----------------------------------------------------------------------------
Next ==
    \E t \in Tasks :
        \/ TryPush(t) \/ PollPush(t) \/ TryPop(t) \/ PollPop(t)
        \/ Close(t) \/ Wake(t) \/ Cancel(t)

Spec == Init /\ [][Next]_vars

\* A task in a call finishes it, and the executor polls a woken task.
Fairness ==
    \A t \in Tasks :
        /\ WF_vars(Wake(t))
        /\ WF_vars(t \in woken /\ at[t] = "pop" /\ PollPop(t))
        /\ WF_vars(t \in woken /\ at[t] = "push" /\ PollPush(t))

FairSpec == Spec /\ Fairness

-----------------------------------------------------------------------------
(* Properties.                                                             *)

Asleep(t, side) == at[t] = side /\ t \notin woken
Taken(t) == \E u \in Tasks : t \in taken[u]

\* A parked pop sleeps only while there is nothing to pop and the queue is open, a parked
\* push only while the queue is full and open; otherwise it is about to be woken (queue.rs
\* poll_pop and poll_push_with against every push, pop and close).
NoLostWakeup ==
    \A t \in Tasks :
        /\ Asleep(t, "pop") => Taken(t) \/ (t \in waiters_pop /\ queue = <<>> /\ ~closed)
        /\ Asleep(t, "push") => Taken(t) \/ (t \in waiters_push /\ ~has_space /\ ~closed)

\* First in, first out, nothing lost and nothing twice (queue.rs push and pop from every
\* task): what was popped, with what is queued after it, is what was pushed.
Fifo ==
    /\ Len(popped) + Len(queue) = pushed
    /\ \A i \in 1 .. Len(popped) : popped[i] = i
    /\ \A i \in 1 .. Len(queue) : queue[i] = Len(popped) + i

\* Closed is only reported once everything pushed was popped (queue.rs try_pop and
\* poll_pop), and nothing is pushed after that.
ClosedMeansDrained == told # {} => closed /\ queue = <<>>

\* The order of the queue as its users rely on it (queue.rs): first in, first out, and
\* closed only when drained.
Orderly == Fifo /\ ClosedMeansDrained

\* Nobody is parked for good on a side that can go on: with finitely many pushes, a pop
\* that never resolves finds the queue empty and open for good, and a push finds it full.
Resolves ==
    \A t \in Tasks :
        /\ <>[](at[t] = "pop") => <>[](queue = <<>> /\ ~closed)
        /\ <>[](at[t] = "push") => <>[](~has_space /\ ~closed)
=============================================================================
