------------------------------- MODULE Wakes -------------------------------
(***************************************************************************)
(* The two gates that moq-net puts between kio's waiters and a task.       *)
(*                                                                         *)
(* QueueWake (rs/moq-net/src/util/wake.rs): a front parks on what each of  *)
(* its tracks depends on with a waker that queues the track's name, once   *)
(* per burst, on a kio queue; the front polls that queue and looks only at *)
(* the tracks it names (FrontServe in model/origin.rs).  The queue is the  *)
(* one of Queue, with the front's task for its only consumer.              *)
(*                                                                         *)
(* Idle (util/idle.rs): a reader parks through a waiter that records a     *)
(* wake before it passes it on, and answers Pending without looking while  *)
(* nothing was recorded (the cursor reads of model/track.rs).              *)
(*                                                                         *)
(* What the tracks and the reads depend on are resources that other        *)
(* threads change: a change takes the parked waiters and wakes them one at *)
(* a time (Channel).  The mode picks the part that runs: the queue with    *)
(* tasks calling it at will, a front, or a reader.                         *)
(***************************************************************************)
EXTENDS Queue

CONSTANTS
    Modes,        \* the parts to run, of "queue", "front" and "reader"
    Owner,        \* the front's task
    Resources,
    Order,        \* the order in which a track's resources are looked at, the demand last
    MaxGens,      \* bound on the times the track is assigned
    MaxActions,   \* bound on the actions that change what the track depends on
    MaxChanges    \* bound on the changes of a resource

None == "none"

ASSUME WakesAssumption ==
    /\ Modes \subseteq {"queue", "front", "reader"}
    /\ Owner \in Tasks
    /\ Resources # {} /\ None \notin Resources
    /\ Order \in Seq(Resources) /\ \A r \in Resources : \E i \in 1 .. Len(Order) : Order[i] = r
    /\ MaxGens \in Nat \ {0} /\ MaxActions \in Nat /\ MaxChanges \in Nat
    /\ Unbounded \/ MaxGens <= Capacity     \* the front's queue has no capacity, or never fills

VARIABLES
    mode,
    ver,          \* how often each resource changed
    parked,       \* the wakers parked on each resource
    owed,         \* the wakers a thread took and has not woken yet
    pushing,      \* the tasks between the swap and the push of QueueWake::wake_by_ref
    queued,       \* QueueWake::queued, for each time the track is assigned
    gen,          \* the current assignment of the track in FrontServe::tracks; 0 is none
    gens,         \* history: the assignments so far
    actions,      \* history: the actions on the track so far
    watch,        \* what TrackIo depends on: the demand, the query, the copy
    seen,         \* the changes the front has handled
    cur,          \* where the front is: "loop", "popped", "look", "ready" or "handle"
    left,         \* the resources left to look at
    idle,         \* the gate: the read it is armed for, Woken's flag, and the task it wakes
    rd,           \* the reader: where it is, the read it makes, its task, and that task's wake
    got,          \* the changes the reader has been given
    narrow,       \* the reader's own window hides what changed
    nudging       \* Woken::wake_by_ref between the store and the wake: the task; 0 is none

resVars == <<mode, ver>>
ioVars == <<actions, watch, seen>>
frontVars == <<queued, gen, gens, ioVars, cur, left>>
readerVars == <<idle, rd, got, narrow>>
gateVars == <<mode, ver, parked, owed, pushing, frontVars, readerVars, nudging>>
allVars == <<vars, gateVars>>

Track(g) == <<"track", g>>
Gate(k) == <<"gate", k>>

\* Idle::default: no gate yet, so none wakes task 1 or 2.
WakesInit ==
    /\ Init
    /\ mode \in Modes
    /\ ver = [r \in Resources |-> 0]
    /\ parked = [r \in Resources |-> {}]
    /\ owed = [t \in Tasks |-> {}]
    /\ pushing = {} /\ nudging = [t \in Tasks |-> 0]
    /\ queued = [g \in 1 .. MaxGens |-> FALSE]
    /\ gen = 0 /\ gens = 0 /\ actions = 0 /\ watch = {}
    /\ seen = ver /\ cur = "loop" /\ left = <<>>
    /\ idle = [read |-> None, woken |-> FALSE, task |-> 0]
    /\ rd = [at |-> "poll", want |-> Order[1], task |-> 1, woken |-> TRUE]
    /\ got = ver /\ narrow = (mode = "reader")

-----------------------------------------------------------------------------
(* The threads that change the resources.                                  *)

Changing(t) == t # Owner /\ at[t] = "run" /\ t \notin pushing /\ nudging[t] = 0

Change(t, r) ==
    /\ mode # "queue"
    /\ Changing(t) /\ owed[t] = {}
    /\ ver[r] < MaxChanges
    /\ ver' = [ver EXCEPT ![r] = @ + 1]
    /\ parked' = [parked EXCEPT ![r] = {}]
    /\ owed' = [owed EXCEPT ![t] = parked[r]]
    /\ UNCHANGED <<vars, mode, pushing, frontVars, readerVars, nudging>>

\* Mutant of Mark: the name is pushed on every wake.
Mark_always(t, g) ==
    /\ queued' = [queued EXCEPT ![g] = TRUE]
    /\ pushing' = pushing \cup {t}

\* QueueWake::wake_by_ref marks the name as queued; the one that finds it unmarked pushes it.
Mark(t, g) ==
    /\ queued' = [queued EXCEPT ![g] = TRUE]
    /\ pushing' = IF queued[g] THEN pushing ELSE pushing \cup {t}

WakeTrack(t, g) ==
    /\ Changing(t) /\ Track(g) \in owed[t]
    /\ owed' = [owed EXCEPT ![t] = @ \ {Track(g)}]
    /\ Mark(t, g)
    /\ UNCHANGED <<vars, resVars, parked, gen, gens, ioVars, cur, left, readerVars, nudging>>

\* try_push, which goes through: the queue has no capacity and is never closed.
PushName(t) ==
    /\ t \in pushing /\ at[t] = "run"
    /\ pushing' = pushing \ {t}
    /\ Enqueue(t)
    /\ UNCHANGED <<resVars, parked, owed, frontVars, readerVars, nudging>>

\* WaiterList::wake of the queue's own waiters.
WakeOwner(t) ==
    /\ mode = "front"
    /\ Wake(t)
    /\ UNCHANGED gateVars

-----------------------------------------------------------------------------
(* The front.                                                              *)

Serving == mode = "front" /\ at[Owner] = "run" /\ Owner \notin pushing

\* The edge of the track's demand, which is looked at as long as the track is there.
Demand == Order[Len(Order)]

\* The track is assigned: a fresh QueueWake, woken once, so that the front looks at it.  The
\* front's own park is dropped before the step runs.
Assign ==
    /\ mode = "front" /\ cur = "loop" /\ gen = 0 /\ gens < MaxGens
    /\ Cancel(Owner)
    /\ gen' = gens + 1 /\ gens' = gens + 1
    /\ watch' = {Demand}
    /\ seen' = [r \in Resources |-> 0]
    /\ Mark(Owner, gens + 1)
    /\ cur' = "handle"
    /\ UNCHANGED <<resVars, parked, owed, actions, left, readerVars, nudging>>

\* An action of the machine on the track, after some other step of the front: its park is
\* dropped, and the track is there.
Act ==
    /\ mode = "front" /\ cur = "loop" /\ gen # 0
    /\ actions < MaxActions
    /\ Cancel(Owner)
    /\ actions' = actions + 1
    /\ cur' = "handle"
    /\ UNCHANGED <<resVars, owed, gen, gens, left, readerVars, nudging>>

\* Mutant of Query: the track is not queued again.
Query_silent(r) ==
    /\ Act
    /\ r # Demand
    /\ watch' = watch \cup {r}
    /\ seen' = [seen EXCEPT ![r] = 0]
    /\ parked' = [parked EXCEPT ![r] = @ \ {Track(gen)}]
    /\ UNCHANGED <<queued, pushing>>

\* Action::Query, and TrackIo::splice of Action::Splice: the track depends on a copy it has
\* not looked at, or on nothing more when the lookup fails, and is queued.
Query(r) ==
    /\ Act
    /\ r # Demand
    /\ Mark(Owner, gen)
    /\ \/ /\ watch' = watch \cup {r}
          /\ seen' = [seen EXCEPT ![r] = 0]
          /\ parked' = [parked EXCEPT ![r] = @ \ {Track(gen)}]
       \/ UNCHANGED <<watch, seen, parked>>

\* Action::Park, and TrackIo::end of Action::Finish and Action::Abort: the copies go, a waker
\* parked on one stays, and the track is queued.
Park ==
    /\ Act
    /\ Mark(Owner, gen)
    /\ watch' = {Demand}
    /\ UNCHANGED <<seen, parked>>

\* Action::Forget: the track goes, and its park with it; a waker taken before is still woken.
Forget ==
    /\ mode = "front" /\ cur = "loop" /\ gen # 0
    /\ Cancel(Owner)
    /\ gen' = 0
    /\ parked' = [r \in Resources |-> parked[r] \ {Track(gen)}]
    /\ UNCHANGED <<resVars, owed, pushing, queued, gens, ioVars, cur, left, readerVars, nudging>>

\* The loop over the names that were queued.
PopName ==
    /\ mode = "front" /\ cur = "loop"
    /\ PollPop(Owner)
    /\ cur' = IF queue = <<>> THEN "loop" ELSE "popped"
    /\ UNCHANGED <<resVars, parked, owed, pushing, queued, gen, gens, ioVars, left, readerVars, nudging>>

\* A name whose track is gone is passed over; otherwise QueueWake::popped unmarks it before
\* anything is looked at.
Popped ==
    /\ Serving /\ cur = "popped"
    /\ cur' = IF gen = 0 THEN "loop" ELSE "look"
    /\ left' = Order
    /\ queued' = IF gen = 0 THEN queued ELSE [queued EXCEPT ![gen] = FALSE]
    /\ UNCHANGED <<vars, resVars, parked, owed, pushing, gen, gens, ioVars, readerVars, nudging>>

\* What the track depends on, in turn: the first that changed is a step, whose handler lets a
\* query or a copy go; one that did not change is parked on.
Look ==
    /\ Serving /\ cur = "look"
    /\ LET r == Head(left)
       IN  IF r \in watch /\ ver[r] # seen[r]
             THEN /\ seen' = [seen EXCEPT ![r] = ver[r]]
                  /\ watch' = watch \ ({r} \ {Demand})
                  /\ cur' = "ready"
                  /\ left' = <<>>
                  /\ UNCHANGED parked
             ELSE /\ parked' = IF r \in watch THEN [parked EXCEPT ![r] = @ \cup {Track(gen)}] ELSE parked
                  /\ cur' = IF Len(left) = 1 THEN "loop" ELSE "look"
                  /\ left' = Tail(left)
                  /\ UNCHANGED <<watch, seen>>
    /\ UNCHANGED <<vars, resVars, owed, pushing, queued, gen, gens, actions, readerVars, nudging>>

\* A ready answer did not park on what is left, so the track is queued again.
Revisit ==
    /\ Serving /\ cur = "ready"
    /\ Mark(Owner, gen)
    /\ cur' = "handle"
    /\ UNCHANGED <<vars, resVars, parked, owed, gen, gens, ioVars, left, readerVars, nudging>>

\* The front drops its park and handles the step.
Handle ==
    /\ Serving /\ cur = "handle"
    /\ Cancel(Owner)
    /\ cur' = "loop"
    /\ UNCHANGED <<resVars, parked, owed, pushing, queued, gen, gens, ioVars, left, readerVars, nudging>>

-----------------------------------------------------------------------------
(* The reader.                                                             *)

\* Idle::parked.
Parked == idle.read = rd.want /\ ~idle.woken /\ idle.task = rd.task

\* What a full read would find.
Readable == ver[rd.want] # got[rd.want] /\ ~narrow

\* A poll of the read: Pending at once, or the start of a full read.
PollRead ==
    /\ mode = "reader" /\ rd.at = "poll"
    /\ rd' = [rd EXCEPT !.woken = FALSE, !.at = IF Parked THEN "poll" ELSE "start"]
    /\ UNCHANGED <<vars, resVars, parked, owed, pushing, frontVars, idle, got, narrow, nudging>>

\* Idle::start: the flag is cleared before anything is looked at; for another task the gate
\* is a new one, and the old one's registrations are dead.
Start ==
    /\ rd.at = "start"
    /\ rd' = [rd EXCEPT !.at = "read"]
    /\ idle' = [read |-> None, woken |-> FALSE, task |-> rd.task]
    /\ parked' = IF idle.task = rd.task THEN parked
                 ELSE [r \in Resources |-> parked[r] \ {Gate(idle.task)}]
    /\ UNCHANGED <<vars, resVars, owed, pushing, frontVars, got, narrow, nudging>>

\* The full read hands something out, and the task goes on, or parks.
Read ==
    /\ rd.at = "read"
    /\ IF Readable
         THEN /\ got' = [got EXCEPT ![rd.want] = ver[rd.want]]
              /\ rd' = [rd EXCEPT !.at = "poll", !.woken = TRUE]
              /\ UNCHANGED parked
         ELSE /\ parked' = [parked EXCEPT ![rd.want] = @ \cup {Gate(idle.task)}]
              /\ rd' = [rd EXCEPT !.at = "finish"]
              /\ UNCHANGED got
    /\ UNCHANGED <<vars, resVars, owed, pushing, frontVars, idle, narrow, nudging>>

\* Mutant of Finish: the flag is cleared after the read, not before it.
Finish_clears ==
    /\ rd.at = "finish"
    /\ rd' = [rd EXCEPT !.at = "poll"]
    /\ idle' = [idle EXCEPT !.read = rd.want, !.woken = FALSE]
    /\ UNCHANGED <<vars, resVars, parked, owed, pushing, frontVars, got, narrow, nudging>>

\* Idle::finish after a read that parked.
Finish ==
    /\ rd.at = "finish"
    /\ rd' = [rd EXCEPT !.at = "poll"]
    /\ idle' = [idle EXCEPT !.read = rd.want]
    /\ UNCHANGED <<vars, resVars, parked, owed, pushing, frontVars, got, narrow, nudging>>

\* The task turns to the other read.
Turn(r) ==
    /\ mode = "reader" /\ rd.at = "poll" /\ r # rd.want
    /\ rd' = [rd EXCEPT !.want = r, !.woken = TRUE]
    /\ UNCHANGED <<vars, resVars, parked, owed, pushing, frontVars, idle, got, narrow, nudging>>

\* The reader moves to another task, which polls it.
Move ==
    /\ mode = "reader" /\ rd.at = "poll" /\ rd.task = 1
    /\ rd' = [rd EXCEPT !.task = 2, !.woken = TRUE]
    /\ UNCHANGED <<vars, resVars, parked, owed, pushing, frontVars, idle, got, narrow, nudging>>

\* The reader moves its own window, which notifies nothing, so it disarms the gate.
Widen ==
    /\ mode = "reader" /\ rd.at = "poll" /\ narrow
    /\ narrow' = FALSE
    /\ idle' = [idle EXCEPT !.read = None]
    /\ rd' = [rd EXCEPT !.woken = TRUE]
    /\ UNCHANGED <<vars, resVars, parked, owed, pushing, frontVars, got, nudging>>

\* Woken::wake_by_ref records the wake.  A waker of an old gate records it there.
Record(t, k) ==
    /\ Changing(t) /\ Gate(k) \in owed[t]
    /\ owed' = [owed EXCEPT ![t] = @ \ {Gate(k)}]
    /\ idle' = [idle EXCEPT !.woken = @ \/ idle.task = k]
    /\ nudging' = [nudging EXCEPT ![t] = k]
    /\ UNCHANGED <<vars, resVars, parked, pushing, frontVars, rd, got, narrow>>

\* Mutant of WakeTask: the task's waker is never called.
WakeTask_stuck(t) ==
    /\ nudging[t] # 0
    /\ UNCHANGED allVars

\* And then wakes the task.
WakeTask(t) ==
    /\ nudging[t] # 0
    /\ rd' = [rd EXCEPT !.woken = @ \/ rd.task = nudging[t]]
    /\ nudging' = [nudging EXCEPT ![t] = 0]
    /\ UNCHANGED <<vars, resVars, parked, owed, pushing, frontVars, idle, got, narrow>>

-----------------------------------------------------------------------------
\* The queue by itself.
Alone(Op(_), t) == mode = "queue" /\ Op(t) /\ UNCHANGED gateVars

WakesNext ==
    \/ \E t \in Tasks :
          \/ Alone(TryPush, t) \/ Alone(PollPush, t) \/ Alone(TryPop, t) \/ Alone(PollPop, t)
          \/ Alone(Close, t) \/ Alone(Wake, t) \/ Alone(Cancel, t)
          \/ \E r \in Resources : Change(t, r)
          \/ \E g \in 1 .. MaxGens : WakeTrack(t, g)
          \/ PushName(t) \/ WakeOwner(t)
          \/ \E k \in 1 .. 2 : Record(t, k)
          \/ WakeTask(t)
    \/ Assign \/ Park \/ Forget \/ PopName \/ Popped \/ Look \/ Revisit \/ Handle
    \/ PollRead \/ Start \/ Read \/ Finish \/ Move \/ Widen
    \/ \E r \in Resources : Query(r) \/ Turn(r)

\* A thread wakes what it took, a task in a call finishes it, and the executor polls a woken
\* task; nobody has to change a resource, assign a track, act on it or poll without a wake.
WakesFairness ==
    /\ \A t \in Tasks :
          /\ WF_allVars(Alone(Wake, t))
          /\ WF_allVars(t \in woken /\ at[t] = "pop" /\ Alone(PollPop, t))
          /\ WF_allVars(t \in woken /\ at[t] = "push" /\ Alone(PollPush, t))
          /\ WF_allVars(WakeOwner(t)) /\ WF_allVars(PushName(t)) /\ WF_allVars(WakeTask(t))
          /\ WF_allVars(\E g \in 1 .. MaxGens : WakeTrack(t, g))
          /\ WF_allVars(\E k \in 1 .. 2 : Record(t, k))
    /\ WF_allVars((at[Owner] = "run" \/ Owner \in woken) /\ PopName)
    /\ WF_allVars(Popped \/ Look \/ Revisit \/ Handle)
    /\ WF_allVars((rd.woken /\ PollRead) \/ Start \/ Read \/ Finish)

WakesSpec == WakesInit /\ [][WakesNext]_allVars /\ WakesFairness

-----------------------------------------------------------------------------
(* Properties.                                                             *)

\* Something the track depends on changed, and the front has not handled it.
News == \E r \in watch : seen[r] # ver[r]

\* While the front is between two passes, a change it has not handled has the track's name
\* queued or about to be (origin.rs, the ready loop, against wakes landing at any point of a
\* pass, against names left behind by an earlier assignment, and against queries and copies
\* the track was given since it was looked at).
NeverStranded ==
    mode = "front" /\ cur = "loop" /\ gen # 0 /\ News =>
        queue # <<>> \/ pushing # {} \/ \E t \in Tasks : Track(gen) \in owed[t]

\* A name is queued at most once for each QueueWake that was made for it, counting the pushes
\* under way (wake.rs "so a burst of wakes queues the key once"), however many wakes, queries
\* and passes there are between.  A QueueWake is made with every assignment, so the names that
\* assignments before this one left in the queue are in the bound.
QueuedOnce == mode = "front" => Len(queue) + Cardinality(pushing) <= gens

\* A reader sleeps only while a full read would find nothing, or while a wake of its gate is
\* on its way (idle.rs, "until one fires a repeated read can answer Pending again").
NoLostRead ==
    mode = "reader" /\ rd.at = "poll" /\ ~rd.woken /\ Readable =>
        \E t \in Tasks : Gate(rd.task) \in owed[t] \/ nudging[t] = rd.task

\* Every change is handled in the end: the front sees it, and the reader is given it.
Attended ==
    /\ []<>(mode = "front" => gen = 0 \/ ~News)
    /\ []<>(mode = "reader" => ~Readable)
=============================================================================
