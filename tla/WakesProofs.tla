---------------------------- MODULE WakesProofs ----------------------------
(***************************************************************************)
(* Queue keeps order and loses no wakeup, for any number of tasks and any  *)
(* capacity; and the gates that Wakes puts before a task lose no change,   *)
(* however wide an origin and a resource tell their tasks apart.           *)
(***************************************************************************)
EXTENDS Wakes, TLAPS

\* Only a task that is waking others holds waiters it took.
TakenInv == \A t \in Tasks : at[t] # "wake" => taken[t] = {}

IInv == TypeOK /\ TakenInv /\ NoLostWakeup /\ Fifo /\ ClosedMeansDrained

\* The steps of an operation, by what they do to the queue.
Quiet == UNCHANGED <<queue, closed, waiters_pop, waiters_push, pushed, popped, told>>
ParkPush(t) ==
    /\ ~closed /\ ~has_space
    /\ waiters_push' = waiters_push \cup {t}
    /\ Suspend(t, "push")
    /\ UNCHANGED <<queue, closed, waiters_pop, pushed, popped, told>>
ParkPop(t) ==
    /\ queue = <<>> /\ ~closed
    /\ waiters_pop' = waiters_pop \cup {t}
    /\ Suspend(t, "pop")
    /\ UNCHANGED <<queue, closed, waiters_push, pushed, popped, told>>
Push(t) == at[t] # "wake" /\ ~closed /\ has_space /\ Enqueue(t)
Pop(t) == at[t] # "wake" /\ Dequeue(t)
Back(t) == at[t] # "wake" /\ Return(t) /\ Quiet
Closure(t) == at[t] # "wake" /\ Drained(t)
Step(t) ==
    \/ Push(t) \/ Pop(t) \/ Back(t) \/ Closure(t)
    \/ at[t] # "wake" /\ ParkPush(t)
    \/ at[t] # "wake" /\ ParkPop(t)
    \/ Close(t) \/ Wake(t) \/ Cancel(t)

\* Every step of the queue (queue.rs push, pop, their polls, close, and the wakes that
\* follow an unlock) is one of these.
LEMMA Steps ==
    ASSUME NEW t \in Tasks,
           TryPush(t) \/ PollPush(t) \/ TryPop(t) \/ PollPop(t) \/ Close(t) \/ Wake(t) \/ Cancel(t)
    PROVE  Step(t)
<1>. USE DEF Step
<1>1. CASE TryPush(t)
  BY <1>1 DEF TryPush, Push, Back, Quiet
<1>2. CASE PollPush(t)
  BY <1>2 DEF PollPush, Polled, Push, Back, Quiet, ParkPush
<1>3. CASE TryPop(t)
  BY <1>3 DEF TryPop, Pop, Closure, Back, Quiet
<1>4. CASE PollPop(t)
  BY Zenon, <1>4 DEF PollPop, Polled, Pop, Closure, ParkPop
<1>. QED
  BY <1>1, <1>2, <1>3, <1>4

\* The types, the capacity and who holds taken waiters.
LEMMA TypeStep ==
    ASSUME TypeOK, TakenInv, NEW t \in Tasks, Step(t)
    PROVE  TypeOK' /\ TakenInv'
<1>. USE QueueAssumption DEF TypeOK, TakenInv
<1>1. CASE Push(t)
  BY <1>1 DEF Push, Enqueue, Owe, has_space
<1>2. CASE Pop(t)
  BY <1>2 DEF Pop, Dequeue, Owe
<1>3. CASE Back(t)
  BY <1>3 DEF Back, Return, Quiet
<1>4. CASE Closure(t)
  BY <1>4 DEF Closure, Drained, Return
<1>5. CASE at[t] # "wake" /\ ParkPush(t)
  BY <1>5 DEF ParkPush, Suspend
<1>6. CASE at[t] # "wake" /\ ParkPop(t)
  BY <1>6 DEF ParkPop, Suspend
<1>7. CASE Close(t)
  BY <1>7 DEF Close, Owe
<1>8. CASE Wake(t)
  BY ZenonT(60), <1>8 DEF Wake
<1>9. CASE Cancel(t)
  BY <1>9 DEF Cancel
<1>. QED
  BY Zenon, <1>1, <1>2, <1>3, <1>4, <1>5, <1>6, <1>7, <1>8, <1>9 DEF Step

\* A parked task is on its list, or taken, or woken.
LEMMA WakeupStep ==
    ASSUME TypeOK, TakenInv, NoLostWakeup, NEW t \in Tasks, Step(t)
    PROVE  NoLostWakeup'
<1>. USE QueueAssumption DEF TypeOK, TakenInv, NoLostWakeup, Asleep, Taken, has_space
<1>1. CASE Push(t)
  BY <1>1 DEF Push, Enqueue, Owe
<1>2. CASE Pop(t)
  BY <1>2 DEF Pop, Dequeue, Owe
<1>3. CASE Back(t)
  BY <1>3 DEF Back, Return, Quiet
<1>4. CASE Closure(t)
  BY <1>4 DEF Closure, Drained, Return
<1>5. CASE at[t] # "wake" /\ ParkPush(t)
  BY <1>5 DEF ParkPush, Suspend
<1>6. CASE at[t] # "wake" /\ ParkPop(t)
  BY <1>6 DEF ParkPop, Suspend
<1>7. CASE Close(t)
  BY Zenon, <1>7 DEF Close, Owe
<1>8. CASE Wake(t)
  <2>1. UNCHANGED <<queue, closed, waiters_pop, waiters_push>>
    BY <1>8 DEF Wake
  <2>2. ASSUME NEW u \in taken[t], woken' = woken \cup {u}, taken' = [taken EXCEPT ![t] = @ \ {u}], UNCHANGED at
        PROVE  NoLostWakeup'
    BY <2>1, <2>2
  <2>3. ASSUME at[t] = "wake", at' = [at EXCEPT ![t] = "run"], UNCHANGED <<woken, taken>> PROVE NoLostWakeup'
    BY <2>1, <2>3
  <2>. QED
    BY Zenon, <1>8, <2>2, <2>3 DEF Wake
<1>9. CASE Cancel(t)
  BY Zenon, <1>9 DEF Cancel
<1>. QED
  BY <1>1, <1>2, <1>3, <1>4, <1>5, <1>6, <1>7, <1>8, <1>9 DEF Step

\* Only a push and a pop touch the items, and Closed is final.
LEMMA OrderStep ==
    ASSUME TypeOK, Fifo, ClosedMeansDrained, NEW t \in Tasks, Step(t)
    PROVE  Fifo' /\ ClosedMeansDrained'
<1>. USE DEF TypeOK, Fifo, ClosedMeansDrained
<1>1. CASE Push(t)
  <2>1. queue' = Append(queue, pushed + 1) /\ pushed' = pushed + 1 /\ UNCHANGED <<popped, told, closed>>
        /\ ~closed
    BY <1>1 DEF Push, Enqueue
  <2>2. Len(queue) \in Nat /\ Len(popped) \in Nat
    OBVIOUS
  <2>3. /\ Len(queue') = Len(queue) + 1
        /\ queue'[Len(queue) + 1] = pushed + 1
        /\ \A i \in 1 .. Len(queue) : queue'[i] = queue[i]
    <3>1. Len(queue') = Len(queue) + 1
      BY <2>1, <2>2
    <3>2. queue'[Len(queue) + 1] = pushed + 1
      BY <2>1, <2>2
    <3>3. \A i \in 1 .. Len(queue) : queue'[i] = queue[i]
      BY <2>1, <2>2
    <3>. QED
      BY <3>1, <3>2, <3>3
  <2>4. Len(popped') + Len(queue') = pushed'
    <3>2. Len(popped) + Len(queue) = pushed /\ pushed \in Nat
      BY Zenon
    <3>3. Len(popped) + (Len(queue) + 1) = pushed + 1
      <4>. HIDE DEF TypeOK, Fifo, ClosedMeansDrained
      <4>1. Len(popped) \in Nat /\ Len(queue) \in Nat
        BY Zenon, <2>2
      <4>. QED
        BY <3>2, <4>1
    <3>. QED
      BY Zenon, <2>1, <2>3, <3>3
  <2>5. \A i \in 1 .. Len(queue') : queue'[i] = Len(popped') + i
    <3>. TAKE i \in 1 .. Len(queue')
    <3>1. i \in 1 .. Len(queue) \/ i = Len(queue) + 1
      BY <2>2, <2>3
    <3>2. CASE i \in 1 .. Len(queue)
      BY <2>1, <2>3, <3>2
    <3>3. CASE i = Len(queue) + 1
      BY <2>1, <2>2, <2>3, <3>3
    <3>. QED
      BY <3>1, <3>2, <3>3
  <2>6. Fifo'
    BY <2>1, <2>4, <2>5
  <2>. QED
    BY <2>1, <2>6
<1>2. CASE Pop(t)
  <2>1. queue # <<>> /\ queue' = Tail(queue) /\ popped' = Append(popped, queue[1])
        /\ pushed' = pushed /\ told' = told
    BY <1>2 DEF Pop, Dequeue
  <2>2. Len(queue) \in Nat \ {0} /\ Len(popped) \in Nat
    BY <2>1
  <2>3. Len(queue') = Len(queue) - 1 /\ \A i \in 1 .. Len(queue) - 1 : queue'[i] = queue[i + 1]
    BY <2>1, <2>2
  <2>4. /\ Len(popped') = Len(popped) + 1
        /\ popped'[Len(popped) + 1] = Len(popped) + 1
        /\ \A i \in 1 .. Len(popped) : popped'[i] = i
    <3>1. 1 \in 1 .. Len(queue) /\ queue[1] = Len(popped) + 1
      BY <2>2
    <3>. QED
      BY <2>1, <2>2, <3>1
  <2>5. Len(popped') + Len(queue') = pushed'
    <3>1. \A a \in Nat, b \in Nat \ {0} : (a + 1) + (b - 1) = a + b
      OBVIOUS
    <3>2. (Len(popped) + 1) + (Len(queue) - 1) = Len(popped) + Len(queue)
      BY Zenon, <2>2, <3>1, Zenon
    <3>3. Len(popped') = Len(popped) + 1 /\ Len(queue') = Len(queue) - 1
      BY Zenon, <2>3, <2>4, Zenon
    <3>. QED
      BY Zenon, <2>1, <3>2, <3>3, Zenon
  <2>6. \A i \in 1 .. Len(queue') : queue'[i] = Len(popped') + i
    <3>. TAKE i \in 1 .. Len(queue')
    <3>1. i \in 1 .. Len(queue) - 1 /\ i + 1 \in 1 .. Len(queue)
      BY <2>2, <2>3
    <3>2. queue'[i] = Len(popped) + (i + 1)
      BY <2>3, <3>1
    <3>. QED
      BY <2>2, <2>4, <3>1, <3>2
  <2>7. \A i \in 1 .. Len(popped') : popped'[i] = i
    BY SMTT(60), <2>2, <2>4
  <2>. QED
    BY Zenon, <2>1, <2>5, <2>6, <2>7
<1>3. CASE Back(t)
  BY <1>3 DEF Back, Quiet
<1>4. CASE Closure(t)
  BY <1>4 DEF Closure, Drained
<1>5. CASE at[t] # "wake" /\ ParkPush(t)
  BY <1>5 DEF ParkPush
<1>6. CASE at[t] # "wake" /\ ParkPop(t)
  BY <1>6 DEF ParkPop
<1>7. CASE Close(t)
  BY <1>7 DEF Close
<1>8. CASE Wake(t)
  BY <1>8 DEF Wake
<1>9. CASE Cancel(t)
  BY <1>9 DEF Cancel
<1>. QED
  BY <1>1, <1>2, <1>3, <1>4, <1>5, <1>6, <1>7, <1>8, <1>9 DEF Step

\* A new queue (Queue::new, Queue::bounded) satisfies the inductive invariant.
LEMMA InitInv == Init => IInv
<1>. SUFFICES ASSUME Init PROVE IInv
  OBVIOUS
<1>. USE DEF Init
<1>1. TypeOK
  <2>1. queue \in Seq(Nat) /\ popped \in Seq(Nat) /\ Len(queue) = 0
    OBVIOUS
  <2>2. Unbounded \/ Len(queue) <= Capacity
    BY <2>1, QueueAssumption
  <2>3. at \in [Tasks -> {"run", "wake", "pop", "push"}] /\ taken \in [Tasks -> SUBSET Tasks]
    OBVIOUS
  <2>. QED
    BY Zenon, <2>1, <2>2, <2>3 DEF TypeOK
<1>2. TakenInv /\ NoLostWakeup
  BY DEF TakenInv, NoLostWakeup, Asleep
<1>3. Len(queue) = 0 /\ Len(popped) = 0 /\ 1 .. 0 = {}
  OBVIOUS
<1>4. Fifo
  BY <1>3 DEF Fifo
<1>5. ClosedMeansDrained
  BY DEF ClosedMeansDrained
<1>. QED
  BY <1>1, <1>2, <1>4, <1>5 DEF IInv

\* No operation of queue.rs, nor a wake between two of them, breaks the inductive invariant.
LEMMA StepInv ==
    ASSUME IInv, (\E t \in Tasks : Step(t)) \/ UNCHANGED vars
    PROVE  IInv'
<1>1. ASSUME NEW t \in Tasks, Step(t) PROVE IInv'
  BY <1>1, TypeStep, WakeupStep, OrderStep DEF IInv
<1>2. CASE UNCHANGED vars
  BY <1>2 DEF IInv, vars, TypeOK, TakenInv, NoLostWakeup, Asleep, Taken, has_space, Fifo, ClosedMeansDrained
<1>. QED
  BY <1>1, <1>2

\* The inductive invariant holds of every queue.
THEOREM Invariance == Spec => []IInv
<1>1. IInv /\ [Next]_vars => IInv'
  BY Zenon, Steps, StepInv DEF Next
<1>. QED
  BY <1>1, InitInv, PTL DEF Spec

\* A bounded queue never holds more than its capacity (State::has_space).
THEOREM TypeCorrect == Spec => []TypeOK
<1>1. IInv => TypeOK
  BY DEF IInv
<1>. QED
  BY <1>1, Invariance, PTL

\* No parked push or pop sleeps through the event it waits for (queue.rs poll_pop,
\* poll_push_with), for any number of tasks.
THEOREM WakeupSafety == Spec => []NoLostWakeup
<1>1. IInv => NoLostWakeup
  BY DEF IInv
<1>. QED
  BY <1>1, Invariance, PTL

\* The queue is first in, first out, and reports Closed only when drained.
THEOREM OrderSafety == Spec => []Orderly
<1>1. IInv => Orderly
  BY DEF IInv, Orderly
<1>. QED
  BY <1>1, Invariance, PTL

-----------------------------------------------------------------------------
(* The gates of Wakes: their inductive invariant.                          *)

Wakers == {Track(g) : g \in 1 .. MaxGens} \cup {Gate(k) : k \in 0 .. 2}

FrontTypes ==
    /\ mode \in {"queue", "front", "reader"}
    /\ ver \in [Resources -> Nat]
    /\ parked \in [Resources -> SUBSET Wakers]
    /\ owed \in [Tasks -> SUBSET Wakers]
    /\ pushing \subseteq Tasks
    /\ queued \in [1 .. MaxGens -> BOOLEAN]
    /\ gens \in 0 .. MaxGens /\ gen \in 0 .. gens
    /\ watch \subseteq Resources /\ seen \in [Resources -> Nat]
    /\ cur \in {"loop", "popped", "look", "ready", "handle"}
    /\ left \in Seq(Resources)
    /\ cur = "look" => left # <<>>
    /\ cur \in {"look", "ready", "handle"} => gen # 0

ReaderTypes ==
    /\ idle \in [read : Resources \cup {None}, woken : BOOLEAN, task : 0 .. 2]
    /\ rd \in [at : {"poll", "start", "read", "finish"}, want : Resources, task : 1 .. 2, woken : BOOLEAN]
    /\ got \in [Resources -> Nat]
    /\ narrow \in BOOLEAN
    /\ nudging \in [Tasks -> 0 .. 2]

\* Only a front has tracks, and only the queue by itself is ever closed.
ModeInv ==
    /\ mode # "front" => pushing = {} /\ gens = 0
    /\ mode # "queue" => ~closed

\* Nothing is marked, parked or owed for an assignment yet to come.
FreshInv ==
    \A g \in 1 .. MaxGens :
        queued[g] \/ (\E r \in Resources : Track(g) \in parked[r]) \/ (\E t \in Tasks : Track(g) \in owed[t])
            => g <= gens

\* The name of a marked track is queued, or about to be, or just popped.
MarkInv == gen # 0 /\ queued[gen] => queue # <<>> \/ pushing # {} \/ cur = "popped"

\* Every name queued, about to be, or just popped has a mark of its own.
Marks == {g \in 1 .. gens : queued[g]}
OnceInv ==
    /\ IsFiniteSet(pushing)
    /\ mode = "front" =>
          Len(queue) + Cardinality(pushing) + (IF cur = "popped" THEN 1 ELSE 0) <= Cardinality(Marks)

\* The front will look at the track again.
Coming == queue # <<>> \/ pushing # {} \/ \E t \in Tasks : Track(gen) \in owed[t]

\* What the front has looked at is as it saw it and will tell when it changes, unless the
\* front looks again.
Settled(r) == seen[r] = ver[r] /\ Track(gen) \in parked[r]
LookInv ==
    gen # 0 =>
        /\ cur \in {"loop", "handle"} => Coming \/ \A r \in watch : Settled(r)
        /\ cur = "look" => Coming \/ \A r \in watch : Settled(r) \/ \E i \in 1 .. Len(left) : left[i] = r

FrontInv == FrontTypes /\ ModeInv /\ FreshInv /\ MarkInv /\ OnceInv /\ LookInv

\* A gate that recorded no wake since it last looked is parked on what has not changed, or a
\* wake of it is on its way; one that did passes it on.
Told(k) == \E t \in Tasks : Gate(k) \in owed[t]
Nothing(r) == Gate(idle.task) \in parked[r] /\ (ver[r] = got[r] \/ narrow)
ReaderInv ==
    /\ rd.at \in {"read", "finish"} => idle.task = rd.task /\ idle.read = None
    /\ rd.at = "poll" /\ ~rd.woken => idle.task = rd.task /\ idle.read = rd.want
    /\ rd.at = "finish" => idle.woken \/ Told(idle.task) \/ Nothing(rd.want)
    /\ idle.read # None => idle.woken \/ Told(idle.task) \/ Nothing(idle.read)
    /\ idle.woken /\ idle.task = rd.task /\ rd.at # "start" =>
          rd.woken \/ \E t \in Tasks : nudging[t] = rd.task

WInv == IInv /\ FrontInv /\ ReaderTypes /\ ReaderInv

-----------------------------------------------------------------------------
(* The steps, by the part they belong to.                                  *)

QueueMove ==
    \E t \in Tasks :
        \/ Alone(TryPush, t) \/ Alone(PollPush, t) \/ Alone(TryPop, t) \/ Alone(PollPop, t)
        \/ Alone(Close, t) \/ Alone(Wake, t) \/ Alone(Cancel, t)
ReaderMove ==
    \/ \E t \in Tasks : (\E k \in 1 .. 2 : Record(t, k)) \/ WakeTask(t)
    \/ PollRead \/ Start \/ Read \/ Finish \/ Move \/ Widen
    \/ \E r \in Resources : Turn(r)
Acting == Park \/ \E r \in Resources : Query(r)
FrontMove ==
    \/ \E t \in Tasks : (\E g \in 1 .. MaxGens : WakeTrack(t, g)) \/ PushName(t) \/ WakeOwner(t)
    \/ Assign \/ Acting \/ Forget \/ PopName \/ Popped \/ Look \/ Revisit \/ Handle

\* Every step is of the queue by itself, of the reader, of the front, or a change.
LEMMA Moves ==
    ASSUME WakesNext
    PROVE  QueueMove \/ ReaderMove \/ FrontMove \/ \E t \in Tasks, r \in Resources : Change(t, r)
  BY Zenon DEF WakesNext, QueueMove, ReaderMove, FrontMove, Acting

\* The wakers of tracks and of gates are all different.
LEMMA Apart ==
    \A g, k : /\ Track(g) # Gate(k)
              /\ Track(g) = Track(k) => g = k
              /\ Gate(g) = Gate(k) => g = k
  BY DEF Track, Gate

\* The first of a sequence and the rest of it.
LEMMA FirstAndRest ==
    ASSUME NEW S, NEW q \in Seq(S), q # <<>>
    PROVE  /\ Head(q) \in S /\ Tail(q) \in Seq(S)
           /\ Len(q) # 1 => Tail(q) # <<>>
           /\ \A i \in 1 .. Len(q) : q[i] = Head(q) \/ \E j \in 1 .. Len(Tail(q)) : Tail(q)[j] = q[i]
           /\ Len(q) = 1 => Tail(q) = <<>>
<1>1. Len(q) \in Nat \ {0} /\ Head(q) = q[1] /\ 1 \in 1 .. Len(q)
  OBVIOUS
<1>2. Tail(q) \in Seq(S) /\ Len(Tail(q)) = Len(q) - 1
  BY <1>1
<1>3. \A j \in 1 .. Len(q) - 1 : Tail(q)[j] = q[j + 1]
  BY <1>1, <1>2
<1>4. ASSUME NEW i \in 1 .. Len(q), i # 1 PROVE \E j \in 1 .. Len(Tail(q)) : Tail(q)[j] = q[i]
  <2>1. i - 1 \in 1 .. Len(q) - 1 /\ (i - 1) + 1 = i
    BY <1>1, <1>4
  <2>. QED
    BY <1>2, <1>3, <2>1
<1>5. Head(q) \in S
  BY <1>1
<1>6. (Len(q) # 1 => Tail(q) # <<>>) /\ (Len(q) = 1 => Tail(q) = <<>>)
  BY <1>1, <1>2
<1>. QED
  BY Zenon, <1>1, <1>2, <1>4, <1>5, <1>6

\* The demand is one of the resources.
LEMMA DemandIsThere == Order # <<>> /\ Demand \in Resources
<1>1. Order \in Seq(Resources) /\ \E r \in Resources : \E i \in 1 .. Len(Order) : Order[i] = r
  BY Zenon, WakesAssumption
<1>2. Len(Order) \in Nat /\ Len(Order) # 0
  BY <1>1
<1>. QED
  BY <1>1, <1>2 DEF Demand

\* What the actions on a track (origin.rs Action::Query, Splice, Park, Finish and Abort) have in
\* common: the track is queued, and what is no longer parked is its own.
LEMMA Acts ==
    ASSUME FrontTypes, Acting
    PROVE  /\ mode = "front" /\ cur = "loop" /\ cur' = "handle" /\ gen # 0
           /\ Cancel(Owner) /\ Mark(Owner, gen)
           /\ UNCHANGED <<mode, ver, owed, gen, gens, left, readerVars, nudging, queue, closed>>
           /\ watch' \subseteq Resources /\ seen' \in [Resources -> Nat]
           /\ parked' \in [Resources -> SUBSET Wakers]
           /\ \A q \in Resources : \A w : /\ w \in parked'[q] => w \in parked[q]
                                          /\ w # Track(gen) /\ w \in parked[q] => w \in parked'[q]
<1>1. /\ Act /\ Mark(Owner, gen)
      /\ \/ watch' = {Demand} /\ UNCHANGED <<seen, parked>>
         \/ UNCHANGED <<watch, seen, parked>>
         \/ \E r \in Resources : /\ watch' = watch \cup {r}
                                 /\ seen' = [seen EXCEPT ![r] = 0]
                                 /\ parked' = [parked EXCEPT ![r] = @ \ {Track(gen)}]
  BY Zenon DEF Acting, Park, Query
<1>2. /\ mode = "front" /\ cur = "loop" /\ cur' = "handle" /\ gen # 0 /\ Cancel(Owner)
      /\ UNCHANGED <<mode, ver, owed, gen, gens, left, readerVars, nudging, queue, closed>>
  BY Zenon, <1>1 DEF Act, resVars, Cancel
<1>3. /\ watch \subseteq Resources /\ seen \in [Resources -> Nat] /\ parked \in [Resources -> SUBSET Wakers]
  BY Zenon DEF FrontTypes
<1>4. watch' \subseteq Resources
  BY Zenon, <1>1, <1>3, DemandIsThere
<1>5. seen' \in [Resources -> Nat]
  BY <1>1, <1>3
<1>6. /\ parked' \in [Resources -> SUBSET Wakers]
      /\ \A q \in Resources : \A w : /\ w \in parked'[q] => w \in parked[q]
                                     /\ w # Track(gen) /\ w \in parked[q] => w \in parked'[q]
  <2>1. CASE UNCHANGED parked
    BY Zenon, <1>3, <2>1
  <2>2. ASSUME NEW r \in Resources, parked' = [parked EXCEPT ![r] = @ \ {Track(gen)}]
        PROVE  /\ parked' \in [Resources -> SUBSET Wakers]
               /\ \A q \in Resources : \A w : /\ w \in parked'[q] => w \in parked[q]
                                              /\ w # Track(gen) /\ w \in parked[q] => w \in parked'[q]
    <3>1. \A q \in Resources : parked'[q] = IF q = r THEN parked[q] \ {Track(gen)} ELSE parked[q]
      BY Zenon, <1>3, <2>2
    <3>2. DOMAIN parked' = Resources /\ parked' = [q \in Resources |-> parked'[q]]
      BY Zenon, <1>3, <2>2
    <3>3. \A q \in Resources : parked'[q] \in SUBSET Wakers
      BY Zenon, <1>3, <3>1
    <3>. QED
      BY Zenon, <3>1, <3>2, <3>3
  <2>. QED
    BY Zenon, <1>1, <2>1, <2>2
<1>. QED
  BY Zenon, <1>1, <1>2, <1>4, <1>5, <1>6

SameTracks ==
    \A g \in 1 .. MaxGens :
        /\ \A r \in Resources : Track(g) \in parked'[r] <=> Track(g) \in parked[r]
        /\ \A t \in Tasks : Track(g) \in owed'[t] <=> Track(g) \in owed[t]
SameGates ==
    \A k \in 0 .. 2 :
        /\ \A r \in Resources : Gate(k) \in parked'[r] <=> Gate(k) \in parked[r]
        /\ \A t \in Tasks : Gate(k) \in owed'[t] <=> Gate(k) \in owed[t]

\* The reader (util/idle.rs) leaves the queue and the front alone.
LEMMA ReaderMoves ==
    ASSUME FrontTypes, ReaderTypes, ReaderMove
    PROVE  /\ UNCHANGED <<vars, mode, ver, pushing, frontVars>>
           /\ SameTracks
           /\ parked' \in [Resources -> SUBSET Wakers] /\ owed' \in [Tasks -> SUBSET Wakers]
<1>. USE Apart DEF SameTracks, FrontTypes, resVars, ioVars
<1>0. \A k \in 0 .. 2 : Gate(k) \in Wakers
  BY DEF Wakers
<1>1. CASE \E t \in Tasks, k \in 1 .. 2 : Record(t, k)
  BY <1>1 DEF Record
<1>2. CASE \E t \in Tasks : WakeTask(t)
  BY <1>2 DEF WakeTask
<1>3. CASE Start
  BY <1>3 DEF Start
<1>4. CASE Read
  <2>1. Gate(idle.task) \in Wakers /\ rd.want \in Resources
    BY <1>0 DEF ReaderTypes
  <2>2. UNCHANGED <<vars, mode, ver, pushing, frontVars, owed>>
    BY <1>4 DEF Read
  <2>3. parked' = parked \/ parked' = [parked EXCEPT ![rd.want] = @ \cup {Gate(idle.task)}]
    BY Zenon, <1>4 DEF Read
  <2>4. CASE parked' = parked
    BY <2>2, <2>4
  <2>5. CASE parked' = [parked EXCEPT ![rd.want] = @ \cup {Gate(idle.task)}]
    <3>1. SameTracks
      BY <2>1, <2>2, <2>5
    <3>2. parked' \in [Resources -> SUBSET Wakers]
      BY SMTT(60), <2>1, <2>5
    <3>. QED
      BY Zenon, <2>2, <3>1, <3>2
  <2>. QED
    BY <2>3, <2>4, <2>5
<1>5. CASE PollRead \/ Finish \/ Move \/ Widen \/ \E r \in Resources : Turn(r)
  BY ZenonT(60), <1>5 DEF PollRead, Finish, Move, Widen, Turn
<1>. QED
  BY <1>1, <1>2, <1>3, <1>4, <1>5 DEF ReaderMove

\* The queue and the front (util/wake.rs, model/origin.rs) leave the reader alone.
LEMMA FrontMoves ==
    ASSUME FrontTypes, ReaderTypes, QueueMove \/ FrontMove
    PROVE  UNCHANGED <<mode, ver, readerVars, nudging>> /\ SameGates
<1>. USE Apart DEF SameGates, FrontTypes, resVars, ioVars
<1>1. CASE QueueMove
  BY Zenon, <1>1 DEF QueueMove, Alone, gateVars
<1>2. CASE \E t \in Tasks, g \in 1 .. MaxGens : WakeTrack(t, g)
  BY <1>2 DEF WakeTrack
<1>3. CASE \E t \in Tasks : PushName(t) \/ WakeOwner(t)
  BY Zenon, <1>3 DEF PushName, WakeOwner, gateVars
<1>4. CASE Forget
  BY Zenon, <1>4 DEF Forget
<1>5. CASE Look
  <2>1. CASE parked' = parked
    BY Zenon, <1>5, <2>1 DEF Look
  <2>2. CASE parked' = [parked EXCEPT ![Head(left)] = @ \cup {Track(gen)}]
    BY Zenon, <1>5, <2>2 DEF Look
  <2>. QED
    BY Zenon, <1>5, <2>1, <2>2 DEF Look
<1>6. CASE Assign \/ PopName \/ Popped \/ Revisit \/ Handle
  BY Zenon, <1>6 DEF Assign, PopName, Popped, Revisit, Handle
<1>7. CASE Acting
  BY Zenon, <1>7, Acts
<1>. QED
  BY <1>1, <1>2, <1>3, <1>4, <1>5, <1>6, <1>7 DEF FrontMove

\* The types of the front.
LEMMA FrontTypesStep ==
    ASSUME FrontTypes, ReaderTypes, FreshInv, WakesNext
    PROVE  FrontTypes'
<1>m. MaxGens \in Nat \ {0} /\ Owner \in Tasks
  BY WakesAssumption
<1>. USE <1>m DEF FrontTypes, resVars, frontVars, ioVars
<1>0. \A g \in 1 .. MaxGens : Track(g) \in Wakers
  BY DEF Wakers
<1>1. CASE QueueMove
  <2>1. UNCHANGED gateVars
    BY Zenon, <1>1 DEF QueueMove, Alone
  <2>. QED
    BY Zenon, <2>1 DEF gateVars
<1>2. CASE ReaderMove
  BY Zenon, <1>2, ReaderMoves
<1>3. ASSUME NEW t \in Tasks, NEW r \in Resources, Change(t, r) PROVE FrontTypes'
  <2>1. ver' \in [Resources -> Nat]
    <3>1. ver' = [ver EXCEPT ![r] = ver[r] + 1] /\ ver[r] + 1 \in Nat
      BY <1>3 DEF Change
    <3>. QED
      BY <3>1
  <2>2. parked' \in [Resources -> SUBSET Wakers]
    BY Zenon, <1>3, {} \in SUBSET Wakers DEF Change
  <2>3. owed' \in [Tasks -> SUBSET Wakers]
    BY Zenon, <1>3 DEF Change
  <2>. QED
    BY Zenon, <1>3, <2>1, <2>2, <2>3 DEF Change
<1>4. ASSUME NEW t \in Tasks, NEW g \in 1 .. MaxGens, WakeTrack(t, g) PROVE FrontTypes'
  BY Zenon, <1>4 DEF WakeTrack, Mark
<1>5. ASSUME NEW t \in Tasks, PushName(t) \/ WakeOwner(t) PROVE FrontTypes'
  BY Zenon, <1>5 DEF PushName, WakeOwner, gateVars
<1>6. CASE Assign
  <2>1. gens + 1 \in 1 .. MaxGens /\ gens' = gens + 1 /\ gen' = gens + 1 /\ gens' \in 0 .. MaxGens /\ gen' \in 0 .. gens'
        /\ gen' # 0
    BY <1>6 DEF Assign
  <2>2. queued' \in [1 .. MaxGens -> BOOLEAN] /\ pushing' \subseteq Tasks
    BY <1>6, <2>1 DEF Assign, Mark
  <2>3. seen' \in [Resources -> Nat] /\ watch' \subseteq Resources
    BY Zenon, <1>6, DemandIsThere DEF Assign
  <2>. QED
    BY <1>6, <2>1, <2>2, <2>3 DEF Assign
<1>7. CASE Forget
  <2>1. parked' \in [Resources -> SUBSET Wakers]
    BY <1>7 DEF Forget
  <2>2. gens' \in 0 .. MaxGens /\ gen' \in 0 .. gens'
    BY <1>7 DEF Forget
  <2>. QED
    BY <1>7, <2>1, <2>2 DEF Forget
<1>8. CASE PopName
  BY <1>8 DEF PopName
<1>9. CASE Popped
  <2>. QED
    BY Zenon, <1>9, DemandIsThere, WakesAssumption DEF Popped
<1>10. CASE Look
  <2>0. /\ Head(left) \in Resources /\ Tail(left) \in Seq(Resources)
        /\ (Len(left) # 1 => Tail(left) # <<>>) /\ Track(gen) \in Wakers
    <3>1. left # <<>> /\ gen \in 1 .. MaxGens
      BY <1>10 DEF Look
    <3>. QED
      BY Zenon, <1>0, <3>1, FirstAndRest
  <2>1. CASE Head(left) \in watch /\ ver[Head(left)] # seen[Head(left)]
    <3>1. seen' \in [Resources -> Nat] /\ watch' \subseteq Resources
      BY Zenon, <1>10, <2>0, <2>1 DEF Look
    <3>2. /\ cur' = "ready" /\ left' = <<>> /\ gen # 0
          /\ UNCHANGED <<mode, ver, parked, owed, pushing, queued, gen, gens>>
      BY <1>10, <2>1 DEF Look
    <3>3. left' \in Seq(Resources)
      BY <3>2
    <3>. QED
      BY Zenon, <3>1, <3>2, <3>3
  <2>2. CASE ~(Head(left) \in watch /\ ver[Head(left)] # seen[Head(left)])
    <3>1. parked' \in [Resources -> SUBSET Wakers]
      <4>1. parked' = [parked EXCEPT ![Head(left)] = @ \cup {Track(gen)}] \/ parked' = parked
        BY Zenon, <1>10, <2>2 DEF Look
      <4>2. CASE parked' = [parked EXCEPT ![Head(left)] = @ \cup {Track(gen)}]
        BY Zenon, <2>0, <4>2
      <4>3. CASE parked' = parked
        BY Zenon, <4>3
      <4>. QED
        BY Zenon, <4>1, <4>2, <4>3
    <3>2. /\ cur' = (IF Len(left) = 1 THEN "loop" ELSE "look") /\ left' = Tail(left) /\ gen # 0
          /\ UNCHANGED <<mode, ver, owed, pushing, queued, gen, gens, watch, seen>>
      BY Zenon, <1>10, <2>2 DEF Look
    <3>. QED
      BY Zenon, <2>0, <3>1, <3>2
  <2>. QED
    BY Zenon, <2>1, <2>2
<1>11. CASE Revisit
  BY Zenon, <1>11 DEF Revisit, Mark, Serving
<1>12. CASE Handle
  BY <1>12 DEF Handle
<1>13. CASE Acting
  BY Zenon, <1>13, Acts DEF Mark
<1>. HIDE <1>m DEF FrontTypes, resVars, frontVars, ioVars
<1>. QED
  BY Zenon, Moves, <1>1, <1>2, <1>3, <1>4, <1>5, <1>6, <1>7, <1>8, <1>9, <1>10, <1>11, <1>12, <1>13 DEF FrontMove

\* Which part runs never changes, and nothing is done for an assignment yet to come.
LEMMA FreshStep ==
    ASSUME FrontTypes, ReaderTypes, ModeInv, FreshInv, WakesNext
    PROVE  ModeInv' /\ FreshInv'
<1>m. MaxGens \in Nat \ {0} /\ Owner \in Tasks
  BY Zenon, WakesAssumption
<1>. USE <1>m, Apart DEF FrontTypes, ModeInv, FreshInv, resVars, frontVars, ioVars
<1>1. CASE QueueMove
  <2>1. UNCHANGED gateVars /\ mode = "queue"
    BY Zenon, <1>1 DEF QueueMove, Alone
  <2>. QED
    BY <2>1 DEF gateVars
<1>2. CASE ReaderMove
  <2>1. UNCHANGED <<closed, mode, pushing, queued, gens>> /\ SameTracks
    BY Zenon, <1>2, ReaderMoves DEF vars
  <2>. QED
    BY Zenon, <2>1 DEF SameTracks
<1>3. ASSUME NEW t \in Tasks, NEW r \in Resources, Change(t, r) PROVE ModeInv' /\ FreshInv'
  BY Zenon, <1>3 DEF Change, vars
<1>4. ASSUME NEW t \in Tasks, NEW g \in 1 .. MaxGens, WakeTrack(t, g) PROVE ModeInv' /\ FreshInv'
  <2>1. g <= gens /\ gens # 0
    BY <1>4 DEF WakeTrack
  <2>. QED
    BY Zenon, <1>4, <2>1 DEF WakeTrack, Mark, vars
<1>5. ASSUME NEW t \in Tasks, PushName(t) \/ WakeOwner(t) PROVE ModeInv' /\ FreshInv'
  BY SMTT(60), <1>5 DEF PushName, Enqueue, WakeOwner, Wake, gateVars
<1>6. CASE Assign
  <2>1. gens' = gens + 1 /\ mode = "front" /\ UNCHANGED <<mode, parked, owed, closed>>
        /\ queued' = [queued EXCEPT ![gens + 1] = TRUE]
    BY Zenon, <1>6 DEF Assign, Mark, Cancel
  <2>. QED
    BY <2>1
<1>7. CASE Forget
  BY Zenon, <1>7 DEF Forget, Cancel
<1>8. CASE PopName
  BY <1>8 DEF PopName, PollPop, Dequeue, Drained
<1>9. CASE Popped
  BY SMTT(60), <1>9 DEF Popped, vars
<1>10. CASE Look
  <2>1. parked' = parked \/ parked' = [parked EXCEPT ![Head(left)] = @ \cup {Track(gen)}]
    BY Zenon, <1>10 DEF Look
  <2>2. UNCHANGED <<mode, owed, pushing, queued, gen, gens, closed>> /\ gen \in 1 .. gens
    BY <1>10 DEF Look, vars
  <2>3. \A r \in Resources : parked'[r] = parked[r] \/ parked'[r] = parked[r] \cup {Track(gen)}
    BY Zenon, <2>1
  <2>4. ASSUME NEW g \in 1 .. MaxGens, NEW r \in Resources, Track(g) \in parked'[r] PROVE g <= gens
    <3>1. CASE Track(g) \in parked[r]
      BY Zenon, <3>1
    <3>2. CASE Track(g) = Track(gen)
      <4>1. g = gen
        BY Zenon, <3>2, Apart
      <4>. QED
        BY <2>2, <4>1
    <3>. QED
      BY Zenon, <2>3, <2>4, <3>1, <3>2
  <2>5. ModeInv'
    BY Zenon, <2>2
  <2>. QED
    BY Zenon, <2>2, <2>4, <2>5
<1>11. CASE Revisit
  BY SMTT(60), <1>11 DEF Revisit, Mark, Serving, vars
<1>12. CASE Handle
  BY <1>12 DEF Handle, Cancel
<1>13. CASE Acting
  <2>1. /\ mode = "front" /\ UNCHANGED <<mode, gens, owed, closed>>
        /\ queued' = [queued EXCEPT ![gen] = TRUE]
        /\ \A r \in Resources : \A w : w \in parked'[r] => w \in parked[r]
    BY Zenon, <1>13, Acts DEF Mark
  <2>2. gen <= gens
    OBVIOUS
  <2>3. \A g \in 1 .. MaxGens : queued'[g] => queued[g] \/ g = gen
    BY Zenon, <2>1
  <2>4. ModeInv'
    BY Zenon, <2>1
  <2>. QED
    BY Zenon, <2>1, <2>2, <2>3, <2>4
<1>. HIDE <1>m, Apart DEF FrontTypes, ModeInv, FreshInv, resVars, frontVars, ioVars
<1>. QED
  BY Zenon, Moves, <1>1, <1>2, <1>3, <1>4, <1>5, <1>6, <1>7, <1>8, <1>9, <1>10, <1>11, <1>12, <1>13 DEF FrontMove

\* The name of a marked track stays queued until it is popped.
LEMMA MarkStep ==
    ASSUME FrontTypes, ReaderTypes, ModeInv, FreshInv, MarkInv, OnceInv, IInv, WakesNext
    PROVE  MarkInv'
<1>m. MaxGens \in Nat \ {0} /\ Owner \in Tasks
  BY WakesAssumption
<1>0. queue \in Seq(Nat) /\ pushed \in Nat
  BY Zenon DEF IInv, TypeOK
<1>. USE <1>m, <1>0 DEF FrontTypes, MarkInv, resVars, frontVars, ioVars
<1>1. CASE QueueMove
  <2>1. UNCHANGED gateVars /\ mode = "queue"
    BY Zenon, <1>1 DEF QueueMove, Alone
  <2>. QED
    BY <2>1 DEF gateVars, ModeInv
<1>2. CASE ReaderMove
  <2>1. UNCHANGED <<queue, pushing, queued, gen, cur>>
    BY Zenon, <1>2, ReaderMoves DEF vars
  <2>. QED
    BY Zenon, <2>1
<1>3. ASSUME NEW t \in Tasks, NEW r \in Resources, Change(t, r) PROVE MarkInv'
  BY <1>3 DEF Change, vars
<1>4. ASSUME NEW t \in Tasks, NEW g \in 1 .. MaxGens, WakeTrack(t, g) PROVE MarkInv'
  BY Zenon, <1>4 DEF WakeTrack, Mark, vars
<1>5. ASSUME NEW t \in Tasks, PushName(t) PROVE MarkInv'
  <2>1. queue' # <<>>
    BY <1>5 DEF PushName, Enqueue
  <2>. QED
    BY Zenon, <2>1
<1>6. ASSUME NEW t \in Tasks, WakeOwner(t) PROVE MarkInv'
  BY Zenon, <1>6 DEF WakeOwner, Wake, gateVars
<1>7. CASE Assign
  <2>1. gens + 1 \in 1 .. MaxGens /\ ~queued[gens + 1]
    BY <1>7 DEF Assign, FreshInv
  <2>. QED
    BY Zenon, <1>7, <2>1 DEF Assign, Mark
<1>8. CASE Forget
  BY Zenon, <1>8 DEF Forget
<1>9. CASE PopName
  <2>1. CASE queue = <<>>
    BY Zenon, <1>9, <2>1 DEF PopName, PollPop, Dequeue, Drained
  <2>2. CASE queue # <<>>
    BY Zenon, <1>9, <2>2 DEF PopName
  <2>. QED
    BY Zenon, <2>1, <2>2
<1>10. CASE Popped
  BY <1>10 DEF Popped, vars
<1>11. CASE Look
  BY Zenon, <1>11 DEF Look, vars
<1>12. CASE Revisit
  BY Zenon, <1>12 DEF Revisit, Mark, Serving, vars
<1>13. CASE Handle
  BY <1>13 DEF Handle, Cancel
<1>14. CASE Acting
  <2>1. UNCHANGED <<queue, gen>> /\ gen # 0 /\ cur = "loop" /\ Mark(Owner, gen)
    BY Zenon, <1>14, Acts
  <2>2. queued[gen] => queue # <<>> \/ pushing # {}
    BY Zenon, <2>1
  <2>. QED
    BY Zenon, <2>1, <2>2 DEF Mark
<1>. HIDE <1>m, <1>0 DEF FrontTypes, MarkInv, resVars, frontVars, ioVars
<1>. QED
  BY Zenon, Moves, <1>1, <1>2, <1>3, <1>4, <1>5, <1>6, <1>7, <1>8, <1>9, <1>10, <1>11, <1>12, <1>13, <1>14 DEF FrontMove

\* What the front looked at has not changed since, unless the front looks again.
LEMMA LookStep ==
    ASSUME FrontTypes, ReaderTypes, ModeInv, FreshInv, MarkInv, LookInv, IInv, WakesNext
    PROVE  LookInv'
<1>m. MaxGens \in Nat \ {0} /\ Owner \in Tasks
  BY WakesAssumption
<1>0. /\ queue \in Seq(Nat) /\ pushed \in Nat
      /\ gen \in Nat /\ gens \in Nat /\ (gen # 0 => gen \in 1 .. MaxGens)
      /\ owed \in [Tasks -> SUBSET Wakers] /\ parked \in [Resources -> SUBSET Wakers]
      /\ ver \in [Resources -> Nat] /\ seen \in [Resources -> Nat] /\ watch \subseteq Resources
  BY SMTT(60), <1>m DEF IInv, TypeOK, FrontTypes
<1>u. ASSUME UNCHANGED <<gen, watch, seen, ver, left>>,
             cur' = cur \/ (cur = "handle" /\ cur' = "loop"),
             gen # 0 /\ Coming => Coming' \/ cur = "popped",
             \A r \in Resources : gen # 0 /\ Track(gen) \in parked[r] => Track(gen) \in parked'[r]
      PROVE  LookInv'
  <2>1. gen # 0 => \A r \in Resources : Settled(r) => Settled(r)'
    BY Zenon, <1>u DEF Settled
  <2>. QED
    BY Zenon, <1>0, <1>u, <2>1 DEF LookInv
<1>k. ASSUME gen' # 0 => Coming' PROVE LookInv'
  BY Zenon, <1>k DEF LookInv
<1>1. CASE QueueMove
  <2>1. UNCHANGED gateVars /\ mode = "queue"
    BY Zenon, <1>1 DEF QueueMove, Alone
  <2>2. gen' = 0
    BY SMTT(60), <2>1 DEF gateVars, frontVars, ioVars, ModeInv, FrontTypes
  <2>. QED
    BY <2>2 DEF LookInv
<1>2. CASE ReaderMove
  <2>1. UNCHANGED <<queue, pushing, gen, watch, seen, ver, left, cur>> /\ SameTracks
    BY Zenon, <1>2, ReaderMoves DEF vars, frontVars, ioVars
  <2>2. gen # 0 /\ Coming => Coming'
    BY Zenon, <1>0, <2>1 DEF Coming, SameTracks
  <2>. QED
    BY Zenon, <1>0, <1>u, <2>1, <2>2 DEF SameTracks
<1>3. ASSUME NEW t \in Tasks, NEW r \in Resources, Change(t, r) PROVE LookInv'
  <2>1. /\ UNCHANGED <<queue, pushing, gen, watch, seen, left, cur>> /\ owed[t] = {}
        /\ ver' = [ver EXCEPT ![r] = @ + 1]
        /\ parked' = [parked EXCEPT ![r] = {}]
        /\ owed' = [owed EXCEPT ![t] = parked[r]]
    BY Zenon, <1>3 DEF Change, vars, frontVars, ioVars
  <2>2. Coming \/ Track(gen) \in parked[r] => Coming'
    BY Zenon, <1>0, <2>1 DEF Coming
  <2>3. \A q \in Resources \ {r} : Settled(q) => Settled(q)'
    BY <1>0, <2>1 DEF Settled
  <2>4. CASE Coming'
    BY Zenon, <1>k, <2>4
  <2>5. CASE ~Coming'
    <3>1. ~Coming /\ ~Settled(r)
      BY Zenon, <2>2, <2>5 DEF Settled
    <3>. QED
      BY Zenon, <1>0, <2>1, <2>3, <3>1 DEF LookInv
  <2>. QED
    BY Zenon, <2>4, <2>5
<1>4. ASSUME NEW t \in Tasks, NEW g \in 1 .. MaxGens, WakeTrack(t, g) PROVE LookInv'
  <2>1. /\ UNCHANGED <<queue, gen, watch, seen, ver, left, cur, parked>> /\ Mark(t, g)
        /\ owed' = [owed EXCEPT ![t] = @ \ {Track(g)}]
    BY <1>4 DEF WakeTrack, vars, resVars, ioVars
  <2>2. pushing \subseteq pushing' /\ (queued[g] \/ pushing' # {})
    BY <2>1 DEF Mark
  <2>3. ASSUME gen # 0, Coming PROVE Coming' \/ cur = "popped"
    <3>1. CASE g = gen
      BY Zenon, <2>1, <2>2, <2>3, <3>1 DEF MarkInv, Coming
    <3>2. CASE g # gen
      <4>1. Track(g) # Track(gen)
        BY Zenon, <3>2, Apart
      <4>. QED
        BY <1>0, <2>1, <2>2, <2>3, <4>1 DEF Coming
    <3>. QED
      BY Zenon, <3>1, <3>2
  <2>. QED
    BY Zenon, <1>u, <2>1, <2>3
<1>5. ASSUME NEW t \in Tasks, PushName(t) PROVE LookInv'
  <2>1. queue' # <<>>
    BY <1>0, <1>5 DEF PushName, Enqueue
  <2>. QED
    BY Zenon, <1>k, <2>1 DEF Coming
<1>6. ASSUME NEW t \in Tasks, WakeOwner(t) PROVE LookInv'
  <2>1. UNCHANGED <<queue, pushing, owed, parked, gen, watch, seen, ver, left, cur>>
    BY <1>6 DEF WakeOwner, Wake, gateVars, frontVars, ioVars
  <2>. QED
    BY Zenon, <1>u, <2>1 DEF Coming
<1>7. CASE Assign
  <2>1. gens + 1 \in 1 .. MaxGens /\ ~queued[gens + 1]
    BY <1>0, <1>7, <1>m DEF Assign, FreshInv
  <2>2. pushing' # {}
    BY Zenon, <1>7, <2>1 DEF Assign, Mark
  <2>. QED
    BY Zenon, <1>k, <2>2 DEF Coming
<1>8. CASE Forget
  BY <1>8 DEF Forget, LookInv
<1>9. CASE PopName
  <2>1. CASE queue = <<>>
    <3>1. UNCHANGED <<queue, pushing, owed, parked, gen, watch, seen, ver, left, cur>>
      BY Zenon, <1>9, <2>1 DEF PopName, PollPop, Dequeue, Drained, resVars, ioVars
    <3>. QED
      BY Zenon, <1>u, <3>1 DEF Coming
  <2>2. CASE queue # <<>>
    BY Zenon, <1>9, <2>2 DEF PopName, LookInv
  <2>. QED
    BY Zenon, <2>1, <2>2
<1>10. CASE Popped
  <2>1. gen' = gen /\ cur' = (IF gen = 0 THEN "loop" ELSE "look") /\ left' = Order /\ watch' = watch
    BY <1>10 DEF Popped, ioVars
  <2>2. \A r \in Resources : \E i \in 1 .. Len(Order) : Order[i] = r
    BY WakesAssumption
  <2>. QED
    BY <1>0, <2>1, <2>2 DEF LookInv
<1>11. CASE Look
  <2>0. /\ left \in Seq(Resources) /\ left # <<>> /\ cur = "look" /\ gen # 0
        /\ UNCHANGED <<queue, pushing, owed, gen, ver>>
    BY Zenon, <1>11 DEF Look, FrontTypes, vars, resVars, ioVars
  <2>1. CASE Head(left) \in watch /\ ver[Head(left)] # seen[Head(left)]
    <3>1. cur' = "ready"
      BY <1>11, <2>1 DEF Look
    <3>. QED
      BY <3>1 DEF LookInv
  <2>2. CASE ~(Head(left) \in watch /\ ver[Head(left)] # seen[Head(left)])
    <3>1. /\ parked' = IF Head(left) \in watch THEN [parked EXCEPT ![Head(left)] = @ \cup {Track(gen)}] ELSE parked
          /\ cur' = (IF Len(left) = 1 THEN "loop" ELSE "look") /\ left' = Tail(left) /\ UNCHANGED <<watch, seen>>
      BY <1>11, <2>2 DEF Look
    <3>2. /\ Head(left) \in Resources
          /\ \A i \in 1 .. Len(left) : left[i] = Head(left) \/ \E j \in 1 .. Len(Tail(left)) : Tail(left)[j] = left[i]
          /\ Len(left) = 1 => Tail(left) = <<>>
      BY Zenon, <2>0, FirstAndRest
    <3>3. \A r \in watch : Settled(r) \/ r = Head(left) => Settled(r)'
      BY Zenon, <1>0, <2>0, <2>2, <3>1, <3>2 DEF Settled
    <3>4. Coming => Coming'
      BY <2>0 DEF Coming
    <3>5. CASE Coming
      BY Zenon, <1>k, <3>4, <3>5
    <3>6. CASE ~Coming
      <4>1. \A r \in watch : Settled(r) \/ \E i \in 1 .. Len(left) : left[i] = r
        BY <2>0, <3>6 DEF LookInv
      <4>2. \A r \in watch : Settled(r)' \/ \E j \in 1 .. Len(left') : left'[j] = r
        <5>. TAKE r \in watch
        <5>1. CASE Settled(r) \/ r = Head(left)
          BY Zenon, <3>3, <5>1
        <5>2. CASE ~(Settled(r) \/ r = Head(left))
          <6>1. PICK i \in 1 .. Len(left) : left[i] = r
            BY Zenon, <4>1, <5>2
          <6>2. PICK j \in 1 .. Len(Tail(left)) : Tail(left)[j] = left[i]
            BY <3>2, <5>2, <6>1
          <6>. QED
            BY <3>1, <6>1, <6>2
        <5>. QED
          BY <5>1, <5>2
      <4>3. Len(left) = 1 => \A r \in watch : Settled(r)'
        <5>1. Len(<<>>) = 0 /\ 1 .. 0 = {}
          OBVIOUS
        <5>. QED
          BY ZenonT(60), <3>1, <3>2, <4>2, <5>1
      <4>. QED
        BY Zenon, <3>1, <4>2, <4>3 DEF LookInv
    <3>. QED
      BY Zenon, <3>5, <3>6
  <2>. QED
    BY Zenon, <2>1, <2>2
<1>12. CASE Revisit
  <2>1. pushing \subseteq pushing' /\ (queued[gen] \/ pushing' # {}) /\ UNCHANGED <<gen, queue>> /\ cur = "ready"
    BY Zenon, <1>12 DEF Revisit, Mark, vars
  <2>. QED
    BY Zenon, <1>k, <2>1 DEF Coming, MarkInv
<1>13. CASE Handle
  <2>1. UNCHANGED <<queue, pushing, owed, parked, gen, watch, seen, ver, left>> /\ cur = "handle" /\ cur' = "loop"
    BY <1>13 DEF Handle, Cancel, resVars, ioVars
  <2>. QED
    BY Zenon, <1>u, <2>1 DEF Coming
<1>14. CASE Acting
  <2>1. UNCHANGED <<queue, gen>> /\ gen # 0 /\ cur = "loop" /\ Mark(Owner, gen)
    BY Zenon, <1>14, Acts
  <2>2. pushing \subseteq pushing' /\ (queued[gen] \/ pushing' # {})
    BY Zenon, <2>1 DEF Mark
  <2>. QED
    BY Zenon, <1>k, <2>1, <2>2 DEF Coming, MarkInv
<1>. QED
  BY Zenon, Moves, <1>1, <1>2, <1>3, <1>4, <1>5, <1>6, <1>7, <1>8, <1>9, <1>10, <1>11, <1>12, <1>13, <1>14 DEF FrontMove

-----------------------------------------------------------------------------
(* The steps that are about the reader and about how many names are        *)
(* queued.                                                                 *)

\* The types of the reader.
LEMMA ReaderTypesStep ==
    ASSUME FrontTypes, ReaderTypes, WakesNext
    PROVE  ReaderTypes'
<1>1. CASE QueueMove \/ FrontMove
  <2>1. UNCHANGED <<idle, rd, got, narrow, nudging>>
    BY Zenon, <1>1, FrontMoves DEF readerVars
  <2>. QED
    BY <2>1 DEF ReaderTypes
<1>2. ASSUME NEW t \in Tasks, NEW r \in Resources, Change(t, r) PROVE ReaderTypes'
  BY <1>2 DEF Change, readerVars, ReaderTypes
<1>3. ASSUME NEW t \in Tasks, NEW k \in 1 .. 2, Record(t, k) PROVE ReaderTypes'
  <2>. DEFINE w == idle.woken \/ idle.task = k
  <2>1. w \in BOOLEAN
    BY Zenon
  <2>2. /\ idle' = [idle EXCEPT !.woken = w] /\ nudging' = [nudging EXCEPT ![t] = k]
        /\ UNCHANGED <<rd, got, narrow>>
    BY <1>3 DEF Record
  <2>. HIDE DEF w
  <2>3. k \in 0 .. 2
    OBVIOUS
  <2>4. nudging' \in [Tasks -> 0 .. 2]
    BY <2>2, <2>3 DEF ReaderTypes
  <2>5. idle' \in [read : Resources \cup {None}, woken : BOOLEAN, task : 0 .. 2]
    BY <2>1, <2>2 DEF ReaderTypes
  <2>. QED
    BY <2>2, <2>4, <2>5 DEF ReaderTypes
<1>4. ASSUME NEW t \in Tasks, WakeTask(t) PROVE ReaderTypes'
  <2>. DEFINE w == rd.woken \/ rd.task = nudging[t]
  <2>1. w \in BOOLEAN
    BY Zenon
  <2>2. rd' = [rd EXCEPT !.woken = w] /\ nudging' = [nudging EXCEPT ![t] = 0] /\ UNCHANGED <<idle, got, narrow>>
    BY <1>4 DEF WakeTask
  <2>. HIDE DEF w
  <2>4. nudging' \in [Tasks -> 0 .. 2]
    BY <2>2, 0 \in 0 .. 2 DEF ReaderTypes
  <2>5. rd' \in [at : {"poll", "start", "read", "finish"}, want : Resources, task : 1 .. 2, woken : BOOLEAN]
    BY <2>1, <2>2 DEF ReaderTypes
  <2>. QED
    BY <2>2, <2>4, <2>5 DEF ReaderTypes
<1>5. CASE PollRead
  BY Zenon, <1>5 DEF PollRead, ReaderTypes
<1>6. CASE Start
  BY <1>6 DEF Start, ReaderTypes
<1>7. CASE Read
  <2>1. UNCHANGED <<idle, narrow, nudging>>
    BY <1>7 DEF Read
  <2>2. got' \in [Resources -> Nat]
    <3>1. got' = got \/ got' = [got EXCEPT ![rd.want] = ver[rd.want]]
      BY Zenon, <1>7 DEF Read
    <3>2. ver[rd.want] \in Nat
      BY DEF FrontTypes, ReaderTypes
    <3>. QED
      BY <3>1, <3>2 DEF ReaderTypes
  <2>3. rd' \in [at : {"poll", "start", "read", "finish"}, want : Resources, task : 1 .. 2, woken : BOOLEAN]
    <3>1. rd' = [rd EXCEPT !.at = "poll", !.woken = TRUE] \/ rd' = [rd EXCEPT !.at = "finish"]
      BY <1>7 DEF Read
    <3>. QED
      BY Zenon, <3>1 DEF ReaderTypes
  <2>. QED
    BY <2>1, <2>2, <2>3 DEF ReaderTypes
<1>8. CASE Finish
  BY <1>8 DEF Finish, ReaderTypes
<1>9. CASE Move
  <2>1. rd' = [rd EXCEPT !.task = 2, !.woken = TRUE] /\ UNCHANGED <<idle, got, narrow, nudging>> /\ 2 \in 1 .. 2
    BY <1>9 DEF Move
  <2>2. rd' \in [at : {"poll", "start", "read", "finish"}, want : Resources, task : 1 .. 2, woken : BOOLEAN]
    BY Zenon, <2>1 DEF ReaderTypes
  <2>. QED
    BY <2>1, <2>2 DEF ReaderTypes
<1>10. CASE Widen
  BY Zenon, <1>10 DEF Widen, ReaderTypes
<1>11. ASSUME NEW r \in Resources, Turn(r) PROVE ReaderTypes'
  BY Zenon, <1>11 DEF Turn, ReaderTypes
<1>. QED
  BY Zenon, Moves, <1>1, <1>2, <1>3, <1>4, <1>5, <1>6, <1>7, <1>8, <1>9, <1>10, <1>11 DEF ReaderMove

\* A gate that recorded no wake is parked on what has not changed, or a wake of it is coming.
LEMMA ReaderStep ==
    ASSUME FrontTypes, ReaderTypes, ReaderInv, WakesNext
    PROVE  ReaderInv'
<1>n. None \notin Resources
  BY Zenon, WakesAssumption
<1>0. /\ idle.task \in 0 .. 2 /\ rd.task \in 1 .. 2 /\ rd.want \in Resources
      /\ idle.read \in Resources \cup {None}
      /\ owed \in [Tasks -> SUBSET Wakers] /\ parked \in [Resources -> SUBSET Wakers]
      /\ ver \in [Resources -> Nat]
  BY Zenon DEF FrontTypes, ReaderTypes
<1>i. /\ idle = [read |-> idle.read, woken |-> idle.woken, task |-> idle.task]
      /\ rd = [at |-> rd.at, want |-> rd.want, task |-> rd.task, woken |-> rd.woken]
  <2>1. idle = [read |-> idle.read, woken |-> idle.woken, task |-> idle.task]
    BY Zenon DEF ReaderTypes
  <2>2. rd = [at |-> rd.at, want |-> rd.want, task |-> rd.task, woken |-> rd.woken]
    BY Zenon DEF ReaderTypes
  <2>. QED
    BY Zenon, <2>1, <2>2
<1>1. CASE QueueMove \/ FrontMove
  <2>1. UNCHANGED <<ver, idle, rd, got, narrow, nudging>> /\ SameGates
    BY Zenon, <1>1, FrontMoves DEF readerVars
  <2>2. Told(idle.task)' = Told(idle.task)
    BY Zenon, <1>0, <2>1 DEF Told, SameGates
  <2>3. \A r \in Resources : Nothing(r) => Nothing(r)'
    BY SMTT(60), <1>0, <2>1 DEF Nothing, SameGates
  <2>. QED
    BY Zenon, <1>0, <2>1, <2>2, <2>3 DEF ReaderInv
<1>2. ASSUME NEW t \in Tasks, NEW r \in Resources, Change(t, r) PROVE ReaderInv'
  <2>1. /\ UNCHANGED <<idle, rd, got, narrow, nudging>> /\ owed[t] = {}
        /\ ver' = [ver EXCEPT ![r] = @ + 1]
        /\ parked' = [parked EXCEPT ![r] = {}]
        /\ owed' = [owed EXCEPT ![t] = parked[r]]
    BY Zenon, <1>2 DEF Change, readerVars
  <2>2. Told(idle.task) => Told(idle.task)'
    BY Zenon, <1>0, <2>1 DEF Told
  <2>3. \A q \in Resources : Nothing(q) => Nothing(q)' \/ Told(idle.task)'
    BY <1>0, <2>1 DEF Nothing, Told
  <2>. QED
    BY ZenonT(60), <1>0, <2>1, <2>2, <2>3 DEF ReaderInv
<1>3. ASSUME NEW t \in Tasks, NEW k \in 1 .. 2, Record(t, k) PROVE ReaderInv'
  <2>1. /\ UNCHANGED <<ver, parked, rd, got, narrow>> /\ nudging[t] = 0
        /\ owed' = [owed EXCEPT ![t] = @ \ {Gate(k)}]
        /\ nudging' = [nudging EXCEPT ![t] = k] /\ nudging \in [Tasks -> 0 .. 2]
    BY <1>3 DEF Record, Changing, resVars, ioVars, ReaderTypes
  <2>2. idle'.read = idle.read /\ idle'.task = idle.task /\ idle'.woken = (idle.woken \/ idle.task = k)
    BY <1>3, <1>i DEF Record
  <2>3. Told(idle.task) => idle'.woken \/ Told(idle.task)'
    <3>1. CASE idle.task = k
      BY Zenon, <2>2, <3>1
    <3>2. CASE idle.task # k
      <4>1. Gate(idle.task) # Gate(k)
        BY Zenon, <3>2, Apart
      <4>. QED
        BY <1>0, <2>1, <2>2, <4>1 DEF Told
    <3>. QED
      BY <3>1, <3>2
  <2>4. \A q \in Resources : Nothing(q) => Nothing(q)'
    BY Zenon, <2>1, <2>2 DEF Nothing
  <2>5. nudging'[t] = k /\ \A u \in Tasks : nudging[u] = rd.task => nudging'[u] = rd.task
    BY <1>0, <2>1
  <2>. QED
    BY Zenon, <1>0, <2>1, <2>2, <2>3, <2>4, <2>5, Zenon DEF ReaderInv, Told
<1>4. ASSUME NEW t \in Tasks, WakeTask(t) PROVE ReaderInv'
  <2>1. /\ UNCHANGED <<ver, parked, owed, idle, got, narrow>>
        /\ nudging' = [nudging EXCEPT ![t] = 0] /\ nudging \in [Tasks -> 0 .. 2]
    BY <1>4 DEF WakeTask, resVars, ioVars, ReaderTypes
  <2>2. rd'.at = rd.at /\ rd'.want = rd.want /\ rd'.task = rd.task /\ rd'.woken = (rd.woken \/ rd.task = nudging[t])
    BY SMTT(60), <1>4, <1>i DEF WakeTask
  <2>3. \A u \in Tasks : nudging[u] = rd.task => nudging'[u] = rd.task \/ rd'.woken
    BY Zenon, <1>0, <2>1, <2>2
  <2>4. (Told(idle.task) => Told(idle.task)') /\ \A q \in Resources : Nothing(q) => Nothing(q)'
    BY Zenon, <2>1 DEF Told, Nothing
  <2>. QED
    BY Zenon, <1>0, <2>1, <2>2, <2>3, <2>4, Zenon DEF ReaderInv
<1>5. CASE PollRead
  <2>1. UNCHANGED <<ver, parked, owed, idle, got, narrow, nudging>> /\ rd.at = "poll"
    BY <1>5 DEF PollRead, resVars, ioVars
  <2>2. /\ rd'.want = rd.want /\ rd'.task = rd.task /\ rd'.woken = FALSE
        /\ rd'.at = IF Parked THEN "poll" ELSE "start"
    BY Zenon, <1>5, <1>i DEF PollRead
  <2>3. (Told(idle.task) => Told(idle.task)') /\ \A q \in Resources : Nothing(q) => Nothing(q)'
    BY Zenon, <2>1 DEF Told, Nothing
  <2>. QED
    BY Zenon, <1>0, <2>1, <2>2, <2>3 DEF ReaderInv, Parked
<1>6. CASE Start
  <2>1. rd'.at = "read" /\ rd'.task = rd.task /\ idle'.read = None /\ idle'.woken = FALSE /\ idle'.task = rd.task
    BY <1>6, <1>i DEF Start
  <2>. QED
    BY <2>1 DEF ReaderInv
<1>7. CASE Read
  <2>1. UNCHANGED <<ver, owed, idle, narrow, nudging>> /\ rd.at = "read" /\ idle.task = rd.task /\ idle.read = None
    BY Zenon, <1>7 DEF Read, resVars, ioVars, ReaderInv
  <2>2. CASE Readable
    <3>1. rd'.at = "poll" /\ rd'.want = rd.want /\ rd'.task = rd.task /\ rd'.woken = TRUE
      BY Zenon, <1>7, <1>i, <2>2 DEF Read
    <3>. QED
      BY <2>1, <3>1 DEF ReaderInv
  <2>3. CASE ~Readable
    <3>1. rd'.at = "finish" /\ rd'.want = rd.want /\ rd'.task = rd.task /\ rd'.woken = rd.woken
      BY <1>7, <1>i, <2>3 DEF Read
    <3>2. Nothing(rd.want)'
      BY SMTT(60), <1>0, <1>7, <2>1, <2>3, <3>1 DEF Read, Nothing, Readable
    <3>. QED
      BY <2>1, <3>1, <3>2 DEF ReaderInv
  <2>. QED
    BY <2>2, <2>3
<1>8. CASE Finish
  <2>1. UNCHANGED <<ver, parked, owed, got, narrow, nudging>> /\ rd.at = "finish"
    BY <1>8 DEF Finish, resVars, ioVars
  <2>2. /\ rd'.at = "poll" /\ rd'.want = rd.want /\ rd'.task = rd.task /\ rd'.woken = rd.woken
        /\ idle'.read = rd.want /\ idle'.task = idle.task /\ idle'.woken = idle.woken
    BY Zenon, <1>8, <1>i DEF Finish
  <2>3. (Told(idle.task) => Told(idle.task)') /\ \A q \in Resources : Nothing(q) => Nothing(q)'
    BY SMTT(60), <2>1, <2>2 DEF Told, Nothing
  <2>. QED
    BY Zenon, <1>0, <2>1, <2>2, <2>3 DEF ReaderInv
<1>9. ASSUME UNCHANGED <<ver, parked, owed, idle, got, narrow, nudging>>, rd'.at = "poll", rd'.woken = TRUE
      PROVE  ReaderInv'
  <2>1. (Told(idle.task) => Told(idle.task)') /\ \A q \in Resources : Nothing(q) => Nothing(q)'
    BY Zenon, <1>9 DEF Told, Nothing
  <2>. QED
    BY ZenonT(60), <1>0, <1>9, <2>1 DEF ReaderInv
<1>10. CASE Move
  <2>1. rd'.at = "poll" /\ rd'.woken = TRUE
    BY Zenon, <1>10, <1>i DEF Move
  <2>. QED
    BY <1>9, <1>10, <2>1 DEF Move, resVars, ioVars
<1>11. CASE Widen
  <2>1. rd'.at = "poll" /\ rd'.woken = TRUE /\ idle'.read = None
    BY <1>11, <1>i DEF Widen
  <2>. QED
    BY Zenon, <2>1 DEF ReaderInv
<1>12. ASSUME NEW r \in Resources, Turn(r) PROVE ReaderInv'
  <2>1. rd'.at = "poll" /\ rd'.woken = TRUE
    BY SMTT(60), <1>12, <1>i DEF Turn
  <2>. QED
    BY <1>9, <1>12, <2>1 DEF Turn, resVars, ioVars
<1>. QED
  BY Zenon, Moves, <1>1, <1>2, <1>3, <1>4, <1>5, <1>6, <1>7, <1>8, <1>10, <1>11, <1>12 DEF ReaderMove

-----------------------------------------------------------------------------
(* Counting.  Counts, below, proves it from the library.                   *)

\* What the proofs use of the sizes of finite sets.
Counting ==
    /\ IsFiniteSet({}) /\ Cardinality({}) = 0
    /\ \A n \in Nat : IsFiniteSet(1 .. n) /\ Cardinality(1 .. n) = n
    /\ \A S : IsFiniteSet(S) =>
          /\ Cardinality(S) \in Nat
          /\ Cardinality(S) = 0 => S = {}
          /\ \A T \in SUBSET S : IsFiniteSet(T) /\ Cardinality(T) <= Cardinality(S)
          /\ \A x : /\ IsFiniteSet(S \cup {x})
                   /\ Cardinality(S \cup {x}) = IF x \in S THEN Cardinality(S) ELSE Cardinality(S) + 1
          /\ \A x : /\ IsFiniteSet(S \ {x})
                   /\ Cardinality(S \ {x}) = IF x \in S THEN Cardinality(S) - 1 ELSE Cardinality(S)

\* The size of a finite set is a natural, zero for the empty set only.
LEMMA SizeType ==
    ASSUME Counting, NEW S, IsFiniteSet(S)
    PROVE  Cardinality(S) \in Nat /\ (Cardinality(S) = 0 => S = {})
  BY Zenon DEF Counting

\* The numbers up to n are n.
LEMMA SizeInterval ==
    ASSUME Counting, NEW n \in Nat PROVE IsFiniteSet(1 .. n) /\ Cardinality(1 .. n) = n
  BY Zenon DEF Counting

\* A part of a finite set is finite and no larger.
LEMMA SizeSubset ==
    ASSUME Counting, NEW S, IsFiniteSet(S), NEW T \in SUBSET S
    PROVE  IsFiniteSet(T) /\ Cardinality(T) <= Cardinality(S)
  BY Zenon DEF Counting

\* One element more.
LEMMA SizeAdd ==
    ASSUME Counting, NEW S, IsFiniteSet(S), NEW x
    PROVE  /\ IsFiniteSet(S \cup {x})
           /\ Cardinality(S \cup {x}) = IF x \in S THEN Cardinality(S) ELSE Cardinality(S) + 1
  BY Zenon DEF Counting

\* One element less.
LEMMA SizeRemove ==
    ASSUME Counting, NEW S, IsFiniteSet(S), NEW x
    PROVE  /\ IsFiniteSet(S \ {x})
           /\ Cardinality(S \ {x}) = IF x \in S THEN Cardinality(S) - 1 ELSE Cardinality(S)
  BY Zenon DEF Counting

\* A wake that marks a track makes one mark for the one name it pushes, and one that finds the
\* mark pushes nothing (wake.rs wake_by_ref).
LEMMA MarkOnce ==
    ASSUME Counting, FrontTypes, NEW t \in Tasks, NEW g \in 1 .. MaxGens, Mark(t, g),
           g <= gens' , gens' \in 0 .. MaxGens, gens <= gens',
           \A h \in 1 .. MaxGens : queued[h] => h <= gens,
           IsFiniteSet(pushing)
    PROVE  /\ IsFiniteSet(pushing') /\ pushing \subseteq pushing'
           /\ Cardinality(pushing') \in Nat /\ Cardinality(pushing) \in Nat
           /\ Cardinality(Marks') \in Nat /\ Cardinality(Marks) \in Nat
           /\ Cardinality(pushing') + Cardinality(Marks) <= Cardinality(pushing) + Cardinality(Marks')
           /\ pushing' # {} \/ queued[g]
<1>. USE DEF FrontTypes
<1>0. MaxGens \in Nat /\ gens \in Nat /\ gens' \in Nat
  BY WakesAssumption
<1>1. queued' = [queued EXCEPT ![g] = TRUE] /\ pushing' = IF queued[g] THEN pushing ELSE pushing \cup {t}
  BY Zenon DEF Mark
<1>2. IsFiniteSet(Marks) /\ Cardinality(Marks) \in Nat
  <2>1. IsFiniteSet(1 .. gens)
    BY Zenon, <1>0, SizeInterval
  <2>2. Marks \in SUBSET (1 .. gens)
    BY DEF Marks
  <2>3. IsFiniteSet(Marks)
    BY Zenon, <2>1, <2>2, SizeSubset
  <2>. QED
    BY Zenon, <2>3, SizeType
<1>3. Marks' = Marks \cup {g}
  <2>1. ASSUME NEW h \in 1 .. MaxGens PROVE h \in Marks' <=> h \in Marks \cup {g}
    BY SMTT(60), <1>0, <1>1 DEF Marks
  <2>2. Marks \subseteq 1 .. MaxGens /\ Marks' \subseteq 1 .. MaxGens
    BY <1>0 DEF Marks
  <2>. QED
    BY Zenon, <2>1, <2>2
<1>4. g \in Marks <=> queued[g]
  BY SMTT(60), <1>0 DEF Marks
<1>5. Cardinality(Marks') = IF queued[g] THEN Cardinality(Marks) ELSE Cardinality(Marks) + 1
  BY Zenon, <1>2, <1>3, <1>4, SizeAdd
<1>6. /\ IsFiniteSet(pushing') /\ Cardinality(pushing) \in Nat
      /\ Cardinality(pushing') = IF queued[g] \/ t \in pushing THEN Cardinality(pushing) ELSE Cardinality(pushing) + 1
  BY ZenonT(60), <1>1, SizeAdd, SizeType
<1>. HIDE DEF FrontTypes
<1>7. pushing \subseteq pushing' /\ (pushing' # {} \/ queued[g])
  BY <1>1
<1>. QED
  BY SMTT(60), <1>2, <1>5, <1>6, <1>7

\* A name is pushed with a mark, and a mark goes with a name that was popped.
LEMMA OnceStep ==
    ASSUME Counting, FrontTypes, ReaderTypes, ModeInv, FreshInv, OnceInv, IInv, WakesNext
    PROVE  OnceInv'
<1>m. MaxGens \in Nat \ {0} /\ Owner \in Tasks
  BY Zenon, WakesAssumption
<1>0. /\ queue \in Seq(Nat) /\ pushed \in Nat /\ Len(queue) \in Nat /\ IsFiniteSet(pushing)
      /\ gens \in Nat /\ gen \in Nat /\ gens <= MaxGens
      /\ \A h \in 1 .. MaxGens : queued[h] => h <= gens
  BY <1>m DEF IInv, TypeOK, OnceInv, FrontTypes, FreshInv
<1>c. IsFiniteSet(Marks) /\ Cardinality(Marks) \in Nat /\ Cardinality(pushing) \in Nat
  <2>1. IsFiniteSet(1 .. gens)
    BY <1>0, SizeInterval
  <2>2. Marks \in SUBSET (1 .. gens)
    BY DEF Marks
  <2>3. IsFiniteSet(Marks)
    BY Zenon, <2>1, <2>2, SizeSubset
  <2>. QED
    BY SMTT(60), <1>0, <2>3, SizeType
<1>u. ASSUME UNCHANGED <<mode, pushing, queued, gens, cur>>, UNCHANGED queue \/ mode # "front" PROVE OnceInv'
  <2>1. Marks' = Marks
    BY Zenon, <1>u DEF Marks
  <2>. QED
    BY <1>u, <2>1 DEF OnceInv
<1>k. ASSUME NEW t \in Tasks, NEW g \in 1 .. MaxGens, Mark(t, g), g <= gens', gens' \in 0 .. MaxGens, gens <= gens',
             UNCHANGED <<mode, queue>>, cur' = "popped" => cur = "popped"
      PROVE  OnceInv'
  <2>1. /\ IsFiniteSet(pushing') /\ Cardinality(pushing') \in Nat /\ Cardinality(Marks') \in Nat
        /\ Cardinality(pushing') + Cardinality(Marks) <= Cardinality(pushing) + Cardinality(Marks')
    BY Zenon, <1>0, <1>k, MarkOnce
  <2>. QED
    BY SMTT(60), <1>0, <1>c, <1>k, <2>1 DEF OnceInv
<1>1. CASE QueueMove
  <2>1. UNCHANGED gateVars /\ mode = "queue"
    BY Zenon, <1>1 DEF QueueMove, Alone
  <2>. QED
    BY <1>u, <2>1 DEF gateVars, frontVars, ioVars
<1>2. CASE ReaderMove
  BY Zenon, <1>u, <1>2, ReaderMoves DEF vars, frontVars, ioVars
<1>3. ASSUME NEW t \in Tasks, NEW r \in Resources, Change(t, r) PROVE OnceInv'
  BY Zenon, <1>u, <1>3 DEF Change, vars, frontVars, ioVars
<1>4. ASSUME NEW t \in Tasks, NEW g \in 1 .. MaxGens, WakeTrack(t, g) PROVE OnceInv'
  <2>1. g <= gens /\ UNCHANGED <<mode, queue, gens, cur>> /\ Mark(t, g)
    BY ZenonT(60), <1>4 DEF WakeTrack, vars, resVars, ioVars, FreshInv
  <2>. QED
    BY SMTT(60), <1>0, <1>m, <1>k, <2>1
<1>5. ASSUME NEW t \in Tasks, PushName(t) PROVE OnceInv'
  <2>1. /\ t \in pushing /\ pushing' = pushing \ {t} /\ queue' = Append(queue, pushed + 1)
        /\ UNCHANGED <<mode, queued, gens, cur>>
    BY <1>5 DEF PushName, Enqueue, resVars, frontVars, ioVars
  <2>2. Len(queue') = Len(queue) + 1
    BY SMTT(60), <1>0, <2>1
  <2>3. Cardinality(pushing') = Cardinality(pushing) - 1 /\ IsFiniteSet(pushing')
    BY <1>0, <2>1, SizeRemove
  <2>4. Marks' = Marks
    BY Zenon, <2>1 DEF Marks
  <2>. QED
    BY SMTT(60), <1>0, <1>c, <2>1, <2>2, <2>3, <2>4 DEF OnceInv
<1>6. ASSUME NEW t \in Tasks, WakeOwner(t) PROVE OnceInv'
  BY Zenon, <1>u, <1>6 DEF WakeOwner, Wake, gateVars, frontVars, ioVars
<1>7. CASE Assign
  <2>1. /\ gens' = gens + 1 /\ gens < MaxGens /\ Mark(Owner, gens + 1) /\ UNCHANGED <<mode, queue>>
        /\ cur' = "handle"
    BY Zenon, <1>7 DEF Assign, Cancel, resVars, ioVars
  <2>. QED
    BY SMTT(60), <1>0, <1>m, <1>k, <2>1
<1>8. CASE Forget
  BY <1>u, <1>8 DEF Forget, Cancel, resVars, ioVars
<1>9. CASE PopName
  <2>0. UNCHANGED <<mode, pushing, queued, gens>> /\ cur = "loop"
    BY Zenon, <1>9 DEF PopName, resVars, ioVars
  <2>1. CASE queue = <<>>
    BY Zenon, <1>9, <1>u, <2>0, <2>1 DEF PopName, PollPop, Dequeue, Drained
  <2>2. CASE queue # <<>>
    <3>1. queue' = Tail(queue) /\ cur' = "popped"
      BY Zenon, <1>9, <2>2 DEF PopName, PollPop, Dequeue, Drained
    <3>2. Len(queue') + 1 = Len(queue) /\ Len(queue') \in Nat
      <4>1. Len(Tail(queue)) = Len(queue) - 1 /\ Len(queue) # 0
        BY <1>0, <2>2
      <4>. QED
        BY <1>0, <3>1, <4>1
    <3>3. Marks' = Marks
      BY <2>0 DEF Marks
    <3>4. mode = "front" => Len(queue) + Cardinality(pushing) + 0 <= Cardinality(Marks)
      BY Zenon, <2>0 DEF OnceInv
    <3>5. mode = "front" => Len(queue') + Cardinality(pushing) + 1 <= Cardinality(Marks)
      BY <1>0, <1>c, <3>2, <3>4
    <3>. QED
      BY Zenon, <1>0, <2>0, <3>1, <3>3, <3>5 DEF OnceInv
  <2>. QED
    BY Zenon, <2>1, <2>2
<1>10. CASE Popped
  <2>0. UNCHANGED <<mode, pushing, gens, queue>> /\ cur = "popped" /\ cur' # "popped"
    BY Zenon, <1>10 DEF Popped, resVars, ioVars, vars
  <2>1. CASE gen = 0
    <3>1. Marks' = Marks
      BY Zenon, <1>10, <2>0, <2>1 DEF Marks, Popped
    <3>. QED
      BY SMTT(60), <1>0, <1>c, <2>0, <3>1 DEF OnceInv
  <2>2. CASE gen # 0
    <3>1. Marks' = Marks \ {gen}
      <4>1. queued' = [queued EXCEPT ![gen] = FALSE] /\ gen \in 1 .. MaxGens
        BY SMTT(60), <1>10, <1>m, <2>2 DEF Popped, FrontTypes
      <4>2. ASSUME NEW h \in 1 .. gens PROVE h \in Marks' <=> h \in Marks \ {gen}
        BY SMTT(60), <1>0, <2>0, <4>1 DEF Marks, FrontTypes
      <4>. QED
        BY Zenon, <2>0, <4>2 DEF Marks
    <3>2. Cardinality(Marks') >= Cardinality(Marks) - 1 /\ Cardinality(Marks') \in Nat
      <4>1. IsFiniteSet(Marks') /\ Cardinality(Marks') = IF gen \in Marks THEN Cardinality(Marks) - 1 ELSE Cardinality(Marks)
        BY Zenon, <1>c, <3>1, SizeRemove
      <4>2. Cardinality(Marks') \in Nat
        BY Zenon, <4>1, SizeType
      <4>. QED
        BY SMTT(60), <1>c, <4>1, <4>2
    <3>. QED
      BY SMTT(60), <1>0, <1>c, <2>0, <3>2 DEF OnceInv
  <2>. QED
    BY SMTT(60), <2>1, <2>2
<1>11. CASE Look
  <2>1. UNCHANGED <<mode, pushing, queued, gens, queue>> /\ cur # "popped" /\ cur' # "popped"
    BY <1>11 DEF Look, vars, resVars, ioVars
  <2>2. Marks' = Marks
    BY Zenon, <2>1 DEF Marks
  <2>. QED
    BY Zenon, <2>1, <2>2 DEF OnceInv
<1>12. CASE Revisit
  <2>1. Mark(Owner, gen) /\ UNCHANGED <<mode, queue, gens>> /\ cur' = "handle" /\ gen \in 1 .. MaxGens /\ gen <= gens
    BY SMTT(60), <1>12, <1>m DEF Revisit, vars, resVars, ioVars, FrontTypes
  <2>. QED
    BY SMTT(60), <1>0, <1>m, <1>k, <2>1
<1>13. CASE Handle
  <2>1. UNCHANGED <<mode, pushing, queued, gens, queue>> /\ cur # "popped" /\ cur' # "popped"
    BY Zenon, <1>13 DEF Handle, Cancel, resVars, ioVars
  <2>2. Marks' = Marks
    BY <2>1 DEF Marks
  <2>. QED
    BY <2>1, <2>2 DEF OnceInv
<1>14. CASE Acting
  <2>1. Mark(Owner, gen) /\ UNCHANGED <<mode, queue, gens>> /\ cur' = "handle" /\ gen # 0
    BY Zenon, <1>14, Acts
  <2>2. gen \in 1 .. MaxGens /\ gen <= gens
    BY SMTT(60), <1>m, <2>1 DEF FrontTypes
  <2>. QED
    BY SMTT(60), <1>0, <1>m, <1>k, <2>1, <2>2
<1>. QED
  BY Zenon, Moves, <1>1, <1>2, <1>3, <1>4, <1>5, <1>6, <1>7, <1>8, <1>9, <1>10, <1>11, <1>12, <1>13, <1>14 DEF FrontMove

\* There are at most as many marks as assignments.
LEMMA MarksBound ==
    ASSUME Counting, FrontTypes
    PROVE  Cardinality(Marks) \in Nat /\ Cardinality(Marks) <= gens /\ gens <= MaxGens
<1>1. gens \in Nat /\ gens <= MaxGens
  BY WakesAssumption DEF FrontTypes
<1>2. IsFiniteSet(1 .. gens) /\ Cardinality(1 .. gens) = gens
  BY <1>1, SizeInterval
<1>3. Marks \in SUBSET (1 .. gens)
  BY DEF Marks
<1>4. IsFiniteSet(Marks) /\ Cardinality(Marks) <= Cardinality(1 .. gens)
  BY ZenonT(60), <1>2, <1>3, SizeSubset
<1>. QED
  BY Zenon, <1>1, <1>2, <1>4, SizeType

\* Every step of the gates is a step of the queue (queue.rs) or leaves it alone: the push of a
\* name always goes through.
LEMMA QueueStep ==
    ASSUME Counting, IInv, FrontTypes, ModeInv, OnceInv, ReaderTypes, WakesNext
    PROVE  (\E t \in Tasks : Step(t)) \/ UNCHANGED vars
<1>m. Owner \in Tasks
  BY WakesAssumption
<1>1. CASE QueueMove
  BY Zenon, <1>1, Steps DEF QueueMove, Alone
<1>2. CASE ReaderMove
  BY Zenon, <1>2, ReaderMoves
<1>3. ASSUME NEW t \in Tasks, NEW r \in Resources, Change(t, r) PROVE UNCHANGED vars
  BY Zenon, <1>3 DEF Change
<1>4. ASSUME NEW t \in Tasks, NEW g \in 1 .. MaxGens, WakeTrack(t, g) PROVE UNCHANGED vars
  BY Zenon, <1>4 DEF WakeTrack
<1>5. ASSUME NEW t \in Tasks, PushName(t) PROVE Step(t)
  <2>1. t \in pushing /\ at[t] = "run" /\ Enqueue(t)
    BY <1>5 DEF PushName
  <2>2. mode = "front" /\ ~closed
    BY <2>1 DEF ModeInv
  <2>3. Cardinality(pushing) \in Nat /\ Cardinality(pushing) # 0
    <3>1. IsFiniteSet(pushing)
      BY DEF OnceInv
    <3>. QED
      BY <2>1, <3>1, SizeType
  <2>4. has_space
    <3>1. Len(queue) \in Nat
      BY DEF IInv, TypeOK
    <3>2. Len(queue) + Cardinality(pushing) + (IF cur = "popped" THEN 1 ELSE 0) <= Cardinality(Marks)
      BY <2>2 DEF OnceInv
    <3>3. Cardinality(Marks) \in Nat /\ Cardinality(Marks) <= MaxGens
      <4>1. gens \in Nat /\ MaxGens \in Nat
        BY WakesAssumption DEF FrontTypes
      <4>. QED
        BY SMTT(60), <4>1, MarksBound
    <3>4. MaxGens \in Nat /\ (Unbounded \/ MaxGens <= Capacity)
      BY WakesAssumption
    <3>5. Len(queue) < MaxGens
      BY <2>3, <3>1, <3>2, <3>3, <3>4
    <3>6. Capacity \in Nat
      BY Zenon, QueueAssumption
    <3>. QED
      BY <3>1, <3>4, <3>5, <3>6 DEF has_space
  <2>. QED
    BY Zenon, <2>1, <2>2, <2>4 DEF Step, Push
<1>6. ASSUME NEW t \in Tasks, WakeOwner(t) PROVE Step(t)
  BY Zenon, <1>6 DEF WakeOwner, Step
<1>7. ASSUME Assign \/ Forget \/ Handle PROVE Step(Owner)
  BY Zenon, <1>7 DEF Assign, Forget, Handle, Step
<1>8. CASE PopName
  BY Zenon, <1>8, <1>m, Steps DEF PopName
<1>9. CASE Popped \/ Look \/ Revisit
  BY <1>9 DEF Popped, Look, Revisit
<1>10. ASSUME Acting PROVE Step(Owner)
  BY Zenon, <1>10, Acts DEF Step
<1>. QED
  BY Zenon, Moves, <1>m, <1>1, <1>2, <1>3, <1>4, <1>5, <1>6, <1>7, <1>8, <1>9, <1>10 DEF FrontMove

\* The initial states: nothing queued, no track, no gate.
LEMMA WakesInitInv == Counting /\ WakesInit => WInv
<1>. SUFFICES ASSUME Counting, WakesInit PROVE WInv
  OBVIOUS
<1>m. MaxGens \in Nat \ {0} /\ Modes \subseteq {"queue", "front", "reader"}
  BY Zenon, WakesAssumption
<1>1. Order[1] \in Resources
  <2>1. PICK r \in Resources : TRUE
    BY Zenon, WakesAssumption
  <2>2. PICK i \in 1 .. Len(Order) : Order[i] = r
    BY Zenon, WakesAssumption
  <2>. QED
    BY <2>2, WakesAssumption
<1>2. IInv
  BY Zenon, InitInv DEF WakesInit
<1>3. FrontTypes
  <2>1. parked \in [Resources -> SUBSET Wakers] /\ owed \in [Tasks -> SUBSET Wakers]
    BY DEF WakesInit
  <2>2. queued \in [1 .. MaxGens -> BOOLEAN]
    BY Zenon DEF WakesInit
  <2>3. ver \in [Resources -> Nat] /\ seen \in [Resources -> Nat] /\ left \in Seq(Resources)
    BY SMTT(60) DEF WakesInit
  <2>5. watch \subseteq Resources
    BY Zenon DEF WakesInit
  <2>4. mode \in {"queue", "front", "reader"} /\ gens \in 0 .. MaxGens /\ gen \in 0 .. gens /\ gen = 0
    BY SMTT(60), <1>m DEF WakesInit
  <2>. QED
    BY Zenon, <2>1, <2>2, <2>3, <2>4, <2>5 DEF WakesInit, FrontTypes
<1>4. ModeInv /\ FreshInv /\ MarkInv /\ LookInv
  BY Zenon DEF WakesInit, Init, ModeInv, FreshInv, MarkInv, LookInv
<1>5. OnceInv
  <2>1. IsFiniteSet(pushing) /\ Cardinality(pushing) = 0
    BY Zenon DEF WakesInit, Counting
  <2>2. Len(queue) = 0 /\ cur # "popped"
    BY DEF WakesInit, Init
  <2>3. Cardinality(Marks) \in Nat
    BY Zenon, <1>3, MarksBound
  <2>. QED
    BY SMTT(60), <2>1, <2>2, <2>3 DEF OnceInv
<1>6. ReaderTypes
  <2>1. narrow \in BOOLEAN
    <3>1. (mode = "reader") \in BOOLEAN
      BY Zenon
    <3>. QED
      BY <3>1 DEF WakesInit
  <2>2. idle \in [read : Resources \cup {None}, woken : BOOLEAN, task : 0 .. 2]
    BY SMTT(60) DEF WakesInit
  <2>3. rd \in [at : {"poll", "start", "read", "finish"}, want : Resources, task : 1 .. 2, woken : BOOLEAN]
    BY SMTT(60), <1>1 DEF WakesInit
  <2>4. got \in [Resources -> Nat] /\ nudging \in [Tasks -> 0 .. 2]
    BY SMTT(60) DEF WakesInit
  <2>. QED
    BY Zenon, <2>1, <2>2, <2>3, <2>4 DEF ReaderTypes
<1>7. ReaderInv
  BY DEF WakesInit, ReaderInv
<1>. QED
  BY SMTT(60), <1>2, <1>3, <1>4, <1>5, <1>6, <1>7 DEF WInv, FrontInv

\* Every step keeps it.
LEMMA WakesStepInv ==
    ASSUME Counting, WInv, [WakesNext]_allVars
    PROVE  WInv'
<1>0. IInv /\ FrontTypes /\ ModeInv /\ FreshInv /\ MarkInv /\ OnceInv /\ LookInv /\ ReaderTypes /\ ReaderInv
  BY DEF WInv, FrontInv
<1>1. CASE WakesNext
  <2>1. IInv'
    BY Zenon, <1>0, <1>1, QueueStep, StepInv
  <2>2. FrontTypes' /\ ModeInv' /\ FreshInv'
    BY Zenon, <1>0, <1>1, FrontTypesStep, FreshStep
  <2>3. MarkInv' /\ OnceInv' /\ LookInv'
    BY Zenon, <1>0, <1>1, MarkStep, OnceStep, LookStep
  <2>4. ReaderTypes' /\ ReaderInv'
    BY Zenon, <1>0, <1>1, ReaderTypesStep, ReaderStep
  <2>. QED
    BY Zenon, <2>1, <2>2, <2>3, <2>4 DEF WInv, FrontInv
<1>2. CASE UNCHANGED allVars
  <2>0. UNCHANGED <<vars, mode, ver, parked, owed, pushing, queued, gen, gens, watch, seen, cur, left, idle, rd, got, narrow, nudging>>
    BY Zenon, <1>2 DEF allVars, gateVars, frontVars, ioVars, readerVars
  <2>1. IInv'
    BY Zenon, <1>0, <2>0, StepInv
  <2>2. FrontTypes' /\ ReaderTypes'
    <3>1. FrontTypes'
      BY Zenon, <1>0, <2>0 DEF FrontTypes
    <3>2. ReaderTypes'
      BY Zenon, <1>0, <2>0 DEF ReaderTypes
    <3>. QED
      BY Zenon, <3>1, <3>2
  <2>. USE <1>0, <2>0
  <2>3. Marks' = Marks
    BY DEF Marks
  <2>4. ModeInv' /\ FreshInv' /\ MarkInv' /\ OnceInv'
    BY ZenonT(60), <2>3 DEF ModeInv, FreshInv, MarkInv, OnceInv, vars
  <2>5. LookInv'
    BY ZenonT(60) DEF LookInv, Coming, Settled, vars
  <2>6. ReaderInv'
    BY Zenon DEF ReaderInv, Told, Nothing
  <2>. QED
    BY Zenon, <2>1, <2>2, <2>4, <2>5, <2>6 DEF WInv, FrontInv
<1>. QED
  BY <1>1, <1>2

\* A front that has not handled a change has the name queued, or about to be.
LEMMA StrandFree == WInv => NeverStranded
<1>. SUFFICES ASSUME WInv, mode = "front", cur = "loop", gen # 0, News
              PROVE  queue # <<>> \/ pushing # {} \/ \E t \in Tasks : Track(gen) \in owed[t]
  BY DEF NeverStranded
<1>. QED
  BY Zenon DEF News, WInv, FrontInv, LookInv, Coming, Settled

\* There are no more names than marks, and no more marks than assignments.
LEMMA OnceBound == Counting /\ WInv => QueuedOnce
<1>. SUFFICES ASSUME Counting, WInv, mode = "front" PROVE Len(queue) + Cardinality(pushing) <= gens
  BY DEF QueuedOnce
<1>1. Len(queue) \in Nat /\ gens \in Nat /\ FrontTypes
  <2>1. queue \in Seq(Nat) /\ FrontTypes /\ gens \in 0 .. MaxGens /\ MaxGens \in Nat
    BY Zenon, WakesAssumption DEF WInv, IInv, TypeOK, FrontInv, FrontTypes
  <2>. QED
    BY <2>1
<1>2. /\ Len(queue) + Cardinality(pushing) + (IF cur = "popped" THEN 1 ELSE 0) <= Cardinality(Marks)
      /\ IsFiniteSet(pushing)
  BY Zenon DEF WInv, FrontInv, OnceInv
<1>3. Cardinality(pushing) \in Nat
  BY Zenon, <1>2, SizeType
<1>4. Cardinality(Marks) \in Nat /\ Cardinality(Marks) <= gens
  BY Zenon, <1>1, MarksBound
<1>. QED
  BY <1>1, <1>2, <1>3, <1>4

\* A sleeping reader has nothing to read, or a wake on its way.
LEMMA ReadCovered == WInv => NoLostRead
<1>. SUFFICES ASSUME WInv, rd.at = "poll", ~rd.woken, Readable
              PROVE  \E t \in Tasks : Gate(rd.task) \in owed[t] \/ nudging[t] = rd.task
  BY Zenon DEF NoLostRead
<1>1. idle.task = rd.task /\ idle.read = rd.want /\ rd.want # None
  BY Zenon, WakesAssumption DEF WInv, ReaderTypes, ReaderInv
<1>2. ~Nothing(rd.want)
  BY Zenon DEF Nothing, Readable
<1>3. idle.woken \/ Told(rd.task)
  BY <1>1, <1>2 DEF WInv, ReaderInv
<1>. QED
  BY Zenon, <1>1, <1>3 DEF WInv, ReaderInv, Told

-----------------------------------------------------------------------------
(* The theorems, with the library's facts about finite sets.               *)

INSTANCE FiniteSetTheorems

\* The sizes of finite sets.
LEMMA Counts == Counting
<1>1. IsFiniteSet({}) /\ Cardinality({}) = 0
  BY Zenon, FS_EmptySet
<1>2. ASSUME NEW n \in Nat PROVE IsFiniteSet(1 .. n) /\ Cardinality(1 .. n) = n
  BY FS_Interval
<1>3. ASSUME NEW S, IsFiniteSet(S)
      PROVE  /\ Cardinality(S) \in Nat /\ (Cardinality(S) = 0 => S = {})
             /\ \A T \in SUBSET S : IsFiniteSet(T) /\ Cardinality(T) <= Cardinality(S)
  BY Zenon, <1>3, FS_CardinalityType, FS_EmptySet, FS_Subset
<1>4. ASSUME NEW S, IsFiniteSet(S), NEW x
      PROVE  /\ IsFiniteSet(S \cup {x})
             /\ Cardinality(S \cup {x}) = IF x \in S THEN Cardinality(S) ELSE Cardinality(S) + 1
             /\ IsFiniteSet(S \ {x})
             /\ Cardinality(S \ {x}) = IF x \in S THEN Cardinality(S) - 1 ELSE Cardinality(S)
  BY Zenon, <1>4, FS_AddElement, FS_RemoveElement
<1>. QED
  BY Zenon, <1>1, <1>2, <1>3, <1>4 DEF Counting

\* The inductive invariant of the gates.
THEOREM WakesInvariance == WakesSpec => []WInv
<1>1. WakesInit => WInv
  BY Zenon, Counts, WakesInitInv
<1>2. WInv /\ [WakesNext]_allVars => WInv'
  BY Zenon, Counts, WakesStepInv
<1>. QED
  BY <1>1, <1>2, PTL DEF WakesSpec

\* The queue keeps what it promises under the gates too: a parked task is woken, the names
\* come out in order, and a bounded queue is never over its capacity (kio queue.rs).
THEOREM GateQueueSafety == WakesSpec => [](TypeOK /\ NoLostWakeup /\ Orderly)
<1>1. WInv => TypeOK /\ NoLostWakeup /\ Orderly
  BY Zenon DEF WInv, IInv, Orderly
<1>. QED
  BY <1>1, WakesInvariance, PTL

\* A front between two passes never sits on a change it has not handled (model/origin.rs, the
\* ready loop), whatever queries and copies the track was given or lost since it was looked at:
\* the track's name is queued, or about to be.
THEOREM StrandSafety == WakesSpec => []NeverStranded
<1>1. WInv => NeverStranded
  BY Zenon, StrandFree
<1>. QED
  BY <1>1, WakesInvariance, PTL

\* A burst of wakes queues a name once (util/wake.rs QueueWake::wake_by_ref).
THEOREM OnceSafety == WakesSpec => []QueuedOnce
<1>1. WInv => QueuedOnce
  BY Zenon, Counts, OnceBound
<1>. QED
  BY <1>1, WakesInvariance, PTL

\* A reader that sleeps behind its gate has nothing to read, or a wake on its way
\* (util/idle.rs Idle::start, finish and Woken::wake_by_ref).
THEOREM ReadSafety == WakesSpec => []NoLostRead
<1>1. WInv => NoLostRead
  BY ReadCovered
<1>. QED
  BY <1>1, WakesInvariance, PTL

=============================================================================
