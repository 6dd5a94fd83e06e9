--------------------------- MODULE ChannelProofs ---------------------------
(***************************************************************************)
(* The inductive invariant of Channel, and what follows from it: the       *)
(* properties hold for any number of processes, tasks, waiters and         *)
(* publishes.  Each part of the invariant has a lemma, with a step for     *)
(* each action; the parts build on each other in the order they are in.    *)
(***************************************************************************)
EXTENDS Channel, TLAPS

-----------------------------------------------------------------------------
(* The inductive invariant, in parts.                                      *)

\* Who is where holds which lock, and only a drain has waiters to wake.
LockInv ==
    \A p \in Procs :
        /\ pc[p] \in {"reading", "locked", "published"} <=> vlock = p
        /\ pc[p] \in {"sync", "check", "closed2", "wakesync"} <=> wlock = p
        /\ pc[p] \notin {"wakesync", "waking"} => taken[p] = {}

\* A Mut exists on an open channel only, and what was seen of the version is not ahead of
\* it.
VersionInv ==
    /\ version <= MaxVersion
    /\ \A p \in Procs :
          /\ pc[p] = "locked" => ~is_closed
          /\ seen[p] <= version
          /\ judged[p] = UNJUDGED \/ judged[p] <= version

\* Each process is where its kind can be, and each task has a waiter of its own.
KindInv ==
    /\ \A p \in Procs :
          /\ pc[p] \in {"repoll", "retag", "judge", "park", "parkver", "register", "sync", "check"}
                => p \in ValueTasks
          /\ pc[p] \in {"closed1", "closedreg", "closed2"} => p \in ClosedTasks
          /\ pc[p] \in {"wanted1", "wanted1count", "wantedreg", "wanted2", "wanted2count"}
                => Kind[p] = "wanted"
          /\ pc[p] \in WritePCs => Kind[p] \in {"write", "produce"}
          /\ pc[p] = "ready" => p \in Tasks
          /\ waiter[p] = NoWaiter <=> p \notin Tasks
    /\ \A t, u \in Tasks : waiter[t] = waiter[u] => t = u

\* Tags only move forward: the list's is of the last serial drawn and ahead of every
\* record, and a live waiter with a record of it is in the list.
TagInv ==
    /\ tag.serial = 0 => tag = NoTag
    /\ tag # NoTag => tag.serial = serials
    /\ \A w \in Waiters :
          /\ record[w].serial = 0 => record[w] = NoTag
          /\ record[w].serial <= serials
          /\ tag # NoTag /\ record[w].serial = tag.serial => record[w].round <= tag.round
          /\ Live(w) /\ tag # NoTag /\ record[w] = tag => w \in list["value"]

\* The mirror is the tag, but for the moment between the change and sync_tag.
MirrorInv ==
    /\ (\A p \in Procs : pc[p] \notin {"sync", "wakesync"}) => value_tag = tag
    /\ \A p \in Procs :
          /\ pc[p] = "sync" => value_tag = tag \/ value_tag = NoTag
          /\ pc[p] = "wakesync" =>
                \A w \in Waiters :
                    Live(w) /\ value_tag # NoTag /\ record[w] = value_tag => w \in taken[p]

\* A task that stays parked is on the list or being woken, and once the version moves a
\* drain that finds it is due.
Parking(t) == pc[t] \in {"retag", "park", "parkver"} \/ Asleep(t)

SleepOK(t) ==
    /\ pc[t] \in {"sync", "check"} => waiter[t] \in list["value"]
    /\ pc[t] = "parkver" \/ Asleep(t) => woken[t] \/ Taken(t) \/ waiter[t] \in list["value"]
    /\ Parking(t) /\ waiter[t] \in list["value"] /\ version # seen[t] => Draining(FALSE)

SleepInv == \A t \in ValueTasks : SleepOK(t)

\* What a pending predicate was judged at stays unsatisfied while the version stands.
JudgeInv ==
    \A t \in ValueTasks :
        /\ (Parking(t) \/ pc[t] \in {"register", "sync", "check"}) /\ seen[t] = version
              => value \notin Target[t] /\ ~is_closed
        /\ judged[t] = version => value \notin Target[t] /\ ~is_closed

\* The same for the tasks waiting for the closure.
CloseInv ==
    \A t \in ClosedTasks :
        /\ pc[t] = "closed2" => waiter[t] \in list["closed"]
        /\ Asleep(t) => Taken(t) \/ waiter[t] \in list["closed"]
        /\ Asleep(t) /\ waiter[t] \in list["closed"] /\ is_closed => Draining(TRUE)

\* A task waiting for the closure is on no other list, and only a closure takes it off
\* that one.
ApartInv ==
    /\ \A p \in Procs : closing[p] => is_closed
    /\ \A t \in ClosedTasks :
          /\ waiter[t] \notin list["value"] \cup list["consumer"]
          /\ Taken(t) => is_closed

IInv ==
    /\ TypeOK /\ LockInv /\ VersionInv /\ KindInv /\ TagInv
    /\ MirrorInv /\ SleepInv /\ JudgeInv /\ CloseInv /\ ApartInv

-----------------------------------------------------------------------------
(* What the steps have in common.                                          *)

\* A step of p leaves the others where they are.
Alone(p) ==
    /\ pc' = [q \in Procs |-> pc'[q]]
    /\ \A q \in Procs : q # p => pc'[q] = pc[q]

VPCs == {"reading", "locked", "published"}
WPCs == {"sync", "check", "closed2", "wakesync"}
DrainPCs == {"wakesync", "waking"}

\* The steps of a poll that only look at the channel.
Looks(p) ==
    \/ Repoll(p) \/ RepollTag(p) \/ Judge(p) \/ Park(p) \/ ParkVersion(p) \/ PollClosed(p)
    \/ WantedClosed(p) \/ \E changed \in BOOLEAN : WantedCount(p, changed)

\* The steps of a guard that publish nothing.
Guards(p) == Read(p) \/ Write(p) \/ DropGuard(p) \/ Unlock(p)

\* The steps that publish.
Publishes(p) == Close(p) \/ \E v \in Values, close \in BOOLEAN : Publish(p, v, close)

\* Where a step goes.
LEMMA GotoAlone ==
    ASSUME TypeOK, NEW p \in Procs, NEW at, Goto(p, at)
    PROVE  pc'[p] = at /\ Alone(p)
BY Zenon DEF TypeOK, Goto, Alone

\* Every step is of one of these.
LEMMA Steps ==
    ASSUME [Next]_vars, ~UNCHANGED vars
    PROVE  \E p \in Procs :
             \/ Begin(p) \/ Looks(p) \/ Register(p) \/ Sync(p) \/ Check(p) \/ Reset(p) \/ Again(p)
             \/ PollClosedRegister(p) \/ PollClosedRecheck(p) \/ WantedRegister(p)
             \/ Guards(p) \/ Publishes(p)
             \/ WakeTake(p) \/ WakeSync(p) \/ WakeOne(p) \/ WakeDone(p) \/ WakeConsumer(p)
BY Zenon DEF Next, ValueStep, DemandStep, Poll, Wake, Start, PollAgain, Looks, Guards, Publishes

\* A look changes nothing but what the task saw, and takes the value lock at most, of an
\* open channel.
LEMMA LookEffect ==
    ASSUME TypeOK, NEW p \in Procs, Looks(p)
    PROVE  /\ UNCHANGED <<value, version, wlock, list, tag, serials, record, value_tag, waiter, woken, closing, taken>>
           /\ pc[p] \in {"repoll", "retag", "judge", "park", "parkver", "closed1",
                         "wanted1", "wanted2", "wanted1count", "wanted2count"}
           /\ pc'[p] \in {"idle", "ready", "locked", "judge", "retag", "park", "parkver", "register",
                          "closedreg", "wanted1count", "wanted2count", "wantedreg"}
           /\ Alone(p)
           /\ \/ vlock' = vlock /\ pc'[p] # "locked"
              \/ vlock = Nobody /\ vlock' = p /\ pc'[p] = "locked" /\ ~is_closed /\ Kind[p] = "produce"
           /\ seen' = seen \/ seen' = [seen EXCEPT ![p] = version]
           /\ judged' = judged \/ judged' = [judged EXCEPT ![p] = version]
<1>1. UNCHANGED <<value, version, wlock, list, tag, serials, record, value_tag, waiter, woken, closing, taken>>
  BY Zenon DEF Looks, Repoll, RepollTag, Judge, Park, ParkVersion, PollClosed, WantedClosed, WantedCount,
     lockVars, listVars, taskVars, wakeVars
<1>2. pc[p] \in {"repoll", "retag", "judge", "park", "parkver", "closed1",
                 "wanted1", "wanted2", "wanted1count", "wanted2count"}
  BY Zenon DEF Looks, Repoll, RepollTag, Judge, Park, ParkVersion, PollClosed, WantedClosed, WantedCount
<1>3. \/ vlock' = vlock /\ \E at \in {"idle", "ready", "judge", "retag", "park", "parkver", "register",
                 "closedreg", "wanted1count", "wanted2count", "wantedreg"} : Goto(p, at)
      \/ vlock = Nobody /\ vlock' = p /\ Goto(p, "locked") /\ ~is_closed /\ Kind[p] = "produce"
  BY Zenon DEF Looks, Repoll, RepollTag, Judge, Park, ParkVersion, PollClosed, WantedClosed, WantedCount, lockVars
<1>4. /\ seen' = seen \/ seen' = [seen EXCEPT ![p] = version]
      /\ judged' = judged \/ judged' = [judged EXCEPT ![p] = version]
  BY Zenon DEF Looks, Repoll, RepollTag, Judge, Park, ParkVersion, PollClosed, WantedClosed, WantedCount, taskVars
<1>. QED
  BY Zenon, <1>1, <1>2, <1>3, <1>4, GotoAlone

\* A guard that publishes nothing changes the value lock.
LEMMA GuardEffect ==
    ASSUME TypeOK, NEW p \in Procs, Guards(p)
    PROVE  /\ UNCHANGED <<value, version, wlock, list, tag, serials, record, value_tag, waiter, woken, seen,
                          judged, closing, taken>>
           /\ \/ Kind[p] = "write" /\ pc[p] = "idle" /\ pc'[p] = "reading" /\ vlock = Nobody /\ vlock' = p
              \/ pc[p] = "reading" /\ ~is_closed /\ pc'[p] = "locked" /\ vlock' = vlock
              \/ pc[p] \in {"reading", "locked"} /\ pc'[p] = (IF Kind[p] = "write" THEN "idle" ELSE "ready")
                 /\ vlock' = Nobody
              \/ pc[p] = "published" /\ pc'[p] = "unlocked" /\ vlock' = Nobody
           /\ Alone(p)
<1>1. UNCHANGED <<value, version, wlock, list, tag, serials, record, value_tag, waiter, woken, seen, judged,
                  closing, taken>>
  BY Zenon DEF Guards, Read, Write, DropGuard, Unlock, lockVars, listVars, taskVars, wakeVars
<1>2. \/ Kind[p] = "write" /\ pc[p] = "idle" /\ Goto(p, "reading") /\ vlock = Nobody /\ vlock' = p
      \/ pc[p] = "reading" /\ ~is_closed /\ Goto(p, "locked") /\ vlock' = vlock
      \/ pc[p] \in {"reading", "locked"} /\ Goto(p, IF Kind[p] = "write" THEN "idle" ELSE "ready") /\ vlock' = Nobody
      \/ pc[p] = "published" /\ Goto(p, "unlocked") /\ vlock' = Nobody
  BY Zenon DEF Guards, Read, Write, DropGuard, Unlock, Leave, lockVars
<1>. QED
  BY Zenon, <1>1, <1>2, GotoAlone

\* A publish moves the version, from an open one, and leaves the lists to the drain.
LEMMA PublishEffect ==
    ASSUME TypeOK, VersionInv, NEW p \in Procs, Publishes(p)
    PROVE  /\ UNCHANGED <<vlock, wlock, list, tag, serials, record, value_tag, waiter, woken, seen, judged, taken>>
           /\ pc[p] \in {"reading", "locked"} /\ pc'[p] = "published" /\ Alone(p)
           /\ ~is_closed /\ version' > version /\ version' \in Nat /\ version' <= MaxVersion
           /\ value' \in Values /\ closing'[p] \in BOOLEAN /\ (is_closed' <=> closing'[p])
           /\ closing' = [closing EXCEPT ![p] = closing'[p]]
<1>1. UNCHANGED <<vlock, wlock, list, tag, serials, record, value_tag, waiter, woken, seen, judged, taken>>
  BY Zenon DEF Publishes, Publish, Close, lockVars, listVars, taskVars, wakeVars
<1>2. pc[p] \in {"reading", "locked"} /\ Goto(p, "published") /\ ~is_closed
  BY Zenon DEF Publishes, Publish, Close, VersionInv
<1>3. \E close \in BOOLEAN :
          /\ version' = version + STEP + (IF close THEN CLOSED ELSE 0)
          /\ version' <= MaxVersion
          /\ closing' = [closing EXCEPT ![p] = close]
          /\ value' \in Values
  <2>1. CASE Close(p)
    BY Zenon, <2>1 DEF Close, publish, TypeOK
  <2>2. ASSUME NEW v \in Values, NEW close \in BOOLEAN, Publish(p, v, close)
        PROVE  /\ version' = version + STEP + (IF close THEN CLOSED ELSE 0)
               /\ version' <= MaxVersion
               /\ closing' = [closing EXCEPT ![p] = close]
               /\ value' \in Values
    <3>1. /\ version' = version + STEP + (IF close THEN CLOSED ELSE 0)
          /\ version + STEP + CLOSED + (IF close THEN 0 ELSE STEP) <= MaxVersion
          /\ closing' = [closing EXCEPT ![p] = close] /\ value' = v /\ version \in Nat
      BY Zenon, <2>2 DEF Publish, publish, TypeOK
    <3>. QED
      BY <3>1, ChannelAssumption DEF STEP, CLOSED
  <2>. QED
    BY Zenon, <2>1, <2>2 DEF Publishes
<1>4. PICK close \in BOOLEAN :
          /\ version' = version + STEP + (IF close THEN CLOSED ELSE 0)
          /\ version' <= MaxVersion
          /\ closing' = [closing EXCEPT ![p] = close]
          /\ value' \in Values
  BY Zenon, <1>3
<1>5. version \in Nat /\ closing \in [Procs -> BOOLEAN]
  BY Zenon DEF TypeOK
<1>6. version' > version /\ version' \in Nat /\ (is_closed' <=> close)
  BY <1>2, <1>4, <1>5 DEF STEP, CLOSED, is_closed
<1>7. closing'[p] = close
  BY Zenon, <1>4, <1>5
<1>. QED
  BY Zenon, <1>1, <1>2, <1>4, <1>6, <1>7, GotoAlone

-----------------------------------------------------------------------------
(* One lemma for each part, one step for each action.                      *)

\* Where the poll of each kind of task begins.
LEMMA FirstSteps ==
    \A t \in Tasks :
        /\ FirstStep[Kind[t]] \in {"judge", "repoll", "closed1", "wanted1"}
        /\ FirstStep[Kind[t]] \in {"judge", "repoll"} => t \in ValueTasks
        /\ FirstStep[Kind[t]] = "closed1" => t \in ClosedTasks
        /\ FirstStep[Kind[t]] = "wanted1" => Kind[t] = "wanted"
  BY ChannelAssumption DEF Tasks, Kinds, FirstStep, ValueTasks, ClosedTasks

\* A drain leaves a tag of the list: the round wraps before it runs out of bits.
LEMMA DrainedTag == TypeOK => drained \in Tags
<1> SUFFICES ASSUME TypeOK PROVE drained \in Tags
  OBVIOUS
<1>1. CASE drained = tag
  BY <1>1 DEF TypeOK
<1>2. CASE drained = NoTag
  BY <1>2, ChannelAssumption DEF NoTag, Tags
<1>3. CASE drained = [serial |-> tag.serial, round |-> tag.round + 1] /\ tag.round + 1 # Rounds
  <2>1. tag.serial \in Nat /\ tag.round \in 0 .. Rounds - 1
    BY DEF TypeOK, Tags
  <2>2. tag.round + 1 \in 0 .. Rounds - 1
    BY <1>3, <2>1, ChannelAssumption
  <2> QED
    BY <1>3, <2>1, <2>2 DEF Tags
<1> QED
  BY <1>1, <1>2, <1>3 DEF drained

\* Waking an entry loses no other one.
LEMMA WakeOneWakes ==
    ASSUME TypeOK, NEW p \in Procs, WakeOne(p)
    PROVE  \A t \in Procs : /\ Taken(t) => Taken(t)' \/ woken'[t]
                            /\ woken[t] => woken'[t]
                            /\ Asleep(t)' => Asleep(t)
<1>1. PICK w \in taken[p] : /\ taken' = [taken EXCEPT ![p] = @ \ {w}]
                            /\ woken' = [t \in Procs |-> woken[t] \/ waiter[t] = w]
  BY Zenon DEF WakeOne
<1>2. UNCHANGED <<waiter, pc>>
  BY DEF WakeOne
<1> QED
  BY Zenon, <1>1, <1>2, Zenon DEF TypeOK, Taken, Asleep

\* A polling task holds a waiter.
LEMMA TaskWaiter ==
    TypeOK /\ KindInv => \A p \in Procs : pc[p] \in PollPCs => waiter[p] \in Waiters
  BY DEF TypeOK, KindInv, PollPCs, ValueTasks, ClosedTasks, Tasks

\* A poll begins with the waiter of the last one or with one that nothing refers to.
LEMMA BeginEffect ==
    ASSUME TypeOK, KindInv, NEW p \in Procs, Begin(p)
    PROVE  /\ UNCHANGED <<value, version, vlock, wlock, list, tag, serials, value_tag, seen, judged, closing, taken>>
           /\ p \in Tasks /\ pc[p] = "idle" /\ pc'[p] = FirstStep[Kind[p]] /\ Alone(p)
           /\ pc'[p] \in {"judge", "repoll", "closed1", "wanted1"}
           /\ woken' = [woken EXCEPT ![p] = FALSE]
           /\ waiter'[p] \in Waiters /\ waiter' = [waiter EXCEPT ![p] = waiter'[p]]
           /\ UNCHANGED <<waiter, record>> \/ Renew(p, waiter'[p])
           /\ \A q \in Tasks : q # p => waiter'[q] = waiter[q] /\ waiter'[p] # waiter[q]
           /\ record' \in [Waiters -> Tags]
           /\ \A x \in Waiters : record'[x] = record[x] \/ (x = waiter'[p] /\ record'[x] = NoTag)
<1>1. UNCHANGED <<value, version, vlock, wlock, list, tag, serials, value_tag, seen, judged, closing, taken>>
  BY Zenon DEF Begin, lockVars, wakeVars
<1>2. p \in Tasks /\ pc[p] = "idle" /\ Goto(p, FirstStep[Kind[p]]) /\ woken' = [woken EXCEPT ![p] = FALSE]
  BY Zenon DEF Begin
<1>3. waiter \in [Procs -> Waiters \cup {NoWaiter}] /\ record \in [Waiters -> Tags]
  BY Zenon DEF TypeOK
<1>4. NoTag \in Tags
  BY ChannelAssumption DEF NoTag, Tags
<1>5. waiter[p] \in Waiters
  BY Zenon, <1>2, <1>3 DEF KindInv
<1>6. /\ waiter'[p] \in Waiters /\ waiter' = [waiter EXCEPT ![p] = waiter'[p]]
      /\ UNCHANGED <<waiter, record>> \/ Renew(p, waiter'[p])
  <2>1. CASE UNCHANGED <<waiter, record>>
    BY Zenon, <1>3, <1>5, <2>1
  <2>2. ASSUME NEW w \in Waiters, Renew(p, w)
        PROVE  waiter'[p] = w /\ waiter' = [waiter EXCEPT ![p] = w]
    BY Zenon, <1>3, <2>2 DEF Renew
  <2>. QED
    BY Zenon, <2>1, <2>2 DEF Begin
<1>7. ASSUME NEW q \in Tasks, q # p PROVE waiter'[q] = waiter[q] /\ waiter'[p] # waiter[q]
  <2>1. q \in Procs \ {p}
    BY <1>7 DEF Tasks
  <2>2. waiter'[q] = waiter[q] /\ waiter[p] # waiter[q]
    BY Zenon, <1>2, <1>3, <1>6, <1>7, <2>1 DEF KindInv
  <2>. QED
    BY Zenon, <1>6, <2>1, <2>2 DEF Renew
<1>8. /\ record' \in [Waiters -> Tags]
      /\ \A x \in Waiters : record'[x] = record[x] \/ (x = waiter'[p] /\ record'[x] = NoTag)
  BY Zenon, <1>3, <1>4, <1>6 DEF Renew
<1>9. FirstStep[Kind[p]] \in {"judge", "repoll", "closed1", "wanted1"}
  BY Zenon, <1>2, FirstSteps
<1>. QED
  BY Zenon, <1>1, <1>2, <1>6, <1>7, <1>8, <1>9, GotoAlone

\* A registration leaves the live entries of its list, and the other lists, alone.
Grows(p, l) ==
    /\ \A m \in Lists : m # l => list'[m] = list[m]
    /\ \A q \in Procs : waiter[q] \in list[l] => waiter[q] \in list'[l]
    /\ \A w : w \in list'[l] => w \in list[l] \/ w = waiter[p]

\* Joining a list is such a registration (WaiterList::register), under the lock.
LEMMA JoinGrows ==
    ASSUME TypeOK, NEW p \in Procs, NEW l \in Lists, Join(p, l)
    PROVE  wlock = Nobody /\ Grows(p, l) /\ waiter[p] \in list'[l]
<1>1. PICK gone \in SUBSET list[l] : Reclaim(l, gone) /\ list' = [list EXCEPT ![l] = (list[l] \ gone) \cup {waiter[p]}]
  BY Zenon DEF Join
<1>2. list'[l] = (list[l] \ gone) \cup {waiter[p]} /\ \A m \in Lists : m # l => list'[m] = list[m]
  BY Zenon, <1>1 DEF TypeOK
<1>3. \A q \in Procs : waiter[q] \notin gone
  BY Zenon, <1>1 DEF Reclaim, Live
<1>. QED
  BY Zenon, <1>2, <1>3 DEF Grows, Join

\* A registration for the value, under a tag of the list.
LEMMA RegisterEffect ==
    ASSUME TypeOK, NEW p \in Procs, Register(p)
    PROVE  /\ UNCHANGED <<value, version, vlock, value_tag, waiter, woken, seen, judged, closing, taken>>
           /\ pc[p] = "register" /\ pc'[p] = "sync" /\ Alone(p)
           /\ wlock = Nobody /\ wlock' = p /\ Grows(p, "value")
           /\ record[waiter[p]] = tag' => UNCHANGED <<list, record>>
           /\ record[waiter[p]] # tag' => waiter[p] \in list'["value"]
           /\ tag = NoTag => tag' = [serial |-> serials + 1, round |-> 0] /\ serials' = serials + 1
           /\ tag # NoTag => tag' = tag /\ serials' = serials
           /\ record' = record \/ record' = [record EXCEPT ![waiter[p]] = tag']
<1>1. UNCHANGED <<value, version, vlock, value_tag, waiter, woken, seen, judged, closing, taken>>
  BY Zenon DEF Register, taskVars, wakeVars
<1>2. pc[p] = "register" /\ Goto(p, "sync") /\ wlock = Nobody /\ wlock' = p
  BY Zenon DEF Register
<1>3. "value" \in Lists
  BY DEF Lists
<1>4. record[waiter[p]] = tag' => UNCHANGED <<list, record>>
  BY Zenon DEF Register
<1>5. ASSUME record[waiter[p]] # tag' PROVE Join(p, "value")
  BY Zenon, <1>5 DEF Register, Join
<1>6. Grows(p, "value") /\ (record[waiter[p]] # tag' => waiter[p] \in list'["value"])
  BY Zenon, <1>3, <1>4, <1>5, JoinGrows DEF Grows
<1>7. /\ tag = NoTag => tag' = [serial |-> serials + 1, round |-> 0] /\ serials' = serials + 1
      /\ tag # NoTag => tag' = tag /\ serials' = serials
      /\ record' = record \/ record' = [record EXCEPT ![waiter[p]] = tag']
  BY Zenon DEF Register
<1>. QED
  BY Zenon, <1>1, <1>2, <1>4, <1>6, <1>7, GotoAlone

\* A registration for the closure or the demand.
LEMMA JoinEffect ==
    ASSUME TypeOK, NEW p \in Procs, PollClosedRegister(p) \/ WantedRegister(p)
    PROVE  /\ UNCHANGED <<value, version, vlock, tag, serials, record, value_tag, waiter, woken, seen, judged,
                          closing, taken>>
           /\ wlock = Nobody /\ Alone(p)
           /\ \/ pc[p] = "closedreg" /\ pc'[p] = "closed2" /\ wlock' = p
                 /\ Grows(p, "closed") /\ waiter[p] \in list'["closed"]
              \/ pc[p] = "wantedreg" /\ pc'[p] = "wanted2" /\ wlock' = wlock
                 /\ Grows(p, "consumer") /\ waiter[p] \in list'["consumer"]
<1>1. UNCHANGED <<value, version, vlock, tag, serials, record, value_tag, waiter, woken, seen, judged, closing, taken>>
  BY Zenon DEF PollClosedRegister, WantedRegister, lockVars, taskVars, wakeVars
<1>2. \/ pc[p] = "closedreg" /\ Goto(p, "closed2") /\ wlock' = p /\ Join(p, "closed")
      \/ pc[p] = "wantedreg" /\ Goto(p, "wanted2") /\ wlock' = wlock /\ Join(p, "consumer")
  BY Zenon DEF PollClosedRegister, WantedRegister, lockVars
<1>3. "closed" \in Lists /\ "consumer" \in Lists
  BY DEF Lists
<1>. QED
  BY Zenon, <1>1, <1>2, <1>3, JoinGrows, GotoAlone

\* The ends of a poll, and the mirror a registration moves.
LEMMA SyncEffect ==
    ASSUME TypeOK, NEW p \in Procs, Sync(p)
    PROVE  /\ UNCHANGED <<value, version, vlock, wlock, list, tag, serials, record, waiter, woken, seen, judged,
                          closing, taken>>
           /\ pc[p] = "sync" /\ pc'[p] = "check" /\ Alone(p) /\ value_tag' = tag
BY Zenon, GotoAlone DEF Sync, lockVars, listVars, taskVars, wakeVars

\* A registration ends with a look at the version: if it moved the task polls again.
LEMMA CheckEffect ==
    ASSUME TypeOK, NEW p \in Procs, Check(p)
    PROVE  /\ UNCHANGED <<value, version, vlock, list, tag, serials, record, value_tag, waiter, seen, judged,
                          closing, taken>>
           /\ pc[p] = "check" /\ pc'[p] = "idle" /\ Alone(p) /\ wlock' = Nobody
           /\ woken' = [woken EXCEPT ![p] = woken[p] \/ version # seen[p]]
BY Zenon, GotoAlone DEF Check, listVars, wakeVars

\* A watch forgets what it judged and is polled again at once.
LEMMA ResetEffect ==
    ASSUME NEW p \in Procs, Reset(p)
    PROVE  /\ UNCHANGED <<value, version, vlock, wlock, list, tag, serials, record, value_tag, waiter, woken, seen,
                          closing, taken, pc>>
           /\ pc[p] = "ready" /\ judged' = [judged EXCEPT ![p] = UNJUDGED]
BY Zenon DEF Reset, lockVars, listVars, wakeVars

\* A task that was ready may poll again.
LEMMA AgainEffect ==
    ASSUME TypeOK, NEW p \in Procs, Again(p)
    PROVE  /\ UNCHANGED <<value, version, vlock, wlock, list, tag, serials, record, value_tag, waiter, seen, judged,
                          closing, taken>>
           /\ pc[p] = "ready" /\ pc'[p] = "idle" /\ Alone(p)
           /\ woken' = [woken EXCEPT ![p] = TRUE]
BY Zenon, GotoAlone DEF Again, lockVars, listVars, wakeVars

\* poll_closed looks at the version again before it gives the waiters lock back.
LEMMA RecheckEffect ==
    ASSUME TypeOK, NEW p \in Procs, PollClosedRecheck(p)
    PROVE  /\ UNCHANGED <<value, version, vlock, list, tag, serials, record, value_tag, waiter, woken, seen, judged,
                          closing, taken>>
           /\ pc[p] = "closed2" /\ pc'[p] = (IF is_closed THEN "ready" ELSE "idle") /\ Alone(p)
           /\ wlock' = Nobody
BY Zenon, GotoAlone DEF PollClosedRecheck, listVars, taskVars, wakeVars

\* A drain takes the entries of the value list, of all lists when it closes; it leaves dead
\* ones only.
LEMMA TakeEffect ==
    ASSUME TypeOK, LockInv, NEW p \in Procs, WakeTake(p)
    PROVE  /\ UNCHANGED <<value, version, vlock, serials, record, value_tag, waiter, woken, seen, judged, closing>>
           /\ pc[p] = "unlocked" /\ pc'[p] = "wakesync" /\ Alone(p)
           /\ wlock = Nobody /\ wlock' = p /\ tag' = drained
           /\ list'["value"] = {}
           /\ \A l \in Lists : list'[l] = list[l] \/ list'[l] = {}
           /\ closing[p] => \A l \in Lists : list'[l] = {} /\ list[l] \subseteq taken'[p]
           /\ ~closing[p] => /\ \A l \in Lists : l # "value" => list'[l] = list[l]
                             /\ taken'[p] \subseteq list["value"]
           /\ taken[p] = {} /\ \A q \in Procs : q # p => taken'[q] = taken[q]
           /\ \A q \in Procs : waiter[q] \in list["value"] => waiter[q] \in taken'[p]
<1>1. UNCHANGED <<value, version, vlock, serials, record, value_tag, waiter, woken, seen, judged, closing>>
  BY Zenon DEF WakeTake, taskVars
<1>2. pc[p] = "unlocked" /\ Goto(p, "wakesync") /\ wlock = Nobody /\ wlock' = p /\ tag' = drained
  BY Zenon DEF WakeTake
<1>3. "value" \in Lists /\ taken[p] = {}
  BY Zenon, <1>2 DEF Lists, LockInv
<1>4. list \in [Lists -> SUBSET Waiters] /\ taken \in [Procs -> SUBSET Waiters]
  BY Zenon DEF TypeOK
<1>5. CASE ~closing[p] /\ (\A w \in list["value"] : ~Live(w)) /\ list' = [list EXCEPT !["value"] = {}] /\ UNCHANGED taken
  <2>1. list'["value"] = {} /\ \A l \in Lists : l # "value" => list'[l] = list[l]
    BY Zenon, <1>3, <1>4, <1>5
  <2>2. \A q \in Procs : waiter[q] \notin list["value"]
    BY Zenon, <1>5 DEF Live
  <2>3. taken'[p] = {}
    BY Zenon, <1>3, <1>5
  <2>. QED
    BY Zenon, <1>1, <1>2, <1>3, <1>5, <2>1, <2>2, <2>3, GotoAlone
<1>6. CASE closing[p] /\ list' = [l \in Lists |-> IF l \in Lists THEN {} ELSE list[l]]
                      /\ taken' = [taken EXCEPT ![p] = UNION {list[l] : l \in Lists}]
  <2>1. \A l \in Lists : list'[l] = {}
    BY Zenon, <1>6
  <2>2. taken'[p] = UNION {list[l] : l \in Lists} /\ \A q \in Procs : q # p => taken'[q] = taken[q]
    BY Zenon, <1>4, <1>6
  <2>3. \A l \in Lists : list[l] \subseteq taken'[p]
    BY Zenon, <2>2
  <2>. QED
    BY Zenon, <1>1, <1>2, <1>3, <1>6, <2>1, <2>2, <2>3, GotoAlone
<1>7. CASE ~closing[p] /\ list' = [l \in Lists |-> IF l \in {"value"} THEN {} ELSE list[l]]
                       /\ taken' = [taken EXCEPT ![p] = UNION {list[l] : l \in {"value"}}]
  <2>1. list'["value"] = {} /\ \A l \in Lists : l # "value" => list'[l] = list[l]
    BY Zenon, <1>3, <1>7
  <2>2. taken'[p] = UNION {list[l] : l \in {"value"}} /\ \A q \in Procs : q # p => taken'[q] = taken[q]
    BY Zenon, <1>4, <1>7
  <2>3. taken'[p] = list["value"]
    BY Zenon, <2>2
  <2>. QED
    BY Zenon, <1>1, <1>2, <1>3, <1>7, <2>1, <2>2, <2>3, GotoAlone
<1>. QED
  BY Zenon, <1>5, <1>6, <1>7 DEF WakeTake

\* The rest of a drain.
LEMMA WakeSyncEffect ==
    ASSUME TypeOK, NEW p \in Procs, WakeSync(p)
    PROVE  /\ UNCHANGED <<value, version, vlock, list, tag, serials, record, waiter, woken, seen, judged, closing, taken>>
           /\ pc[p] = "wakesync" /\ pc'[p] = "waking" /\ Alone(p)
           /\ wlock' = Nobody /\ value_tag' = tag
BY Zenon, GotoAlone DEF WakeSync, listVars, taskVars, wakeVars

\* A drain wakes one of the waiters it took, and takes no more.
LEMMA WakeOneEffect ==
    ASSUME TypeOK, NEW p \in Procs, WakeOne(p)
    PROVE  /\ UNCHANGED <<value, version, vlock, wlock, list, tag, serials, record, value_tag, waiter, seen, judged,
                          closing, pc>>
           /\ pc[p] = "waking"
           /\ \A q \in Procs : taken'[q] \subseteq taken[q] /\ (q # p => taken'[q] = taken[q])
<1>1. UNCHANGED <<value, version, vlock, wlock, list, tag, serials, record, value_tag, waiter, seen, judged, closing, pc>>
  BY Zenon DEF WakeOne, lockVars, listVars
<1>2. pc[p] = "waking" /\ \E w : taken' = [taken EXCEPT ![p] = taken[p] \ {w}]
  BY Zenon DEF WakeOne
<1>. QED
  BY Zenon, <1>1, <1>2 DEF TypeOK

\* A drain ends when it woke them all, and with it the closing.
LEMMA WakeDoneEffect ==
    ASSUME TypeOK, NEW p \in Procs, WakeDone(p)
    PROVE  /\ UNCHANGED <<value, version, vlock, wlock, list, tag, serials, record, value_tag, waiter, woken, seen,
                          judged, taken>>
           /\ pc[p] = "waking" /\ taken[p] = {} /\ Alone(p)
           /\ pc'[p] = IF Kind[p] = "write" THEN "idle" ELSE "ready"
           /\ closing' = [closing EXCEPT ![p] = FALSE]
BY Zenon, GotoAlone DEF WakeDone, Leave, lockVars, listVars, taskVars

\* A change of the counts takes the consumer list and no other.
LEMMA WakeConsumerEffect ==
    ASSUME TypeOK, NEW p \in Procs, WakeConsumer(p)
    PROVE  /\ UNCHANGED <<value, version, vlock, wlock, tag, serials, record, value_tag, waiter, woken, seen, judged,
                          closing>>
           /\ pc[p] = "idle" /\ Kind[p] = "write" /\ pc'[p] = "waking" /\ Alone(p)
           /\ wlock = Nobody
           /\ list'["consumer"] = {} /\ \A l \in Lists : l # "consumer" => list'[l] = list[l]
           /\ taken'[p] = list["consumer"] /\ \A q \in Procs : q # p => taken'[q] = taken[q]
<1>1. UNCHANGED <<value, version, vlock, wlock, tag, serials, record, value_tag, waiter, woken, seen, judged, closing>>
  BY Zenon DEF WakeConsumer, lockVars, taskVars
<1>2. /\ pc[p] = "idle" /\ Kind[p] = "write" /\ wlock = Nobody /\ Goto(p, "waking")
      /\ list' = [list EXCEPT !["consumer"] = {}] /\ taken' = [taken EXCEPT ![p] = list["consumer"]]
  BY Zenon DEF WakeConsumer
<1>3. "consumer" \in Lists
  BY Zenon DEF Lists
<1>. QED
  BY Zenon, <1>1, <1>2, <1>3, GotoAlone DEF TypeOK

\* A process is at one of its places wherever it goes.
LEMMA PlaceType ==
    ASSUME TypeOK, NEW p \in Procs, Alone(p), pc'[p] \in PCs
    PROVE  pc' \in [Procs -> PCs]
<1>1. \A q \in Procs : pc'[q] \in PCs
  BY Zenon DEF TypeOK, Alone
<1>. QED
  BY Zenon, <1>1 DEF Alone

\* The lists and the records are of their types after a registration or a drain.
LEMMA ListTypes ==
    ASSUME TypeOK, NEW p \in Procs
    PROVE  /\ Register(p) /\ tag' \in Tags /\ waiter[p] \in Waiters =>
                  list' \in [Lists -> SUBSET Waiters] /\ record' \in [Waiters -> Tags]
           /\ \A l \in Lists : Join(p, l) /\ waiter[p] \in Waiters => list' \in [Lists -> SUBSET Waiters]
           /\ WakeTake(p) => list' \in [Lists -> SUBSET Waiters] /\ taken' \in [Procs -> SUBSET Waiters]
<1>1. /\ list \in [Lists -> SUBSET Waiters] /\ record \in [Waiters -> Tags]
      /\ taken \in [Procs -> SUBSET Waiters]
  BY Zenon DEF TypeOK
<1>2. "value" \in Lists
  BY Zenon DEF Lists
<1>3. ASSUME NEW l \in Lists, Join(p, l), waiter[p] \in Waiters PROVE list' \in [Lists -> SUBSET Waiters]
  <2>1. PICK gone : list' = [list EXCEPT ![l] = (list[l] \ gone) \cup {waiter[p]}]
    BY Zenon, <1>3 DEF Join
  <2>2. (list[l] \ gone) \cup {waiter[p]} \in SUBSET Waiters
    BY Zenon, <1>1, <1>3
  <2>. QED
    BY Zenon, <1>1, <2>1, <2>2
<1>4. ASSUME Register(p), tag' \in Tags, waiter[p] \in Waiters
      PROVE  list' \in [Lists -> SUBSET Waiters] /\ record' \in [Waiters -> Tags]
  <2>1. /\ UNCHANGED list \/ Join(p, "value")
        /\ UNCHANGED record \/ record' = [record EXCEPT ![waiter[p]] = tag']
    BY Zenon, <1>4 DEF Register, Join
  <2>. QED
    BY Zenon, <1>1, <1>2, <1>3, <1>4, <2>1
<1>5. ASSUME WakeTake(p) PROVE list' \in [Lists -> SUBSET Waiters] /\ taken' \in [Procs -> SUBSET Waiters]
  <2>1. CASE list' = [list EXCEPT !["value"] = {}] /\ UNCHANGED taken
    BY Zenon, <1>1, <1>2, <2>1
  <2>2. ASSUME NEW took \in SUBSET Lists,
               list' = [l \in Lists |-> IF l \in took THEN {} ELSE list[l]],
               taken' = [taken EXCEPT ![p] = UNION {list[l] : l \in took}]
        PROVE  list' \in [Lists -> SUBSET Waiters] /\ taken' \in [Procs -> SUBSET Waiters]
    <3>1. UNION {list[l] : l \in took} \in SUBSET Waiters
      BY ZenonT(40), <1>1
    <3>. QED
      BY Zenon, <1>1, <2>2, <3>1
  <2>3. (IF closing[p] THEN Lists ELSE {"value"}) \in SUBSET Lists
    BY <1>2
  <2>. QED
    BY Zenon, <1>5, <2>1, <2>2, <2>3 DEF WakeTake
<1>. QED
  BY Zenon, <1>3, <1>4, <1>5

\* Every step keeps the types.
LEMMA TypeStep ==
    TypeOK /\ KindInv /\ [Next]_vars => TypeOK'
<1> SUFFICES ASSUME TypeOK, KindInv, [Next]_vars PROVE TypeOK'
  OBVIOUS
<1>0. /\ {"idle", "ready"} \cup PollPCs \cup WritePCs \subseteq PCs
      /\ woken \in [Procs -> BOOLEAN] /\ seen \in [Procs -> Nat] /\ judged \in [Procs -> Nat]
      /\ closing \in [Procs -> BOOLEAN] /\ taken \in [Procs -> SUBSET Waiters] /\ version \in Nat
      /\ waiter \in [Procs -> Waiters \cup {NoWaiter}] /\ list \in [Lists -> SUBSET Waiters]
      /\ UNJUDGED \in Nat /\ tag \in Tags /\ serials \in Nat
  <2>1. {"idle", "ready"} \cup PollPCs \cup WritePCs \subseteq PCs
    BY Zenon DEF PCs
  <2>2. UNJUDGED \in Nat
    BY ChannelAssumption DEF UNJUDGED, STEP, CLOSED
  <2>. QED
    BY Zenon, <2>1, <2>2 DEF TypeOK
<1>1. ASSUME NEW p \in Procs, Begin(p) PROVE TypeOK'
  <2>1. pc' \in [Procs -> PCs]
    BY Zenon, <1>0, <1>1, BeginEffect, PlaceType DEF PollPCs
  <2>2. waiter' \in [Procs -> Waiters \cup {NoWaiter}] /\ woken' \in [Procs -> BOOLEAN]
    BY ZenonT(40), <1>0, <1>1, BeginEffect
  <2>3. /\ UNCHANGED <<value, version, vlock, wlock, list, tag, serials, value_tag, seen, judged, closing, taken>>
        /\ record' \in [Waiters -> Tags]
    BY Zenon, <1>1, BeginEffect
  <2>. QED
    BY Zenon, <2>1, <2>2, <2>3 DEF TypeOK
<1>2. ASSUME NEW p \in Procs, Looks(p) PROVE TypeOK'
  <2>1. pc' \in [Procs -> PCs]
    BY Zenon, <1>0, <1>2, LookEffect, PlaceType DEF PollPCs, WritePCs
  <2>2. /\ seen' = seen \/ seen' = [seen EXCEPT ![p] = version]
        /\ judged' = judged \/ judged' = [judged EXCEPT ![p] = version]
        /\ vlock' = vlock \/ vlock' = p
        /\ UNCHANGED <<value, version, wlock, list, tag, serials, record, value_tag, waiter, woken, closing, taken>>
    BY Zenon, <1>2, LookEffect
  <2>3. vlock' \in Procs \cup {Nobody}
    BY Zenon, <2>2 DEF TypeOK
  <2>4. seen' \in [Procs -> Nat]
    BY Zenon, <1>0, <2>2
  <2>5. judged' \in [Procs -> Nat]
    BY Zenon, <1>0, <2>2
  <2>. QED
    BY Zenon, <2>1, <2>2, <2>3, <2>4, <2>5 DEF TypeOK
<1>3. ASSUME NEW p \in Procs, Register(p) PROVE TypeOK'
  <2>1. /\ UNCHANGED <<value, version, vlock, value_tag, waiter, woken, seen, judged, closing, taken>>
        /\ pc[p] = "register" /\ pc'[p] = "sync" /\ Alone(p) /\ wlock' = p
        /\ tag = NoTag => tag' = [serial |-> serials + 1, round |-> 0] /\ serials' = serials + 1
        /\ tag # NoTag => tag' = tag /\ serials' = serials
    BY Zenon, <1>3, RegisterEffect
  <2>2. pc' \in [Procs -> PCs] /\ wlock' \in Procs \cup {Nobody}
    BY Zenon, <1>0, <2>1, PlaceType DEF PollPCs
  <2>3. waiter[p] \in Waiters
    BY Zenon, <2>1, TaskWaiter DEF PollPCs
  <2>4. tag' \in Tags /\ serials' \in Nat
    BY <1>0, <2>1, ChannelAssumption DEF Tags
  <2>5. list' \in [Lists -> SUBSET Waiters] /\ record' \in [Waiters -> Tags]
    BY Zenon, <1>3, <2>3, <2>4, ListTypes
  <2>. QED
    BY Zenon, <2>1, <2>2, <2>4, <2>5 DEF TypeOK
<1>4. ASSUME NEW p \in Procs, Sync(p) PROVE TypeOK'
  <2>1. pc' \in [Procs -> PCs]
    BY Zenon, <1>0, <1>4, SyncEffect, PlaceType DEF PollPCs
  <2>. QED
    BY Zenon, <1>4, <2>1, SyncEffect DEF TypeOK
<1>5. ASSUME NEW p \in Procs, Check(p) PROVE TypeOK'
  <2>1. pc' \in [Procs -> PCs]
    BY Zenon, <1>0, <1>5, CheckEffect, PlaceType
  <2>2. woken' \in [Procs -> BOOLEAN]
    BY Zenon, <1>0, <1>5, CheckEffect
  <2>. QED
    BY Zenon, <1>5, <2>1, <2>2, CheckEffect DEF TypeOK
<1>6. ASSUME NEW p \in Procs, Reset(p) PROVE TypeOK'
  <2>1. judged' \in [Procs -> Nat]
    BY Zenon, <1>0, <1>6, ResetEffect
  <2>. QED
    BY Zenon, <1>6, <2>1, ResetEffect DEF TypeOK
<1>7. ASSUME NEW p \in Procs, Again(p) PROVE TypeOK'
  <2>1. pc' \in [Procs -> PCs]
    BY Zenon, <1>0, <1>7, AgainEffect, PlaceType
  <2>2. woken' \in [Procs -> BOOLEAN]
    BY Zenon, <1>0, <1>7, AgainEffect
  <2>. QED
    BY Zenon, <1>7, <2>1, <2>2, AgainEffect DEF TypeOK
<1>8. ASSUME NEW p \in Procs, PollClosedRegister(p) \/ WantedRegister(p) PROVE TypeOK'
  <2>1. /\ UNCHANGED <<value, version, vlock, tag, serials, record, value_tag, waiter, woken, seen, judged,
                       closing, taken>>
        /\ wlock' = p \/ wlock' = wlock
        /\ pc[p] \in {"closedreg", "wantedreg"} /\ pc'[p] \in {"closed2", "wanted2"} /\ Alone(p)
    BY Zenon, <1>8, JoinEffect
  <2>2. pc' \in [Procs -> PCs]
    BY Zenon, <1>0, <2>1, PlaceType DEF PollPCs
  <2>3. waiter[p] \in Waiters
    BY Zenon, <2>1, TaskWaiter DEF PollPCs
  <2>4. \E l \in Lists : Join(p, l)
    BY Zenon, <1>8 DEF PollClosedRegister, WantedRegister, Lists
  <2>5. list' \in [Lists -> SUBSET Waiters]
    BY Zenon, <2>3, <2>4, ListTypes
  <2>6. wlock' \in Procs \cup {Nobody}
    BY Zenon, <2>1 DEF TypeOK
  <2>. QED
    BY Zenon, <2>1, <2>2, <2>5, <2>6 DEF TypeOK
<1>9. ASSUME NEW p \in Procs, PollClosedRecheck(p) PROVE TypeOK'
  <2>1. pc' \in [Procs -> PCs]
    BY Zenon, <1>0, <1>9, RecheckEffect, PlaceType
  <2>. QED
    BY Zenon, <1>9, <2>1, RecheckEffect DEF TypeOK
<1>10. ASSUME NEW p \in Procs, Guards(p) PROVE TypeOK'
  <2>1. pc' \in [Procs -> PCs]
    BY Zenon, <1>0, <1>10, GuardEffect, PlaceType DEF WritePCs
  <2>2. vlock' \in Procs \cup {Nobody}
    BY Zenon, <1>10, GuardEffect DEF TypeOK
  <2>. QED
    BY Zenon, <1>10, <2>1, <2>2, GuardEffect DEF TypeOK
<1>11. ASSUME NEW p \in Procs, Publishes(p) PROVE TypeOK'
  <2>1. /\ UNCHANGED <<vlock, wlock, list, tag, serials, record, value_tag, waiter, woken, seen, judged, taken>>
        /\ Goto(p, "published") /\ value' \in Values
        /\ \E close \in BOOLEAN : /\ closing' = [closing EXCEPT ![p] = close]
                                  /\ version' = version + STEP + (IF close THEN CLOSED ELSE 0)
    <3>1. CASE Close(p)
      BY Zenon, <3>1 DEF Close, publish, TypeOK, lockVars, listVars, taskVars
    <3>2. CASE \E v \in Values, close \in BOOLEAN : Publish(p, v, close)
      BY Zenon, <3>2 DEF Publish, publish, lockVars, listVars, taskVars
    <3>. QED
      BY Zenon, <1>11, <3>1, <3>2 DEF Publishes
  <2>2. pc' \in [Procs -> PCs]
    BY Zenon, <1>0, <2>1, GotoAlone, PlaceType DEF WritePCs
  <2>3. closing' \in [Procs -> BOOLEAN]
    BY Zenon, <1>0, <2>1
  <2>4. version' \in Nat
    BY <1>0, <2>1 DEF STEP, CLOSED
  <2>. QED
    BY Zenon, <2>1, <2>2, <2>3, <2>4 DEF TypeOK
<1>12. ASSUME NEW p \in Procs, WakeTake(p) PROVE TypeOK'
  <2>1. /\ UNCHANGED <<value, version, vlock, serials, record, value_tag, waiter, woken, seen, judged, closing>>
        /\ Goto(p, "wakesync") /\ wlock' = p /\ tag' = drained
    BY Zenon, <1>12 DEF WakeTake, taskVars
  <2>2. pc' \in [Procs -> PCs]
    BY Zenon, <1>0, <2>1, GotoAlone, PlaceType DEF WritePCs
  <2>3. list' \in [Lists -> SUBSET Waiters] /\ taken' \in [Procs -> SUBSET Waiters]
    BY Zenon, <1>12, ListTypes
  <2>4. tag' \in Tags /\ wlock' \in Procs \cup {Nobody}
    BY Zenon, <2>1, DrainedTag
  <2>. QED
    BY Zenon, <2>1, <2>2, <2>3, <2>4 DEF TypeOK
<1>13. ASSUME NEW p \in Procs, WakeSync(p) PROVE TypeOK'
  <2>1. pc' \in [Procs -> PCs]
    BY Zenon, <1>0, <1>13, WakeSyncEffect, PlaceType DEF WritePCs
  <2>. QED
    BY Zenon, <1>13, <2>1, WakeSyncEffect DEF TypeOK
<1>14. ASSUME NEW p \in Procs, WakeOne(p) PROVE TypeOK'
  <2>1. PICK w : /\ taken' = [taken EXCEPT ![p] = taken[p] \ {w}]
                 /\ woken' = [t \in Procs |-> woken[t] \/ waiter[t] = w]
    BY Zenon, <1>14 DEF WakeOne
  <2>2. woken' \in [Procs -> BOOLEAN]
    BY Zenon, <1>0, <2>1
  <2>3. taken' \in [Procs -> SUBSET Waiters]
    BY Zenon, <1>0, <2>1
  <2>. QED
    BY Zenon, <1>14, <2>2, <2>3, WakeOneEffect DEF TypeOK
<1>15. ASSUME NEW p \in Procs, WakeDone(p) PROVE TypeOK'
  <2>1. pc' \in [Procs -> PCs]
    BY Zenon, <1>0, <1>15, WakeDoneEffect, PlaceType
  <2>2. closing' \in [Procs -> BOOLEAN]
    BY Zenon, <1>0, <1>15, WakeDoneEffect
  <2>. QED
    BY Zenon, <1>15, <2>1, <2>2, WakeDoneEffect DEF TypeOK
<1>16. ASSUME NEW p \in Procs, WakeConsumer(p) PROVE TypeOK'
  <2>1. /\ list' = [list EXCEPT !["consumer"] = {}] /\ taken' = [taken EXCEPT ![p] = list["consumer"]]
        /\ "consumer" \in Lists
    BY Zenon, <1>16 DEF WakeConsumer, Lists
  <2>2. list' \in [Lists -> SUBSET Waiters] /\ taken' \in [Procs -> SUBSET Waiters]
    BY Zenon, <1>0, <2>1
  <2>3. pc' \in [Procs -> PCs]
    BY Zenon, <1>0, <1>16, WakeConsumerEffect, PlaceType DEF WritePCs
  <2>. QED
    BY Zenon, <1>16, <2>2, <2>3, WakeConsumerEffect DEF TypeOK
<1>17. CASE UNCHANGED vars
  BY Zenon, <1>17 DEF vars, lockVars, listVars, taskVars, wakeVars, TypeOK
<1>. QED
  BY Zenon, <1>1, <1>2, <1>3, <1>4, <1>5, <1>6, <1>7, <1>8, <1>9, <1>10, <1>11, <1>12, <1>13, <1>14,
     <1>15, <1>16, <1>17, Steps

\* A lock moves from nobody to who enters its critical section, and back to nobody.
LEMMA ValueLockMove ==
    ASSUME LockInv, NEW p \in Procs, Alone(p),
           \/ vlock' = vlock /\ (pc'[p] \in VPCs <=> pc[p] \in VPCs)
           \/ vlock = Nobody /\ vlock' = p /\ pc'[p] \in VPCs
           \/ pc[p] \in VPCs /\ vlock' = Nobody /\ pc'[p] \notin VPCs
    PROVE  \A q \in Procs : pc'[q] \in VPCs <=> vlock' = q
<1>1. \A q \in Procs : q # Nobody
  BY Zenon, ChannelAssumption
<1>2. \A q \in Procs : pc[q] \in VPCs <=> vlock = q
  BY Zenon DEF LockInv, VPCs
<1>. QED
  BY <1>1, <1>2 DEF Alone

\* So does the other lock.
LEMMA WaiterLockMove ==
    ASSUME LockInv, NEW p \in Procs, Alone(p),
           \/ wlock' = wlock /\ (pc'[p] \in WPCs <=> pc[p] \in WPCs)
           \/ wlock = Nobody /\ wlock' = p /\ pc'[p] \in WPCs
           \/ pc[p] \in WPCs /\ wlock' = Nobody /\ pc'[p] \notin WPCs
    PROVE  \A q \in Procs : pc'[q] \in WPCs <=> wlock' = q
<1>1. \A q \in Procs : q # Nobody
  BY Zenon, ChannelAssumption
<1>2. \A q \in Procs : pc[q] \in WPCs <=> wlock = q
  BY Zenon DEF LockInv, WPCs
<1>. QED
  BY <1>1, <1>2 DEF Alone

\* What a step must do to keep both, and the entries of the drains.
LEMMA LockMove ==
    ASSUME LockInv, NEW p \in Procs, Alone(p),
           \/ vlock' = vlock /\ (pc'[p] \in VPCs <=> pc[p] \in VPCs)
           \/ vlock = Nobody /\ vlock' = p /\ pc'[p] \in VPCs
           \/ pc[p] \in VPCs /\ vlock' = Nobody /\ pc'[p] \notin VPCs,
           \/ wlock' = wlock /\ (pc'[p] \in WPCs <=> pc[p] \in WPCs)
           \/ wlock = Nobody /\ wlock' = p /\ pc'[p] \in WPCs
           \/ pc[p] \in WPCs /\ wlock' = Nobody /\ pc'[p] \notin WPCs,
           pc'[p] \in DrainPCs \/ taken'[p] = {},
           \A q \in Procs : q # p => taken'[q] = taken[q]
    PROVE  LockInv'
<1>1. \A q \in Procs : pc'[q] \in VPCs <=> vlock' = q
  BY ValueLockMove
<1>3. \A q \in Procs : pc'[q] \in WPCs <=> wlock' = q
  BY WaiterLockMove
<1>2. \A q \in Procs : pc'[q] \notin DrainPCs => taken'[q] = {}
  BY Zenon DEF LockInv, Alone, DrainPCs
<1>. QED
  BY Zenon, <1>1, <1>2, <1>3 DEF LockInv, VPCs, WPCs, DrainPCs

\* Every step keeps the locks with those inside their critical sections.
LEMMA LockStep ==
    LockInv /\ TypeOK /\ [Next]_vars => LockInv'
<1> SUFFICES ASSUME LockInv, TypeOK, [Next]_vars PROVE LockInv'
  OBVIOUS
<1>0. \A q \in Procs : pc[q] \notin DrainPCs => taken[q] = {}
  BY Zenon DEF LockInv, DrainPCs
<1>1. ASSUME NEW p \in Procs, Begin(p) PROVE LockInv'
  <2>1. UNCHANGED <<vlock, wlock, taken>> /\ pc[p] = "idle" /\ Goto(p, FirstStep[Kind[p]]) /\ p \in Tasks
    BY Zenon, <1>1 DEF Begin, lockVars, wakeVars
  <2>2. pc'[p] \in {"judge", "repoll", "closed1", "wanted1"} /\ Alone(p)
    BY Zenon, <2>1, FirstSteps, GotoAlone
  <2>. QED
    BY Zenon, <1>0, <2>1, <2>2, LockMove DEF VPCs, WPCs, DrainPCs
<1>2. ASSUME NEW p \in Procs, Looks(p) PROVE LockInv'
  BY Zenon, <1>0, <1>2, LookEffect, LockMove DEF VPCs, WPCs, DrainPCs
<1>3. ASSUME NEW p \in Procs, Register(p) PROVE LockInv'
  BY Zenon, <1>0, <1>3, RegisterEffect, LockMove DEF VPCs, WPCs, DrainPCs
<1>4. ASSUME NEW p \in Procs, Sync(p) PROVE LockInv'
  BY Zenon, <1>0, <1>4, SyncEffect, LockMove DEF VPCs, WPCs, DrainPCs
<1>5. ASSUME NEW p \in Procs, Check(p) PROVE LockInv'
  BY Zenon, <1>0, <1>5, CheckEffect, LockMove DEF VPCs, WPCs, DrainPCs
<1>6. ASSUME NEW p \in Procs, Reset(p) PROVE LockInv'
  BY Zenon, <1>6, ResetEffect DEF LockInv
<1>7. ASSUME NEW p \in Procs, Again(p) PROVE LockInv'
  BY Zenon, <1>0, <1>7, AgainEffect, LockMove DEF VPCs, WPCs, DrainPCs
<1>8. ASSUME NEW p \in Procs, PollClosedRegister(p) \/ WantedRegister(p) PROVE LockInv'
  BY Zenon, <1>0, <1>8, JoinEffect, LockMove DEF VPCs, WPCs, DrainPCs
<1>9. ASSUME NEW p \in Procs, PollClosedRecheck(p) PROVE LockInv'
  BY Zenon, <1>0, <1>9, RecheckEffect, LockMove DEF VPCs, WPCs, DrainPCs
<1>10. ASSUME NEW p \in Procs, Guards(p) PROVE LockInv'
  BY Zenon, <1>0, <1>10, GuardEffect, LockMove DEF VPCs, WPCs, DrainPCs
<1>11. ASSUME NEW p \in Procs, Publishes(p) PROVE LockInv'
  <2>1. UNCHANGED <<vlock, wlock, taken>> /\ pc[p] \in {"reading", "locked"} /\ Goto(p, "published")
    BY Zenon, <1>11 DEF Publishes, Publish, Close, lockVars
  <2>2. pc'[p] = "published" /\ Alone(p)
    BY Zenon, <2>1 DEF TypeOK, Goto, Alone
  <2>. QED
    BY Zenon, <1>0, <2>1, <2>2, LockMove DEF VPCs, WPCs, DrainPCs
<1>12. ASSUME NEW p \in Procs, WakeTake(p) PROVE LockInv'
  BY Zenon, <1>0, <1>12, TakeEffect, LockMove DEF VPCs, WPCs, DrainPCs
<1>13. ASSUME NEW p \in Procs, WakeSync(p) PROVE LockInv'
  BY Zenon, <1>0, <1>13, WakeSyncEffect, LockMove DEF VPCs, WPCs, DrainPCs
<1>14. ASSUME NEW p \in Procs, WakeOne(p) PROVE LockInv'
  <2>1. Alone(p)
    BY Zenon, <1>14, WakeOneEffect DEF Alone, TypeOK
  <2>. QED
    BY Zenon, <1>0, <1>14, <2>1, WakeOneEffect, LockMove DEF VPCs, WPCs, DrainPCs
<1>15. ASSUME NEW p \in Procs, WakeDone(p) PROVE LockInv'
  BY Zenon, <1>0, <1>15, WakeDoneEffect, LockMove DEF VPCs, WPCs, DrainPCs
<1>16. ASSUME NEW p \in Procs, WakeConsumer(p) PROVE LockInv'
  BY Zenon, <1>0, <1>16, WakeConsumerEffect, LockMove DEF VPCs, WPCs, DrainPCs
<1>17. CASE UNCHANGED vars
  BY Zenon, <1>17 DEF vars, lockVars, wakeVars, LockInv
<1>. QED
  BY Zenon, <1>1, <1>2, <1>3, <1>4, <1>5, <1>6, <1>7, <1>8, <1>9, <1>10, <1>11, <1>12, <1>13, <1>14,
     <1>15, <1>16, <1>17, Steps

\* Between publishes, a task sees the version that stands.
LEMMA VersionMove ==
    ASSUME VersionInv, TypeOK, NEW p \in Procs, Alone(p), version' = version,
           pc'[p] # "locked" \/ pc[p] = "locked" \/ ~is_closed,
           seen' = seen \/ seen' = [seen EXCEPT ![p] = version],
           judged' = judged \/ judged' = [judged EXCEPT ![p] = version]
    PROVE  VersionInv'
<1>1. version <= version /\ version <= MaxVersion
  BY DEF TypeOK, VersionInv
<1>2. is_closed' <=> is_closed
  BY Zenon DEF is_closed
<1>3. \A q \in Procs : seen'[q] = seen[q] \/ seen'[q] = version
  BY Zenon DEF TypeOK
<1>4. \A q \in Procs : judged'[q] = judged[q] \/ judged'[q] = version
  BY Zenon DEF TypeOK
<1>5. \A q \in Procs : pc'[q] = "locked" => ~is_closed
  BY Zenon DEF Alone, VersionInv
<1>. QED
  BY Zenon, <1>1, <1>2, <1>3, <1>4, <1>5 DEF VersionInv

\* The version moves under a Mut of an open channel only, and never back.
LEMMA VersionStep ==
    VersionInv /\ TypeOK /\ LockInv /\ [Next]_vars => VersionInv'
<1> SUFFICES ASSUME VersionInv, TypeOK, LockInv, [Next]_vars PROVE VersionInv'
  OBVIOUS
<1>1. ASSUME NEW p \in Procs, Begin(p) PROVE VersionInv'
  <2>1. UNCHANGED <<version, seen, judged>> /\ Goto(p, FirstStep[Kind[p]]) /\ p \in Tasks
    BY Zenon, <1>1 DEF Begin
  <2>2. pc'[p] \in {"judge", "repoll", "closed1", "wanted1"} /\ Alone(p)
    BY Zenon, <2>1, FirstSteps, GotoAlone
  <2>. QED
    BY Zenon, <2>1, <2>2, VersionMove
<1>2. ASSUME NEW p \in Procs, Looks(p) PROVE VersionInv'
  BY Zenon, <1>2, LookEffect, VersionMove
<1>3. ASSUME NEW p \in Procs, Register(p) PROVE VersionInv'
  BY Zenon, <1>3, RegisterEffect, VersionMove
<1>4. ASSUME NEW p \in Procs, Sync(p) PROVE VersionInv'
  BY Zenon, <1>4, SyncEffect, VersionMove
<1>5. ASSUME NEW p \in Procs, Check(p) PROVE VersionInv'
  BY Zenon, <1>5, CheckEffect, VersionMove
<1>6. ASSUME NEW p \in Procs, Reset(p) PROVE VersionInv'
  <2>1. UNCHANGED <<version, seen, pc>> /\ \A q \in Procs : judged'[q] = judged[q] \/ judged'[q] = UNJUDGED
    BY Zenon, <1>6, ResetEffect DEF TypeOK
  <2>2. is_closed' <=> is_closed
    BY Zenon, <2>1 DEF is_closed
  <2>. QED
    BY Zenon, <2>1, <2>2 DEF VersionInv
<1>7. ASSUME NEW p \in Procs, Again(p) PROVE VersionInv'
  BY Zenon, <1>7, AgainEffect, VersionMove
<1>8. ASSUME NEW p \in Procs, PollClosedRegister(p) \/ WantedRegister(p) PROVE VersionInv'
  BY Zenon, <1>8, JoinEffect, VersionMove
<1>9. ASSUME NEW p \in Procs, PollClosedRecheck(p) PROVE VersionInv'
  BY Zenon, <1>9, RecheckEffect, VersionMove
<1>10. ASSUME NEW p \in Procs, Guards(p) PROVE VersionInv'
  BY Zenon, <1>10, GuardEffect, VersionMove
<1>11. ASSUME NEW p \in Procs, Publishes(p) PROVE VersionInv'
  <2>1. /\ UNCHANGED <<seen, judged>> /\ pc[p] \in {"reading", "locked"} /\ pc'[p] = "published" /\ Alone(p)
        /\ version' > version /\ version' \in Nat /\ version' <= MaxVersion
    BY Zenon, <1>11, PublishEffect
  <2>2. \A q \in Procs : q # p => pc'[q] # "locked"
    BY Zenon, <2>1 DEF LockInv, Alone
  <2>3. version \in Nat /\ seen \in [Procs -> Nat] /\ judged \in [Procs -> Nat]
    BY Zenon DEF TypeOK
  <2>4. \A n \in Nat : n <= version => n <= version'
    BY <2>1, <2>3
  <2>5. \A q \in Procs : pc'[q] # "locked"
    BY Zenon, <2>1, <2>2
  <2>. QED
    BY Zenon, <2>1, <2>3, <2>4, <2>5 DEF VersionInv
<1>12. ASSUME NEW p \in Procs, WakeTake(p) PROVE VersionInv'
  BY Zenon, <1>12, TakeEffect, VersionMove
<1>13. ASSUME NEW p \in Procs, WakeSync(p) PROVE VersionInv'
  BY Zenon, <1>13, WakeSyncEffect, VersionMove
<1>14. ASSUME NEW p \in Procs, WakeOne(p) PROVE VersionInv'
  BY Zenon, <1>14, WakeOneEffect DEF VersionInv, is_closed
<1>15. ASSUME NEW p \in Procs, WakeDone(p) PROVE VersionInv'
  BY Zenon, <1>15, WakeDoneEffect, VersionMove
<1>16. ASSUME NEW p \in Procs, WakeConsumer(p) PROVE VersionInv'
  BY Zenon, <1>16, WakeConsumerEffect, VersionMove
<1>17. CASE UNCHANGED vars
  BY Zenon, <1>17 DEF vars, taskVars, VersionInv, is_closed
<1>. QED
  BY Zenon, <1>1, <1>2, <1>3, <1>4, <1>5, <1>6, <1>7, <1>8, <1>9, <1>10, <1>11, <1>12, <1>13, <1>14,
     <1>15, <1>16, <1>17, Steps

\* What KindInv says of one process.
KindOK(p) ==
    /\ pc[p] \in {"repoll", "retag", "judge", "park", "parkver", "register", "sync", "check"}
          => p \in ValueTasks
    /\ pc[p] \in {"closed1", "closedreg", "closed2"} => p \in ClosedTasks
    /\ pc[p] \in {"wanted1", "wanted1count", "wantedreg", "wanted2", "wanted2count"}
          => Kind[p] = "wanted"
    /\ pc[p] \in WritePCs => Kind[p] \in {"write", "produce"}
    /\ pc[p] = "ready" => p \in Tasks

\* A process that goes on keeps its waiter and the path of its kind.
LEMMA KindMove ==
    ASSUME KindInv, NEW p \in Procs, Alone(p), waiter' = waiter, KindOK(p)'
    PROVE  KindInv'
<1>1. \A q \in Procs : KindOK(q)'
  BY Zenon DEF Alone, KindInv, KindOK
<1>2. /\ \A q \in Procs : waiter'[q] = NoWaiter <=> q \notin Tasks
      /\ \A t, u \in Tasks : waiter'[t] = waiter'[u] => t = u
  BY Zenon DEF KindInv
<1>. QED
  BY Zenon, <1>1, <1>2 DEF KindInv, KindOK

\* No step leaves the path of its kind, and a renewed waiter is nobody else's.
LEMMA KindStep ==
    KindInv /\ TypeOK /\ [Next]_vars => KindInv'
<1> SUFFICES ASSUME KindInv, TypeOK, [Next]_vars PROVE KindInv'
  OBVIOUS
<1>0. /\ \A p \in Procs : KindOK(p)
      /\ ValueTasks \subseteq Tasks /\ ClosedTasks \subseteq Tasks
      /\ \A p \in Procs : Kind[p] # "write" => p \in Tasks
      /\ \A p \in Procs : Kind[p] = "write" => p \notin Tasks
  BY Zenon DEF KindInv, KindOK, ValueTasks, ClosedTasks, Tasks
<1>1. ASSUME NEW p \in Procs, Begin(p) PROVE KindInv'
  <2>1. /\ p \in Tasks /\ pc'[p] = FirstStep[Kind[p]] /\ pc'[p] \in {"judge", "repoll", "closed1", "wanted1"}
        /\ Alone(p) /\ waiter'[p] \in Waiters /\ waiter' = [waiter EXCEPT ![p] = waiter'[p]]
        /\ \A q \in Tasks : q # p => waiter'[q] = waiter[q] /\ waiter'[p] # waiter[q]
    BY Zenon, <1>1, BeginEffect
  <2>2. KindOK(p)'
    BY Zenon, <2>1, FirstSteps DEF KindOK, WritePCs
  <2>3. \A q \in Procs : KindOK(q)'
    <3>1. ASSUME NEW q \in Procs, q # p PROVE KindOK(q)'
      BY Zenon, <1>0, <2>1, <3>1 DEF Alone, KindOK
    <3>. QED
      BY Zenon, <2>2, <3>1
  <2>4. \A q \in Procs : q # p => waiter'[q] = waiter[q]
    BY Zenon, <2>1 DEF TypeOK
  <2>5. \A q \in Procs : waiter'[q] = NoWaiter <=> q \notin Tasks
    <3>1. waiter'[p] # NoWaiter
      BY Zenon, <2>1, ChannelAssumption
    <3>2. \A q \in Procs : waiter[q] = NoWaiter <=> q \notin Tasks
      BY Zenon DEF KindInv
    <3>. QED
      BY Zenon, <2>1, <2>4, <3>1, <3>2
  <2>6. \A t, u \in Tasks : waiter'[t] = waiter'[u] => t = u
    <3>1. \A t, u \in Tasks : waiter[t] = waiter[u] => t = u
      BY Zenon DEF KindInv
    <3>2. \A q \in Tasks : q # p => waiter'[q] = waiter[q] /\ waiter'[p] # waiter[q]
      BY Zenon, <2>1
    <3>. QED
      BY Zenon, <3>1, <3>2
  <2>. QED
    BY Zenon, <2>3, <2>5, <2>6 DEF KindInv, KindOK
<1>2. ASSUME NEW p \in Procs, Looks(p) PROVE KindInv'
  <2>1. waiter' = waiter /\ Alone(p)
    BY Zenon, <1>2, LookEffect
  <2>2. KindOK(p)'
    <3>1. CASE Repoll(p) \/ RepollTag(p) \/ Park(p) \/ ParkVersion(p)
      <4>1. /\ pc[p] \in {"repoll", "retag", "park", "parkver"}
            /\ \E at \in {"judge", "retag", "idle", "park", "parkver", "register"} : Goto(p, at)
        BY Zenon, <3>1 DEF Repoll, RepollTag, Park, ParkVersion
      <4>2. p \in ValueTasks /\ pc'[p] \in {"judge", "retag", "idle", "park", "parkver", "register"}
        BY Zenon, <1>0, <4>1, GotoAlone DEF KindOK
      <4>. QED
        BY Zenon, <4>2 DEF KindOK, WritePCs
    <3>2. CASE Judge(p)
      <4>1. /\ pc[p] = "judge"
            /\ (Kind[p] = "produce" /\ Goto(p, "locked")) \/ Goto(p, "ready") \/ Goto(p, "park")
        BY Zenon, <3>2 DEF Judge
      <4>2. /\ p \in ValueTasks
            /\ (Kind[p] = "produce" /\ pc'[p] = "locked") \/ pc'[p] = "ready" \/ pc'[p] = "park"
        BY Zenon, <1>0, <4>1, GotoAlone DEF KindOK
      <4>. QED
        BY Zenon, <1>0, <4>2 DEF KindOK, WritePCs
    <3>3. CASE PollClosed(p)
      <4>1. pc[p] = "closed1" /\ (Goto(p, "ready") \/ Goto(p, "closedreg"))
        BY Zenon, <3>3 DEF PollClosed
      <4>2. p \in ClosedTasks /\ (pc'[p] = "ready" \/ pc'[p] = "closedreg")
        BY Zenon, <1>0, <4>1, GotoAlone DEF KindOK
      <4>. QED
        BY Zenon, <1>0, <4>2 DEF KindOK, WritePCs
    <3>4. CASE WantedClosed(p) \/ \E changed \in BOOLEAN : WantedCount(p, changed)
      <4>1. /\ pc[p] \in {"wanted1", "wanted2", "wanted1count", "wanted2count"}
            /\ \E at \in {"ready", "wanted1count", "wanted2count", "wantedreg", "idle"} : Goto(p, at)
        BY Zenon, <3>4 DEF WantedClosed, WantedCount
      <4>2. Kind[p] = "wanted" /\ pc'[p] \in {"ready", "wanted1count", "wanted2count", "wantedreg", "idle"}
        BY Zenon, <1>0, <4>1, GotoAlone DEF KindOK
      <4>3. p \in Tasks
        BY Zenon, <1>0, <4>2
      <4>. QED
        BY Zenon, <4>2, <4>3 DEF KindOK, WritePCs
    <3>. QED
      BY Zenon, <1>2, <3>1, <3>2, <3>3, <3>4 DEF Looks
  <2>. QED
    BY Zenon, <2>1, <2>2, KindMove
<1>3. ASSUME NEW p \in Procs, Register(p) PROVE KindInv'
  <2>1. waiter' = waiter /\ pc[p] = "register" /\ pc'[p] = "sync" /\ Alone(p)
    BY Zenon, <1>3, RegisterEffect
  <2>2. KindOK(p)'
    BY Zenon, <1>0, <2>1 DEF KindOK, WritePCs
  <2>. QED
    BY Zenon, <2>1, <2>2, KindMove
<1>4. ASSUME NEW p \in Procs, Sync(p) PROVE KindInv'
  <2>1. waiter' = waiter /\ pc[p] = "sync" /\ pc'[p] = "check" /\ Alone(p)
    BY Zenon, <1>4, SyncEffect
  <2>2. KindOK(p)'
    BY Zenon, <1>0, <2>1 DEF KindOK, WritePCs
  <2>. QED
    BY Zenon, <2>1, <2>2, KindMove
<1>5. ASSUME NEW p \in Procs, Check(p) \/ Again(p) PROVE KindInv'
  <2>1. waiter' = waiter /\ pc'[p] = "idle" /\ Alone(p)
    BY Zenon, <1>5, CheckEffect, AgainEffect
  <2>2. KindOK(p)'
    BY Zenon, <2>1 DEF KindOK, WritePCs
  <2>. QED
    BY Zenon, <2>1, <2>2, KindMove
<1>6. ASSUME NEW p \in Procs, Reset(p) \/ WakeOne(p) PROVE KindInv'
  <2>1. UNCHANGED <<pc, waiter>>
    BY Zenon, <1>6, ResetEffect, WakeOneEffect
  <2>. QED
    BY Zenon, <2>1 DEF KindInv
<1>7. ASSUME NEW p \in Procs, PollClosedRegister(p) \/ WantedRegister(p) PROVE KindInv'
  <2>1. /\ waiter' = waiter /\ Alone(p)
        /\ (pc[p] = "closedreg" /\ pc'[p] = "closed2") \/ (pc[p] = "wantedreg" /\ pc'[p] = "wanted2")
    BY Zenon, <1>7, JoinEffect
  <2>2. KindOK(p)'
    BY Zenon, <1>0, <2>1 DEF KindOK, WritePCs
  <2>. QED
    BY Zenon, <2>1, <2>2, KindMove
<1>8. ASSUME NEW p \in Procs, PollClosedRecheck(p) PROVE KindInv'
  <2>1. waiter' = waiter /\ Alone(p) /\ pc[p] = "closed2" /\ pc'[p] \in {"ready", "idle"}
    BY Zenon, <1>8, RecheckEffect
  <2>2. KindOK(p)'
    BY Zenon, <1>0, <2>1 DEF KindOK, WritePCs
  <2>. QED
    BY Zenon, <2>1, <2>2, KindMove
<1>9. ASSUME NEW p \in Procs, Guards(p) PROVE KindInv'
  <2>1. /\ waiter' = waiter /\ Alone(p)
        /\ \/ Kind[p] = "write" /\ pc'[p] = "reading"
           \/ pc[p] \in {"reading", "published"} /\ pc'[p] \in {"locked", "unlocked"}
           \/ pc'[p] = (IF Kind[p] = "write" THEN "idle" ELSE "ready")
    BY Zenon, <1>9, GuardEffect
  <2>2. KindOK(p)'
    BY Zenon, <1>0, <2>1 DEF KindOK, WritePCs
  <2>. QED
    BY Zenon, <2>1, <2>2, KindMove
<1>10. ASSUME NEW p \in Procs, Publishes(p) \/ WakeTake(p) \/ WakeSync(p) PROVE KindInv'
  <2>1. /\ waiter' = waiter /\ pc[p] \in {"reading", "locked", "unlocked", "wakesync"}
        /\ \E at \in {"published", "wakesync", "waking"} : Goto(p, at)
    BY Zenon, <1>10 DEF Publishes, Publish, Close, WakeTake, WakeSync, taskVars
  <2>2. Alone(p) /\ pc'[p] \in {"published", "wakesync", "waking"}
    BY Zenon, <2>1, GotoAlone
  <2>3. KindOK(p)'
    BY Zenon, <1>0, <2>1, <2>2 DEF KindOK, WritePCs
  <2>. QED
    BY Zenon, <2>1, <2>2, <2>3, KindMove
<1>11. ASSUME NEW p \in Procs, WakeDone(p) PROVE KindInv'
  <2>1. waiter' = waiter /\ Alone(p) /\ pc'[p] = (IF Kind[p] = "write" THEN "idle" ELSE "ready")
    BY Zenon, <1>11, WakeDoneEffect
  <2>2. KindOK(p)'
    BY Zenon, <1>0, <2>1 DEF KindOK, WritePCs
  <2>. QED
    BY Zenon, <2>1, <2>2, KindMove
<1>12. ASSUME NEW p \in Procs, WakeConsumer(p) PROVE KindInv'
  <2>1. waiter' = waiter /\ Alone(p) /\ Kind[p] = "write" /\ pc'[p] = "waking"
    BY Zenon, <1>12, WakeConsumerEffect
  <2>2. KindOK(p)'
    BY Zenon, <2>1 DEF KindOK, WritePCs
  <2>. QED
    BY Zenon, <2>1, <2>2, KindMove
<1>13. CASE UNCHANGED vars
  BY Zenon, <1>13 DEF vars, taskVars, KindInv
<1>. QED
  BY Zenon, <1>1, <1>2, <1>3, <1>4, <1>5, <1>6, <1>7, <1>8, <1>9, <1>10, <1>11, <1>12, <1>13, Steps

\* What TagInv says of one waiter.
TagOK(w) ==
    /\ record[w].serial = 0 => record[w] = NoTag
    /\ record[w].serial <= serials
    /\ tag # NoTag /\ record[w].serial = tag.serial => record[w].round <= tag.round
    /\ Live(w) /\ tag # NoTag /\ record[w] = tag => w \in list["value"]

\* The tag, the records and the live entries of the list move in a registration or a drain
\* only.
LEMMA TagFrame ==
    ASSUME TagInv, UNCHANGED <<tag, serials, record, waiter>>,
           \A q \in Procs : waiter[q] \in list["value"] => waiter[q] \in list'["value"]
    PROVE  TagInv'
<1>1. ASSUME NEW w \in Waiters PROVE TagOK(w)'
  <2>1. TagOK(w)
    BY Zenon DEF TagInv, TagOK
  <2>2. Live(w)' => Live(w)
    BY Zenon DEF Live
  <2>3. Live(w) /\ w \in list["value"] => w \in list'["value"]
    BY Zenon DEF Live
  <2>. QED
    BY Zenon, <2>1, <2>2, <2>3 DEF TagOK
<1>2. (tag'.serial = 0 => tag' = NoTag) /\ (tag' # NoTag => tag'.serial = serials')
  BY Zenon DEF TagInv
<1>. QED
  BY Zenon, <1>1, <1>2 DEF TagInv, TagOK

\* A registration records the tag of the list it joins, and a drain moves the tag before
\* the entries are gone from the list.
LEMMA TagStep ==
    TagInv /\ TypeOK /\ LockInv /\ KindInv /\ [Next]_vars => TagInv'
<1> SUFFICES ASSUME TagInv, TypeOK, LockInv, KindInv, [Next]_vars PROVE TagInv'
  OBVIOUS
<1>0. /\ \A w \in Waiters : TagOK(w)
      /\ (tag.serial = 0 => tag = NoTag) /\ (tag # NoTag => tag.serial = serials)
      /\ tag \in Tags /\ serials \in Nat /\ record \in [Waiters -> Tags]
      /\ waiter \in [Procs -> Waiters \cup {NoWaiter}]
  BY Zenon DEF TagInv, TagOK, TypeOK
<1>1. ASSUME NEW p \in Procs, Begin(p) PROVE TagInv'
  <2>1. /\ UNCHANGED <<list, tag, serials>> /\ waiter'[p] \in Waiters
        /\ waiter' = [waiter EXCEPT ![p] = waiter'[p]]
        /\ UNCHANGED <<waiter, record>> \/ Renew(p, waiter'[p])
    BY Zenon, <1>1, BeginEffect
  <2>2. CASE UNCHANGED <<waiter, record>>
    BY Zenon, <2>1, <2>2, TagFrame
  <2>3. CASE Renew(p, waiter'[p])
    <3>1. \A x \in Waiters : record'[x] = IF x = waiter'[p] THEN NoTag ELSE record[x]
      BY Zenon, <1>0, <2>1, <2>3 DEF Renew
    <3>2. ASSUME NEW x \in Waiters, x # waiter'[p], Live(x)' PROVE Live(x)
      BY Zenon, <1>0, <2>1, <3>2 DEF Live
    <3>3. ASSUME NEW x \in Waiters, x # waiter'[p] PROVE TagOK(x)'
      <4>1. record'[x] = record[x] /\ TagOK(x)
        BY Zenon, <1>0, <3>1, <3>3
      <4>. QED
        BY Zenon, <2>1, <3>2, <3>3, <4>1 DEF TagOK
    <3>4. ASSUME NEW x \in Waiters, x = waiter'[p] PROVE TagOK(x)'
      <4>1. record'[x] = NoTag
        BY Zenon, <3>1, <3>4
      <4>2. NoTag.serial = 0 /\ NoTag.round = 0 /\ 0 <= serials /\ 0 <= tag.round
        BY <1>0 DEF NoTag, Tags
      <4>3. NoTag.serial <= serials /\ NoTag.round <= tag.round
        BY Zenon, <4>2
      <4>. QED
        BY Zenon, <2>1, <4>1, <4>3 DEF TagOK
    <3>5. \A x \in Waiters : TagOK(x)'
      BY Zenon, <3>3, <3>4
    <3>. QED
      BY Zenon, <1>0, <2>1, <3>5 DEF TagInv, TagOK
  <2>. QED
    BY Zenon, <2>1, <2>2, <2>3
<1>2. ASSUME NEW p \in Procs, Looks(p) PROVE TagInv'
  BY Zenon, <1>2, LookEffect, TagFrame
<1>3. ASSUME NEW p \in Procs, Register(p) PROVE TagInv'
  <2>1. /\ UNCHANGED waiter /\ pc[p] = "register" /\ Grows(p, "value")
        /\ record[waiter[p]] = tag' => UNCHANGED <<list, record>>
        /\ record[waiter[p]] # tag' => waiter[p] \in list'["value"]
        /\ tag = NoTag => tag' = [serial |-> serials + 1, round |-> 0] /\ serials' = serials + 1
        /\ tag # NoTag => tag' = tag /\ serials' = serials
        /\ record' = record \/ record' = [record EXCEPT ![waiter[p]] = tag']
    BY Zenon, <1>3, RegisterEffect
  <2>2. waiter[p] \in Waiters
    BY Zenon, <2>1, TaskWaiter DEF PollPCs
  <2>3. \A w \in Waiters : record'[w] = record[w] \/ (w = waiter[p] /\ record'[w] = tag')
    BY Zenon, <1>0, <2>1, <2>2
  <2>4. \A w : Live(w)' => Live(w)
    BY Zenon, <2>1 DEF Live
  <2>5. \A w : Live(w) /\ w \in list["value"] => w \in list'["value"]
    BY Zenon, <2>1 DEF Live, Grows
  <2>6. CASE tag # NoTag
    <3>1. tag.serial <= serials /\ tag.round <= tag.round
      BY <1>0, <2>6 DEF Tags
    <3>2. waiter[p] \in list'["value"]
      BY Zenon, <1>0, <2>1, <2>2, <2>5, <2>6 DEF TagOK, Live
    <3>3. ASSUME NEW w \in Waiters PROVE TagOK(w)'
      <4>1. tag' = tag /\ serials' = serials /\ TagOK(w)
        BY Zenon, <1>0, <2>1, <2>6
      <4>2. CASE record'[w] = record[w]
        BY Zenon, <2>4, <2>5, <4>1, <4>2 DEF TagOK
      <4>3. CASE w = waiter[p] /\ record'[w] = tag'
        BY Zenon, <1>0, <3>1, <3>2, <4>1, <4>3 DEF TagOK
      <4>. QED
        BY Zenon, <2>3, <4>2, <4>3
    <3>. QED
      BY Zenon, <1>0, <2>1, <2>6, <3>3 DEF TagInv, TagOK
  <2>7. CASE tag = NoTag
    <3>1. tag' = [serial |-> serials + 1, round |-> 0] /\ serials' = serials + 1
      BY Zenon, <2>1, <2>7
    <3>2. tag'.serial = serials' /\ tag'.serial # 0 /\ tag'.serial <= serials' /\ tag'.round <= tag'.round
      BY <1>0, <3>1
    <3>3. ASSUME NEW n \in Nat, n <= serials PROVE n <= serials' /\ n # tag'.serial
      BY <1>0, <3>1, <3>3
    <3>4. \A w \in Waiters : record[w].serial \in Nat
      BY <1>0 DEF Tags
    <3>5. ASSUME NEW w \in Waiters PROVE TagOK(w)'
      <4>1. record[w].serial <= serials' /\ record[w].serial # tag'.serial
        BY Zenon, <1>0, <3>3, <3>4 DEF TagOK
      <4>2. CASE record'[w] = record[w]
        BY Zenon, <1>0, <4>1, <4>2 DEF TagOK
      <4>3. CASE w = waiter[p] /\ record'[w] = tag'
        BY Zenon, <2>1, <3>2, <4>1, <4>3 DEF TagOK
      <4>. QED
        BY Zenon, <2>3, <4>2, <4>3
    <3>. QED
      BY Zenon, <3>2, <3>5 DEF TagInv, TagOK
  <2>. QED
    BY Zenon, <2>6, <2>7
<1>4. ASSUME NEW p \in Procs, Sync(p) PROVE TagInv'
  BY Zenon, <1>4, SyncEffect, TagFrame
<1>5. ASSUME NEW p \in Procs, Check(p) PROVE TagInv'
  BY Zenon, <1>5, CheckEffect, TagFrame
<1>6. ASSUME NEW p \in Procs, Reset(p) PROVE TagInv'
  BY Zenon, <1>6, ResetEffect, TagFrame
<1>7. ASSUME NEW p \in Procs, Again(p) PROVE TagInv'
  BY Zenon, <1>7, AgainEffect, TagFrame
<1>8. ASSUME NEW p \in Procs, PollClosedRegister(p) \/ WantedRegister(p) PROVE TagInv'
  <2>1. UNCHANGED <<tag, serials, record, waiter>> /\ (Grows(p, "closed") \/ Grows(p, "consumer"))
    BY Zenon, <1>8, JoinEffect
  <2>2. list'["value"] = list["value"]
    BY Zenon, <2>1 DEF Grows, Lists
  <2>. QED
    BY Zenon, <2>1, <2>2, TagFrame
<1>9. ASSUME NEW p \in Procs, PollClosedRecheck(p) PROVE TagInv'
  BY Zenon, <1>9, RecheckEffect, TagFrame
<1>10. ASSUME NEW p \in Procs, Guards(p) PROVE TagInv'
  BY Zenon, <1>10, GuardEffect, TagFrame
<1>11. ASSUME NEW p \in Procs, Publishes(p) PROVE TagInv'
  <2>1. UNCHANGED <<list, tag, serials, record, waiter>>
    BY Zenon, <1>11 DEF Publishes, Publish, Close, listVars, taskVars
  <2>. QED
    BY Zenon, <2>1, TagFrame
<1>12. ASSUME NEW p \in Procs, WakeTake(p) PROVE TagInv'
  <2>1. UNCHANGED <<serials, record, waiter>> /\ tag' = drained /\ list'["value"] = {}
    BY Zenon, <1>12, TakeEffect
  <2>2. \A w : Live(w)' => Live(w)
    BY Zenon, <2>1 DEF Live
  <2>3. CASE tag' = tag /\ (tag = NoTag \/ list["value"] = {})
    <3>1. ASSUME NEW w \in Waiters PROVE TagOK(w)'
      BY Zenon, <1>0, <2>1, <2>2, <2>3 DEF TagOK
    <3>. QED
      BY Zenon, <1>0, <2>1, <2>3, <3>1 DEF TagInv, TagOK
  <2>4. CASE tag' = NoTag
    <3>1. ASSUME NEW w \in Waiters PROVE TagOK(w)'
      BY Zenon, <1>0, <2>1, <2>4 DEF TagOK
    <3>. QED
      BY Zenon, <2>4, <3>1 DEF TagInv, TagOK
  <2>5. CASE tag # NoTag /\ tag' = [serial |-> tag.serial, round |-> tag.round + 1]
    <3>1. tag'.serial = tag.serial /\ tag'.round = tag.round + 1 /\ tag.round \in Nat
      BY <1>0, <2>5 DEF Tags
    <3>2. ASSUME NEW n \in Nat, n <= tag.round PROVE n <= tag'.round /\ n # tag'.round
      BY <3>1, <3>2
    <3>3. \A w \in Waiters : record[w].round \in Nat
      BY <1>0 DEF Tags
    <3>4. ASSUME NEW w \in Waiters PROVE TagOK(w)'
      <4>1. record[w].serial = tag'.serial => record[w].round <= tag'.round /\ record[w].round # tag'.round
        BY Zenon, <1>0, <2>5, <3>1, <3>2, <3>3 DEF TagOK
      <4>. QED
        BY Zenon, <1>0, <2>1, <4>1 DEF TagOK
    <3>. QED
      BY Zenon, <1>0, <2>1, <2>5, <3>1, <3>4 DEF TagInv, TagOK
  <2>. QED
    BY Zenon, <2>1, <2>3, <2>4, <2>5 DEF drained
<1>13. ASSUME NEW p \in Procs, WakeSync(p) PROVE TagInv'
  BY Zenon, <1>13, WakeSyncEffect, TagFrame
<1>14. ASSUME NEW p \in Procs, WakeOne(p) PROVE TagInv'
  BY Zenon, <1>14, WakeOneEffect, TagFrame
<1>15. ASSUME NEW p \in Procs, WakeDone(p) PROVE TagInv'
  BY Zenon, <1>15, WakeDoneEffect, TagFrame
<1>16. ASSUME NEW p \in Procs, WakeConsumer(p) PROVE TagInv'
  <2>1. UNCHANGED <<tag, serials, record, waiter>> /\ \A l \in Lists : l # "consumer" => list'[l] = list[l]
    BY Zenon, <1>16, WakeConsumerEffect
  <2>2. list'["value"] = list["value"]
    BY Zenon, <2>1 DEF Lists
  <2>. QED
    BY Zenon, <2>1, <2>2, TagFrame
<1>17. CASE UNCHANGED vars
  <2>1. UNCHANGED <<list, tag, serials, record, waiter>>
    BY Zenon, <1>17 DEF vars, listVars, taskVars
  <2>. QED
    BY Zenon, <2>1, TagFrame
<1>. QED
  BY Zenon, <1>1, <1>2, <1>3, <1>4, <1>5, <1>6, <1>7, <1>8, <1>9, <1>10, <1>11, <1>12, <1>13, <1>14,
     <1>15, <1>16, <1>17, Steps

\* The mirror is moved by a registration and a drain only: the rest of a call leaves it and
\* the records alone.
LEMMA MirrorFrame ==
    ASSUME MirrorInv, UNCHANGED <<tag, value_tag, record, waiter>>,
           \A q \in Procs : \/ pc'[q] = pc[q] /\ taken'[q] = taken[q]
                            \/ {pc[q], pc'[q]} \cap {"sync", "wakesync"} = {}
    PROVE  MirrorInv'
<1>1. ASSUME NEW w PROVE Live(w)' <=> Live(w)
  BY Zenon DEF Live
<1>2. \A q \in Procs : pc'[q] \in {"sync", "wakesync"} <=> pc[q] \in {"sync", "wakesync"}
  BY Zenon
<1>3. \A q \in Procs : pc'[q] \in {"sync", "wakesync"} => pc'[q] = pc[q] /\ taken'[q] = taken[q]
  BY Zenon
<1>4. (\A q \in Procs : pc'[q] \notin {"sync", "wakesync"}) => value_tag' = tag'
  BY Zenon, <1>2 DEF MirrorInv
<1>5. ASSUME NEW q \in Procs
      PROVE  /\ pc'[q] = "sync" => value_tag' = tag' \/ value_tag' = NoTag
             /\ pc'[q] = "wakesync" =>
                  \A w \in Waiters :
                      Live(w)' /\ value_tag' # NoTag /\ record'[w] = value_tag' => w \in taken'[q]
  BY Zenon, <1>1, <1>3 DEF MirrorInv
<1>. QED
  BY Zenon, <1>4, <1>5 DEF MirrorInv

\* So does a process that only goes on.
LEMMA MirrorMove ==
    ASSUME MirrorInv, NEW p \in Procs, Alone(p), UNCHANGED <<tag, value_tag, record, waiter>>,
           pc[p] \notin {"sync", "wakesync"}, pc'[p] \notin {"sync", "wakesync"},
           \A q \in Procs : q # p => taken'[q] = taken[q]
    PROVE  MirrorInv'
<1>1. {pc[p], pc'[p]} \cap {"sync", "wakesync"} = {}
  BY Zenon
<1>. QED
  BY Zenon, <1>1, MirrorFrame DEF Alone

\* No step moves the mirror without the tag, or leaves it on a tag whose drain is over.
LEMMA MirrorStep ==
    MirrorInv /\ TypeOK /\ LockInv /\ KindInv /\ TagInv /\ [Next]_vars => MirrorInv'
<1> SUFFICES ASSUME MirrorInv, TypeOK, LockInv, KindInv, TagInv, [Next]_vars PROVE MirrorInv'
  OBVIOUS
<1>1. ASSUME NEW p \in Procs, Begin(p) PROVE MirrorInv'
  <2>1. /\ UNCHANGED <<tag, value_tag, taken>> /\ pc[p] = "idle" /\ p \in Tasks
        /\ UNCHANGED <<waiter, record>> \/ \E w \in Waiters : Renew(p, w)
        /\ Goto(p, FirstStep[Kind[p]])
    BY Zenon, <1>1 DEF Begin, wakeVars
  <2>2. FirstStep[Kind[p]] \notin {"sync", "wakesync"} /\ pc[p] \notin {"sync", "wakesync"}
    BY <2>1, FirstSteps
  <2>3. CASE UNCHANGED <<waiter, record>>
    BY Zenon, <2>1, <2>2, <2>3, GotoAlone, MirrorMove
  <2>4. ASSUME NEW w \in Waiters, Renew(p, w) PROVE MirrorInv'
    <3>1. pc'[p] = FirstStep[Kind[p]] /\ \A q \in Procs : q # p => pc'[q] = pc[q]
      BY Zenon, <2>1 DEF Goto, TypeOK
    <3>2. \A q \in Procs : pc'[q] \in {"sync", "wakesync"} => pc'[q] = pc[q]
      BY Zenon, <2>2, <3>1
    <3>3. \A q \in Procs : pc[q] \in {"sync", "wakesync"} => pc'[q] = pc[q]
      BY Zenon, <2>2, <3>1
    <3>4. /\ record'[w] = NoTag /\ \A x \in Waiters : x # w => record'[x] = record[x]
          /\ waiter'[p] = w /\ \A q \in Procs : q # p => waiter'[q] = waiter[q]
      BY Zenon, <2>4 DEF Renew, TypeOK
    <3>5. \A x \in Waiters : Live(x)' /\ x # w => Live(x)
      BY Zenon, <3>4 DEF Live
    <3>6. (\A q \in Procs : pc'[q] \notin {"sync", "wakesync"}) => value_tag' = tag'
      BY Zenon, <2>1, <3>3 DEF MirrorInv
    <3>7. ASSUME NEW q \in Procs, pc'[q] = "wakesync", NEW x \in Waiters, Live(x)',
                 value_tag' # NoTag, record'[x] = value_tag'
          PROVE  x \in taken'[q]
      <4>1. x # w
        BY Zenon, <3>4, <3>7
      <4>2. Live(x) /\ record[x] = value_tag /\ value_tag # NoTag /\ pc[q] = "wakesync"
        BY Zenon, <2>1, <3>2, <3>4, <3>5, <3>7, <4>1
      <4>. QED
        BY Zenon, <2>1, <4>2 DEF MirrorInv
    <3>8. ASSUME NEW q \in Procs, pc'[q] = "sync" PROVE value_tag' = tag' \/ value_tag' = NoTag
      BY Zenon, <2>1, <3>2, <3>8 DEF MirrorInv
    <3>. QED
      BY Zenon, <3>6, <3>7, <3>8 DEF MirrorInv
  <2>. QED
    BY Zenon, <2>1, <2>3, <2>4
<1>2. ASSUME NEW p \in Procs, Looks(p) PROVE MirrorInv'
  BY Zenon, <1>2, LookEffect, MirrorMove
<1>3. ASSUME NEW p \in Procs, Sync(p) \/ WakeSync(p) PROVE MirrorInv'
  <2>1. /\ value_tag' = tag /\ tag' = tag /\ wlock = p
        /\ \E at \in {"check", "waking"} : Goto(p, at)
    BY Zenon, <1>3 DEF Sync, WakeSync, listVars, LockInv
  <2>2. \A q \in Procs : q # p => pc'[q] = pc[q] /\ pc[q] \notin {"sync", "wakesync"}
    BY <2>1 DEF Goto, TypeOK, LockInv
  <2>3. pc'[p] \notin {"sync", "wakesync"}
    BY <2>1 DEF Goto, TypeOK
  <2>4. \A q \in Procs : pc'[q] \notin {"sync", "wakesync"}
    BY Zenon, <2>2, <2>3
  <2>. QED
    BY Zenon, <2>1, <2>4 DEF MirrorInv
<1>4. ASSUME NEW p \in Procs, Register(p) PROVE MirrorInv'
  <2>1. /\ wlock = Nobody /\ Goto(p, "sync") /\ UNCHANGED <<value_tag, waiter, taken>>
        /\ tag = NoTag \/ tag' = tag
    BY Zenon, <1>4 DEF Register, taskVars, wakeVars
  <2>2. \A q \in Procs : pc[q] \notin {"sync", "wakesync"}
    BY <2>1, ChannelAssumption DEF LockInv
  <2>3. value_tag = tag
    BY Zenon, <2>2 DEF MirrorInv
  <2>4. \A q \in Procs : pc'[q] # "wakesync"
    BY <2>1, <2>2 DEF Goto, TypeOK
  <2>5. pc'[p] = "sync"
    BY Zenon, <2>1 DEF Goto, TypeOK
  <2>. QED
    BY Zenon, <2>1, <2>3, <2>4, <2>5 DEF MirrorInv
<1>5. ASSUME NEW p \in Procs, WakeTake(p) PROVE MirrorInv'
  <2>1. /\ wlock = Nobody /\ Goto(p, "wakesync") /\ UNCHANGED <<value_tag, waiter, record>>
    BY Zenon, <1>5 DEF WakeTake, taskVars
  <2>2. \A q \in Procs : pc[q] \notin {"sync", "wakesync"}
    BY <2>1, ChannelAssumption DEF LockInv
  <2>3. value_tag = tag /\ pc'[p] = "wakesync"
    BY Zenon, <2>1, <2>2 DEF MirrorInv, Goto, TypeOK
  <2>4. \A q \in Procs : pc'[q] # "sync" /\ (pc'[q] = "wakesync" => q = p)
    BY <2>1, <2>2 DEF Goto, TypeOK
  <2>5. ASSUME NEW w \in Waiters, Live(w)', value_tag' # NoTag, record'[w] = value_tag'
        PROVE  w \in taken'[p]
    <3>1. Live(w) /\ tag # NoTag /\ record[w] = tag
      BY Zenon, <2>1, <2>3, <2>5 DEF Live
    <3>2. w \in list["value"]
      BY Zenon, <3>1 DEF TagInv
    <3>3. PICK took : "value" \in took /\ taken' = [taken EXCEPT ![p] = UNION {list[l] : l \in took}]
      BY Zenon, <1>5, <3>1, <3>2 DEF WakeTake, Lists
    <3>4. taken'[p] = UNION {list[l] : l \in took}
      BY Zenon, <3>3 DEF TypeOK
    <3>. QED
      BY <3>2, <3>3, <3>4
  <2>. QED
    BY Zenon, <2>3, <2>4, <2>5 DEF MirrorInv
<1>6. ASSUME NEW p \in Procs, Check(p) PROVE MirrorInv'
  BY Zenon, <1>6, CheckEffect, MirrorMove
<1>7. ASSUME NEW p \in Procs, Again(p) PROVE MirrorInv'
  BY Zenon, <1>7, AgainEffect, MirrorMove
<1>8. ASSUME NEW p \in Procs, PollClosedRegister(p) \/ WantedRegister(p) PROVE MirrorInv'
  BY Zenon, <1>8, JoinEffect, MirrorMove
<1>9. ASSUME NEW p \in Procs, PollClosedRecheck(p) PROVE MirrorInv'
  BY Zenon, <1>9, RecheckEffect, MirrorMove
<1>10. ASSUME NEW p \in Procs, Guards(p) PROVE MirrorInv'
  BY Zenon, <1>10, GuardEffect, MirrorMove
<1>11. ASSUME NEW p \in Procs, Publishes(p) PROVE MirrorInv'
  <2>1. /\ UNCHANGED <<tag, value_tag, record, waiter, taken>> /\ pc[p] \in {"reading", "locked"}
        /\ Goto(p, "published")
    BY Zenon, <1>11 DEF Publishes, Publish, Close, listVars, taskVars
  <2>2. pc'[p] = "published" /\ Alone(p)
    BY Zenon, <2>1, GotoAlone
  <2>. QED
    BY Zenon, <2>1, <2>2, MirrorMove
<1>12. ASSUME NEW p \in Procs, WakeDone(p) PROVE MirrorInv'
  BY Zenon, <1>12, WakeDoneEffect, MirrorMove
<1>13. ASSUME NEW p \in Procs, WakeConsumer(p) PROVE MirrorInv'
  BY Zenon, <1>13, WakeConsumerEffect, MirrorMove
<1>14. ASSUME NEW p \in Procs, WakeOne(p) PROVE MirrorInv'
  <2>1. /\ UNCHANGED <<tag, value_tag, record, waiter, pc>> /\ pc[p] = "waking"
        /\ \A q \in Procs : q # p => taken'[q] = taken[q]
    BY Zenon, <1>14, WakeOneEffect
  <2>2. {pc[p], pc'[p]} \cap {"sync", "wakesync"} = {}
    BY Zenon, <2>1
  <2>. QED
    BY Zenon, <2>1, <2>2, MirrorFrame
<1>15. ASSUME NEW p \in Procs, Reset(p) PROVE MirrorInv'
  BY Zenon, <1>15, ResetEffect, MirrorFrame
<1>16. CASE UNCHANGED vars
  <2>1. UNCHANGED <<tag, value_tag, record, waiter, taken, pc>>
    BY Zenon, <1>16 DEF vars, listVars, taskVars, wakeVars
  <2>. QED
    BY Zenon, <2>1, MirrorFrame
<1>. QED
  BY Zenon, <1>1, <1>2, <1>3, <1>4, <1>5, <1>6, <1>7, <1>8, <1>9, <1>10, <1>11, <1>12, <1>13, <1>14,
     <1>15, <1>16, Steps

\* A record under the mirrored tag proves the waiter parked: on the list, or in the snapshot
\* of the drain that has the mirror to move.
LEMMA HoldsParked == TypeOK /\ KindInv /\ TagInv /\ MirrorInv => HoldsProvesParked
<1> SUFFICES ASSUME TypeOK, KindInv, TagInv, MirrorInv,
                    NEW t \in Tasks, holds(t, value_tag)
             PROVE  \/ waiter[t] \in list["value"]
                    \/ \E p \in Procs : pc[p] = "wakesync" /\ waiter[t] \in taken[p]
  BY DEF HoldsProvesParked
<1>1. waiter[t] \in Waiters /\ Live(waiter[t])
  BY DEF TypeOK, KindInv, Live, Tasks
<1>2. CASE value_tag = tag
  BY <1>1, <1>2 DEF TagInv, holds
<1>3. CASE value_tag # tag
  BY <1>1, <1>3 DEF MirrorInv, holds
<1> QED
  BY <1>2, <1>3

\* The other tasks see nothing of a step of p, as far as the value and the closure go.
Keeps(p) ==
    /\ UNCHANGED <<value, version>> /\ Alone(p)
    /\ \A q \in Procs : q # p => /\ waiter'[q] = waiter[q] /\ woken'[q] = woken[q] /\ seen'[q] = seen[q]
                                 /\ judged'[q] = judged[q] /\ closing'[q] = closing[q]
    /\ \A q \in Procs : taken[q] \subseteq taken'[q]
    /\ \A q \in Tasks : q # p => /\ waiter[q] \in list'["value"] <=> waiter[q] \in list["value"]
                                 /\ waiter[q] \in list'["closed"] <=> waiter[q] \in list["closed"]
    /\ \/ pc[p] \notin {"published", "unlocked"}
       \/ pc'[p] \in {"published", "unlocked"} /\ closing'[p] = closing[p]

\* A registration is one of its own waiter only.
LEMMA GrowsOwn ==
    ASSUME KindInv, NEW p \in Tasks, NEW l \in Lists, Grows(p, l)
    PROVE  \A q \in Tasks : q # p => \A m \in Lists : waiter[q] \in list'[m] <=> waiter[q] \in list[m]
<1>1. ASSUME NEW q \in Tasks, q # p PROVE waiter[q] # waiter[p]
  BY Zenon, <1>1 DEF KindInv
<1>2. ASSUME NEW q \in Tasks, q # p PROVE waiter[q] \in list'[l] <=> waiter[q] \in list[l]
  <2>1. q \in Procs
    BY Zenon DEF Tasks
  <2>. QED
    BY Zenon, <1>1, <1>2, <2>1 DEF Grows
<1>. QED
  BY Zenon, <1>2 DEF Grows

\* All steps but a publish, the taking of the lists and a wake are like that.
LEMMA Keeping ==
    ASSUME TypeOK, LockInv, KindInv, NEW p \in Procs,
           \/ Begin(p) \/ Looks(p) \/ Register(p) \/ Sync(p) \/ Check(p) \/ Reset(p) \/ Again(p)
           \/ PollClosedRegister(p) \/ WantedRegister(p) \/ PollClosedRecheck(p)
           \/ Guards(p) \/ WakeSync(p) \/ WakeDone(p) \/ WakeConsumer(p)
    PROVE  Keeps(p)
<1>0. /\ waiter \in [Procs -> Waiters \cup {NoWaiter}] /\ woken \in [Procs -> BOOLEAN]
      /\ seen \in [Procs -> Nat] /\ judged \in [Procs -> Nat] /\ closing \in [Procs -> BOOLEAN]
      /\ pc = [q \in Procs |-> pc[q]]
  BY Zenon DEF TypeOK
<1>1. CASE Begin(p)
  <2>1. /\ UNCHANGED <<value, version, list, seen, judged, closing, taken>> /\ pc[p] = "idle" /\ Alone(p)
        /\ woken' = [woken EXCEPT ![p] = FALSE] /\ waiter' = [waiter EXCEPT ![p] = waiter'[p]]
    BY Zenon, <1>1, BeginEffect
  <2>2. \A q \in Procs : q # p => waiter'[q] = waiter[q] /\ woken'[q] = woken[q]
    BY Zenon, <1>0, <2>1
  <2>. QED
    BY Zenon, <2>1, <2>2 DEF Keeps
<1>2. CASE Looks(p)
  <2>1. /\ UNCHANGED <<value, version, list, waiter, woken, closing, taken>> /\ Alone(p)
        /\ seen' = seen \/ seen' = [seen EXCEPT ![p] = version]
        /\ judged' = judged \/ judged' = [judged EXCEPT ![p] = version]
    BY Zenon, <1>2, LookEffect
  <2>2. pc[p] \notin {"published", "unlocked"}
    BY Zenon, <1>2, LookEffect
  <2>3. \A q \in Procs : q # p => seen'[q] = seen[q] /\ judged'[q] = judged[q]
    BY Zenon, <1>0, <2>1
  <2>. QED
    BY Zenon, <2>1, <2>2, <2>3 DEF Keeps
<1>3. CASE Register(p)
  <2>1. /\ UNCHANGED <<value, version, waiter, woken, seen, judged, closing, taken>>
        /\ pc[p] = "register" /\ Alone(p) /\ Grows(p, "value")
    BY Zenon, <1>3, RegisterEffect
  <2>2. p \in Tasks /\ "value" \in Lists /\ "closed" \in Lists
    BY Zenon, <2>1 DEF KindInv, ValueTasks, Lists
  <2>. QED
    BY Zenon, <2>1, <2>2, GrowsOwn DEF Keeps
<1>4. CASE PollClosedRegister(p) \/ WantedRegister(p)
  <2>1. /\ UNCHANGED <<value, version, waiter, woken, seen, judged, closing, taken>> /\ Alone(p)
        /\ pc[p] \in {"closedreg", "wantedreg"} /\ \E l \in {"closed", "consumer"} : Grows(p, l)
    BY Zenon, <1>4, JoinEffect
  <2>2. p \in Tasks
    BY Zenon, <2>1 DEF KindInv, ClosedTasks, Tasks
  <2>3. "value" \in Lists /\ "closed" \in Lists /\ "consumer" \in Lists
    BY Zenon DEF Lists
  <2>4. \E l \in Lists : Grows(p, l)
    BY Zenon, <2>1, <2>3
  <2>5. \A q \in Tasks : q # p => \A m \in Lists : waiter[q] \in list'[m] <=> waiter[q] \in list[m]
    BY Zenon, <2>2, <2>4, GrowsOwn
  <2>. QED
    BY Zenon, <2>1, <2>3, <2>5 DEF Keeps
<1>5. CASE Sync(p) \/ PollClosedRecheck(p) \/ WakeSync(p)
  <2>1. /\ UNCHANGED <<value, version, list, waiter, woken, seen, judged, closing, taken>> /\ Alone(p)
        /\ pc[p] \in {"sync", "closed2", "wakesync"}
    BY Zenon, <1>5, SyncEffect, RecheckEffect, WakeSyncEffect
  <2>. QED
    BY Zenon, <2>1 DEF Keeps
<1>6. CASE Guards(p)
  <2>1. /\ UNCHANGED <<value, version, list, waiter, woken, seen, judged, closing, taken>> /\ Alone(p)
        /\ pc[p] = "published" => pc'[p] = "unlocked"
        /\ pc[p] # "unlocked"
    BY Zenon, <1>6, GuardEffect
  <2>. QED
    BY Zenon, <2>1 DEF Keeps
<1>7. CASE Check(p) \/ Again(p)
  <2>1. /\ UNCHANGED <<value, version, list, waiter, seen, judged, closing, taken>> /\ Alone(p)
        /\ pc[p] \in {"check", "ready"} /\ \E b : woken' = [woken EXCEPT ![p] = b]
    BY Zenon, <1>7, CheckEffect, AgainEffect
  <2>2. \A q \in Procs : q # p => woken'[q] = woken[q]
    BY Zenon, <1>0, <2>1
  <2>. QED
    BY Zenon, <2>1, <2>2 DEF Keeps
<1>8. CASE Reset(p)
  <2>1. /\ UNCHANGED <<value, version, list, waiter, woken, seen, closing, taken, pc>>
        /\ pc[p] = "ready" /\ judged' = [judged EXCEPT ![p] = UNJUDGED]
    BY Zenon, <1>8, ResetEffect
  <2>2. \A q \in Procs : q # p => judged'[q] = judged[q]
    BY Zenon, <1>0, <2>1
  <2>. QED
    BY Zenon, <1>0, <2>1, <2>2 DEF Keeps, Alone
<1>9. CASE WakeDone(p)
  <2>1. /\ UNCHANGED <<value, version, list, waiter, woken, seen, judged, taken>> /\ Alone(p)
        /\ pc[p] = "waking" /\ closing' = [closing EXCEPT ![p] = FALSE]
    BY Zenon, <1>9, WakeDoneEffect
  <2>2. \A q \in Procs : q # p => closing'[q] = closing[q]
    BY Zenon, <1>0, <2>1
  <2>. QED
    BY Zenon, <2>1, <2>2 DEF Keeps
<1>10. CASE WakeConsumer(p)
  <2>1. /\ UNCHANGED <<value, version, waiter, woken, seen, judged, closing>> /\ Alone(p) /\ pc[p] = "idle"
        /\ \A l \in Lists : l # "consumer" => list'[l] = list[l]
        /\ \A q \in Procs : q # p => taken'[q] = taken[q]
    BY Zenon, <1>10, WakeConsumerEffect
  <2>2. taken[p] = {}
    BY Zenon, <2>1 DEF LockInv
  <2>3. \A q \in Procs : taken[q] \subseteq taken'[q]
    BY Zenon, <2>1, <2>2
  <2>4. list'["value"] = list["value"] /\ list'["closed"] = list["closed"]
    BY Zenon, <2>1 DEF Lists
  <2>. QED
    BY Zenon, <2>1, <2>3, <2>4 DEF Keeps
<1>. QED
  BY Zenon, <1>1, <1>2, <1>3, <1>4, <1>5, <1>6, <1>7, <1>8, <1>9, <1>10

\* A drain that is due stays due, and an entry taken stays taken.
LEMMA KeepsDue ==
    ASSUME NEW p \in Procs, Keeps(p)
    PROVE  /\ Draining(FALSE) => Draining(FALSE)'
           /\ Draining(TRUE) => Draining(TRUE)'
           /\ \A t \in Procs : t # p => (Taken(t) => Taken(t)') /\ (Asleep(t)' <=> Asleep(t))
<1>1. \A q \in Procs : pc[q] \in {"published", "unlocked"} => pc'[q] \in {"published", "unlocked"} /\ closing'[q] = closing[q]
  BY Zenon DEF Keeps, Alone
<1>2. Draining(FALSE) => Draining(FALSE)'
  BY Zenon, <1>1 DEF Draining
<1>3. Draining(TRUE) => Draining(TRUE)'
  BY Zenon, <1>1 DEF Draining
<1>4. ASSUME NEW t \in Procs, t # p PROVE (Taken(t) => Taken(t)') /\ (Asleep(t)' <=> Asleep(t))
  <2>1. pc'[t] = pc[t] /\ waiter'[t] = waiter[t] /\ woken'[t] = woken[t] /\ \A q \in Procs : taken[q] \subseteq taken'[q]
    BY Zenon, <1>4 DEF Keeps, Alone
  <2>2. Taken(t) => Taken(t)'
    BY Zenon, <2>1 DEF Taken
  <2>. QED
    BY Zenon, <2>1, <2>2 DEF Asleep
<1>. QED
  BY Zenon, <1>2, <1>3, <1>4

\* The others stay parked or awake through such a step.
LEMMA SleepOthers ==
    ASSUME SleepInv, NEW p \in Procs, Keeps(p)
    PROVE  \A t \in ValueTasks : t # p => SleepOK(t)'
<1> SUFFICES ASSUME NEW t \in ValueTasks, t # p PROVE SleepOK(t)'
  OBVIOUS
<1>1. t \in Procs /\ t \in Tasks /\ SleepOK(t)
  BY Zenon DEF ValueTasks, Tasks, SleepInv
<1>2. /\ pc'[t] = pc[t] /\ waiter'[t] = waiter[t] /\ woken'[t] = woken[t] /\ seen'[t] = seen[t] /\ version' = version
      /\ waiter[t] \in list'["value"] <=> waiter[t] \in list["value"]
  BY Zenon, <1>1 DEF Keeps, Alone
<1>3. (Draining(FALSE) => Draining(FALSE)') /\ (Taken(t) => Taken(t)') /\ (Asleep(t)' <=> Asleep(t))
  BY Zenon, <1>1, KeepsDue
<1>. QED
  BY Zenon, <1>1, <1>2, <1>3 DEF SleepOK, Parking

\* Where nothing is claimed of a task.
LEMMA SleepAway ==
    ASSUME NEW p \in Procs, pc'[p] \notin {"sync", "check", "retag", "park", "parkver", "idle"}
    PROVE  SleepOK(p)'
BY Zenon DEF SleepOK, Parking, Asleep

\* No step lets a parked task slip off the list unnoticed.
LEMMA SleepStep ==
    SleepInv /\ TypeOK /\ LockInv /\ VersionInv /\ KindInv /\ TagInv /\ MirrorInv /\ [Next]_vars
        => SleepInv'
<1> SUFFICES ASSUME SleepInv, TypeOK, LockInv, VersionInv, KindInv, TagInv, MirrorInv,
             [Next]_vars PROVE SleepInv'
  OBVIOUS
<1>0. ASSUME NEW p \in Procs, Keeps(p), p \in ValueTasks => SleepOK(p)' PROVE SleepInv'
  BY Zenon, <1>0, SleepOthers DEF SleepInv
<1>1. ASSUME NEW p \in Procs, Begin(p) PROVE SleepInv'
  BY Zenon, <1>0, <1>1, BeginEffect, SleepAway, Keeping
<1>2. ASSUME NEW p \in Procs, Looks(p) PROVE SleepInv'
  <2>1. ASSUME p \in ValueTasks, pc'[p] \in {"retag", "park", "parkver", "idle"} PROVE SleepOK(p)'
    <3>1. /\ UNCHANGED <<version, list, waiter, woken, closing, taken>> /\ SleepOK(p) /\ p \in Tasks
          /\ Kind[p] # "wanted" /\ p \notin ClosedTasks
      BY Zenon, <1>2, <2>1, LookEffect DEF SleepInv, ValueTasks, ClosedTasks
    <3>2. (Draining(FALSE) => Draining(FALSE)') /\ (Taken(p) => Taken(p)')
      <4>1. Keeps(p)
        BY Zenon, <1>2, Keeping
      <4>. QED
        BY Zenon, <3>1, <4>1, KeepsDue DEF Taken
    <3>3. ASSUME holds(p, value_tag) PROVE waiter[p] \in list["value"] \/ Taken(p)
      BY Zenon, <3>1, <3>3, HoldsParked DEF HoldsProvesParked, Taken
    <3>4. CASE Repoll(p)
      <4>1. (Goto(p, "retag") /\ seen' = [seen EXCEPT ![p] = version]) \/ Goto(p, "judge")
        BY Zenon, <3>4 DEF Repoll
      <4>2. seen' = [seen EXCEPT ![p] = version] => seen'[p] = version
        BY Zenon DEF TypeOK
      <4>3. (pc'[p] = "retag" /\ seen'[p] = version) \/ pc'[p] = "judge"
        BY Zenon, <4>1, <4>2, GotoAlone
      <4>. QED
        BY Zenon, <3>1, <4>3 DEF SleepOK, Parking, Asleep
    <3>5. CASE Judge(p)
      <4>1. (Goto(p, "park") /\ seen' = [seen EXCEPT ![p] = version]) \/ Goto(p, "ready") \/ Goto(p, "locked")
        BY Zenon, <3>5 DEF Judge
      <4>2. seen' = [seen EXCEPT ![p] = version] => seen'[p] = version
        BY Zenon DEF TypeOK
      <4>3. (pc'[p] = "park" /\ seen'[p] = version) \/ pc'[p] = "ready" \/ pc'[p] = "locked"
        BY Zenon, <4>1, <4>2, GotoAlone
      <4>. QED
        BY Zenon, <3>1, <4>3 DEF SleepOK, Parking, Asleep
    <3>6. CASE RepollTag(p)
      <4>1. /\ pc[p] = "retag" /\ seen' = seen
            /\ (holds(p, value_tag) /\ Goto(p, "idle")) \/ Goto(p, "park")
        BY Zenon, <3>6 DEF RepollTag, taskVars
      <4>2. (holds(p, value_tag) /\ pc'[p] = "idle") \/ pc'[p] = "park"
        BY Zenon, <4>1, GotoAlone
      <4>3. Parking(p)
        BY Zenon, <4>1 DEF Parking
      <4>. QED
        BY Zenon, <3>1, <3>2, <3>3, <4>1, <4>2, <4>3 DEF SleepOK, Parking, Asleep
    <3>7. CASE Park(p)
      <4>1. /\ pc[p] = "park" /\ seen' = seen
            /\ (holds(p, value_tag) /\ Goto(p, "parkver")) \/ Goto(p, "register")
        BY Zenon, <3>7 DEF Park, taskVars
      <4>2. (holds(p, value_tag) /\ pc'[p] = "parkver") \/ pc'[p] = "register"
        BY Zenon, <4>1, GotoAlone
      <4>3. Parking(p)
        BY Zenon, <4>1 DEF Parking
      <4>. QED
        BY Zenon, <3>1, <3>2, <3>3, <4>1, <4>2, <4>3 DEF SleepOK, Parking, Asleep
    <3>8. CASE ParkVersion(p)
      <4>1. pc[p] = "parkver" /\ seen' = seen /\ (Goto(p, "idle") \/ Goto(p, "register"))
        BY Zenon, <3>8 DEF ParkVersion, taskVars
      <4>2. pc'[p] = "idle" \/ pc'[p] = "register"
        BY Zenon, <4>1, GotoAlone
      <4>3. Parking(p)
        BY Zenon, <4>1 DEF Parking
      <4>. QED
        BY Zenon, <3>1, <3>2, <4>1, <4>2, <4>3 DEF SleepOK, Parking, Asleep
    <3>9. CASE PollClosed(p) \/ WantedClosed(p) \/ \E changed \in BOOLEAN : WantedCount(p, changed)
      <4>1. pc[p] \in {"closed1", "wanted1", "wanted2", "wanted1count", "wanted2count"}
        BY Zenon, <3>9 DEF PollClosed, WantedClosed, WantedCount
      <4>. QED
        BY Zenon, <3>1, <4>1 DEF KindInv
    <3>. QED
      BY Zenon, <1>2, <3>4, <3>5, <3>6, <3>7, <3>8, <3>9 DEF Looks
  <2>2. pc'[p] \notin {"sync", "check"}
    BY Zenon, <1>2, LookEffect
  <2>3. p \in ValueTasks => SleepOK(p)'
    BY Zenon, <2>1, <2>2, SleepAway
  <2>. QED
    BY Zenon, <1>0, <1>2, <2>3, Keeping
<1>3. ASSUME NEW p \in Procs, Register(p) PROVE SleepInv'
  <2>1. /\ UNCHANGED waiter /\ pc[p] = "register" /\ pc'[p] = "sync" /\ Grows(p, "value")
        /\ record[waiter[p]] = tag' => UNCHANGED <<list, record>>
        /\ record[waiter[p]] # tag' => waiter[p] \in list'["value"]
        /\ tag = NoTag => tag' = [serial |-> serials + 1, round |-> 0] /\ serials' = serials + 1
        /\ tag # NoTag => tag' = tag /\ serials' = serials
    BY Zenon, <1>3, RegisterEffect
  <2>2. waiter[p] \in Waiters /\ Live(waiter[p])
    BY Zenon, <2>1, TaskWaiter DEF PollPCs, Live
  <2>3. waiter[p] \in list'["value"]
    <3>1. ASSUME tag = NoTag PROVE record[waiter[p]] # tag'
      <4>1. /\ record[waiter[p]] \in Tags /\ record[waiter[p]].serial <= serials /\ serials \in Nat
        BY Zenon, <2>2 DEF TypeOK, TagInv
      <4>. QED
        BY <2>1, <3>1, <4>1 DEF Tags
    <3>. QED
      BY Zenon, <2>1, <2>2, <3>1 DEF TagInv
  <2>4. SleepOK(p)'
    BY Zenon, <2>1, <2>3 DEF SleepOK, Parking, Asleep
  <2>. QED
    BY Zenon, <1>0, <1>3, <2>4, Keeping
<1>4. ASSUME NEW p \in Procs, Sync(p) PROVE SleepInv'
  <2>1. UNCHANGED <<list, waiter>> /\ pc[p] = "sync" /\ pc'[p] = "check"
    BY Zenon, <1>4, SyncEffect
  <2>2. p \in ValueTasks => SleepOK(p)'
    BY Zenon, <2>1 DEF SleepInv, SleepOK, Parking, Asleep
  <2>. QED
    BY Zenon, <1>0, <1>4, <2>2, Keeping
<1>5. ASSUME NEW p \in Procs, Check(p) PROVE SleepInv'
  <2>1. /\ UNCHANGED <<version, list, waiter, seen>> /\ pc[p] = "check" /\ pc'[p] = "idle"
        /\ woken' = [woken EXCEPT ![p] = woken[p] \/ version # seen[p]]
    BY Zenon, <1>5, CheckEffect
  <2>2. woken'[p] = (woken[p] \/ version # seen[p])
    BY Zenon, <2>1 DEF TypeOK
  <2>3. p \in ValueTasks => SleepOK(p)'
    BY Zenon, <2>1, <2>2 DEF SleepInv, SleepOK, Parking, Asleep
  <2>. QED
    BY Zenon, <1>0, <1>5, <2>3, Keeping
<1>6. ASSUME NEW p \in Procs, Reset(p) PROVE SleepInv'
  <2>1. pc'[p] = "ready"
    BY Zenon, <1>6, ResetEffect
  <2>. QED
    BY Zenon, <1>0, <1>6, <2>1, SleepAway, Keeping
<1>7. ASSUME NEW p \in Procs, Again(p) PROVE SleepInv'
  <2>1. pc'[p] = "idle" /\ woken' = [woken EXCEPT ![p] = TRUE]
    BY Zenon, <1>7, AgainEffect
  <2>2. woken'[p]
    BY Zenon, <2>1 DEF TypeOK
  <2>3. SleepOK(p)'
    BY Zenon, <2>1, <2>2 DEF SleepOK, Parking, Asleep
  <2>. QED
    BY Zenon, <1>0, <1>7, <2>3, Keeping
<1>8. ASSUME NEW p \in Procs, PollClosedRegister(p) \/ WantedRegister(p) PROVE SleepInv'
  <2>1. pc'[p] \in {"closed2", "wanted2"}
    BY Zenon, <1>8, JoinEffect
  <2>. QED
    BY Zenon, <1>0, <1>8, <2>1, SleepAway, Keeping
<1>9. ASSUME NEW p \in Procs, PollClosedRecheck(p) PROVE SleepInv'
  <2>1. p \notin ValueTasks
    BY Zenon, <1>9, RecheckEffect DEF KindInv, ValueTasks, ClosedTasks
  <2>. QED
    BY Zenon, <1>0, <1>9, <2>1, Keeping
<1>10. ASSUME NEW p \in Procs, Guards(p) \/ WakeSync(p) \/ WakeDone(p) \/ WakeConsumer(p) PROVE SleepInv'
  <2>1. pc'[p] \in {"reading", "locked", "ready", "unlocked", "waking"} \/ Kind[p] = "write"
    BY Zenon, <1>10, GuardEffect, WakeSyncEffect, WakeDoneEffect, WakeConsumerEffect
  <2>2. p \in ValueTasks => SleepOK(p)'
    BY Zenon, <2>1, SleepAway DEF ValueTasks
  <2>. QED
    BY Zenon, <1>0, <1>10, <2>2, Keeping
<1>11. ASSUME NEW p \in Procs, Publishes(p) PROVE SleepInv'
  <2>1. UNCHANGED <<list, waiter, woken, taken>> /\ pc'[p] = "published" /\ Alone(p)
    BY Zenon, <1>11, PublishEffect
  <2>2. Draining(FALSE)'
    BY Zenon, <2>1 DEF Draining
  <2>3. ASSUME NEW t \in ValueTasks, t # p PROVE SleepOK(t)'
    <3>1. pc'[t] = pc[t] /\ SleepOK(t)
      BY Zenon, <2>1, <2>3 DEF Alone, ValueTasks, Tasks, SleepInv
    <3>. QED
      BY Zenon, <2>1, <2>2, <3>1 DEF SleepOK, Asleep, Taken
  <2>. QED
    BY Zenon, <2>1, <2>3, SleepAway DEF SleepInv
<1>12. ASSUME NEW p \in Procs, WakeTake(p) PROVE SleepInv'
  <2>1. /\ UNCHANGED <<waiter, woken>> /\ pc'[p] = "wakesync" /\ Alone(p) /\ wlock = Nobody
        /\ list'["value"] = {} /\ taken[p] = {} /\ \A q \in Procs : q # p => taken'[q] = taken[q]
        /\ \A q \in Procs : waiter[q] \in list["value"] => waiter[q] \in taken'[p]
    BY Zenon, <1>12, TakeEffect
  <2>2. ASSUME NEW t \in ValueTasks, t # p PROVE SleepOK(t)'
    <3>1. t \in Procs /\ pc'[t] = pc[t] /\ SleepOK(t)
      BY Zenon, <2>1, <2>2 DEF Alone, ValueTasks, Tasks, SleepInv
    <3>2. pc[t] \notin {"sync", "check"}
      BY Zenon, <2>1, <3>1, ChannelAssumption DEF LockInv
    <3>3. Taken(t) \/ waiter[t] \in list["value"] => Taken(t)'
      BY Zenon, <2>1, <3>1 DEF Taken
    <3>. QED
      BY Zenon, <2>1, <3>1, <3>2, <3>3 DEF SleepOK, Asleep
  <2>. QED
    BY Zenon, <2>1, <2>2, SleepAway DEF SleepInv
<1>13. ASSUME NEW p \in Procs, WakeOne(p) PROVE SleepInv'
  <2>1. UNCHANGED <<version, list, waiter, seen, pc, closing>>
    BY Zenon, <1>13, WakeOneEffect
  <2>2. Draining(FALSE) => Draining(FALSE)'
    BY Zenon, <2>1 DEF Draining
  <2>3. ASSUME NEW t \in ValueTasks PROVE SleepOK(t)'
    <3>1. t \in Procs /\ SleepOK(t)
      BY Zenon DEF ValueTasks, Tasks, SleepInv
    <3>2. (Taken(t) => Taken(t)' \/ woken'[t]) /\ (woken[t] => woken'[t]) /\ (Asleep(t)' => Asleep(t))
      BY Zenon, <1>13, <3>1, WakeOneWakes
    <3>. QED
      BY Zenon, <2>1, <2>2, <3>1, <3>2 DEF SleepOK, Parking
  <2>. QED
    BY Zenon, <2>3 DEF SleepInv
<1>14. CASE UNCHANGED vars
  BY Zenon, <1>14 DEF vars, listVars, taskVars, wakeVars, SleepInv, SleepOK, Parking, Asleep, Taken, Draining
<1>. QED
  BY Zenon, <1>1, <1>2, <1>3, <1>4, <1>5, <1>6, <1>7, <1>8, <1>9, <1>10, <1>11, <1>12, <1>13, <1>14, Steps

\* What JudgeInv says of one task.
Unready(t) == value \notin Target[t] /\ ~is_closed

JudgeOK(t) ==
    /\ (Parking(t) \/ pc[t] \in {"register", "sync", "check"}) /\ seen[t] = version => Unready(t)
    /\ judged[t] = version => Unready(t)

\* The others judged the value that stands.
LEMMA JudgeOthers ==
    ASSUME JudgeInv, NEW p \in Procs, Keeps(p)
    PROVE  \A t \in ValueTasks : t # p => JudgeOK(t)'
<1> SUFFICES ASSUME NEW t \in ValueTasks, t # p PROVE JudgeOK(t)'
  OBVIOUS
<1>1. t \in Procs /\ JudgeOK(t)
  BY Zenon DEF ValueTasks, Tasks, JudgeInv, JudgeOK, Unready
<1>2. /\ pc'[t] = pc[t] /\ seen'[t] = seen[t] /\ judged'[t] = judged[t] /\ UNCHANGED <<value, version>>
      /\ Asleep(t)' <=> Asleep(t)
  BY Zenon, <1>1, KeepsDue DEF Keeps, Alone
<1>3. Unready(t)' <=> Unready(t)
  BY Zenon, <1>2 DEF Unready, is_closed
<1>. QED
  BY Zenon, <1>1, <1>2, <1>3 DEF JudgeOK, Parking

\* The value and the closed flag only change together with the version.
LEMMA JudgeStep ==
    JudgeInv /\ TypeOK /\ LockInv /\ VersionInv /\ KindInv /\ [Next]_vars => JudgeInv'
<1> SUFFICES ASSUME JudgeInv, TypeOK, LockInv, VersionInv, KindInv, [Next]_vars PROVE JudgeInv'
  OBVIOUS
<1>0. ASSUME NEW p \in Procs, Keeps(p), p \in ValueTasks => JudgeOK(p)' PROVE JudgeInv'
  BY Zenon, <1>0, JudgeOthers DEF JudgeInv, JudgeOK, Unready
<1>1. \A t \in ValueTasks : JudgeOK(t)
  BY Zenon DEF JudgeInv, JudgeOK, Unready
<1>2. ASSUME NEW p \in Procs, UNCHANGED <<value, version>> PROVE Unready(p)' <=> Unready(p)
  BY Zenon, <1>2 DEF Unready, is_closed
<1>3. ASSUME NEW p \in Procs, Keeps(p), UNCHANGED judged,
             pc'[p] \notin {"idle", "retag", "park", "parkver", "register", "sync", "check"}
      PROVE  JudgeInv'
  <2>1. UNCHANGED <<value, version>>
    BY Zenon, <1>3 DEF Keeps
  <2>2. p \in ValueTasks => JudgeOK(p)'
    BY Zenon, <1>1, <1>2, <1>3, <2>1 DEF JudgeOK, Parking, Asleep
  <2>. QED
    BY Zenon, <1>0, <1>3, <2>2
<1>4. ASSUME NEW p \in Procs, Begin(p) PROVE JudgeInv'
  <2>1. UNCHANGED judged /\ pc'[p] \in {"judge", "repoll", "closed1", "wanted1"}
    BY Zenon, <1>4, BeginEffect
  <2>. QED
    BY Zenon, <1>3, <1>4, <2>1, Keeping
<1>5. ASSUME NEW p \in Procs, Looks(p) PROVE JudgeInv'
  <2>1. ASSUME p \in ValueTasks PROVE JudgeOK(p)'
    <3>1. UNCHANGED <<value, version, woken>> /\ JudgeOK(p) /\ Kind[p] # "wanted" /\ p \notin ClosedTasks
      BY Zenon, <1>1, <1>5, <2>1, LookEffect DEF ValueTasks, ClosedTasks
    <3>2. Unready(p)' <=> Unready(p)
      BY Zenon, <1>2, <3>1
    <3>3. CASE Repoll(p)
      <4>1. /\ judged' = judged
            /\ \/ version = judged[p] /\ Goto(p, "retag")
               \/ Goto(p, "judge")
        BY Zenon, <3>3 DEF Repoll
      <4>2. (version = judged[p] /\ pc'[p] = "retag") \/ pc'[p] = "judge"
        BY Zenon, <4>1, GotoAlone
      <4>. QED
        BY Zenon, <3>1, <3>2, <4>1, <4>2 DEF JudgeOK, Parking, Asleep
    <3>4. CASE Judge(p)
      <4>1. \/ (Goto(p, "ready") \/ Goto(p, "locked")) /\ judged' = judged
            \/ Unready(p)
        BY Zenon, <3>4 DEF Judge, Unready
      <4>2. \/ (pc'[p] = "ready" \/ pc'[p] = "locked") /\ judged' = judged
            \/ Unready(p)
        BY Zenon, <4>1, GotoAlone
      <4>. QED
        BY Zenon, <3>1, <3>2, <4>2 DEF JudgeOK, Parking, Asleep
    <3>5. CASE RepollTag(p) \/ Park(p) \/ ParkVersion(p)
      <4>1. UNCHANGED <<seen, judged>> /\ pc[p] \in {"retag", "park", "parkver"}
        BY Zenon, <3>5 DEF RepollTag, Park, ParkVersion, taskVars
      <4>2. seen[p] = version => Unready(p)
        BY Zenon, <3>1, <4>1 DEF JudgeOK, Parking
      <4>. QED
        BY Zenon, <3>1, <3>2, <4>1, <4>2 DEF JudgeOK
    <3>6. CASE PollClosed(p) \/ WantedClosed(p) \/ \E changed \in BOOLEAN : WantedCount(p, changed)
      <4>1. pc[p] \in {"closed1", "wanted1", "wanted2", "wanted1count", "wanted2count"}
        BY Zenon, <3>6 DEF PollClosed, WantedClosed, WantedCount
      <4>. QED
        BY Zenon, <3>1, <4>1 DEF KindInv
    <3>. QED
      BY Zenon, <1>5, <3>3, <3>4, <3>5, <3>6 DEF Looks
  <2>. QED
    BY Zenon, <1>0, <1>5, <2>1, Keeping
<1>6. ASSUME NEW p \in Procs, Register(p) \/ Sync(p) \/ Check(p) PROVE JudgeInv'
  <2>1. UNCHANGED <<value, version, seen, judged>> /\ pc[p] \in {"register", "sync", "check"}
    BY Zenon, <1>6, RegisterEffect, SyncEffect, CheckEffect
  <2>2. p \in ValueTasks => JudgeOK(p)'
    BY Zenon, <1>1, <1>2, <2>1 DEF JudgeOK
  <2>. QED
    BY Zenon, <1>0, <1>6, <2>2, Keeping
<1>7. ASSUME NEW p \in Procs, Reset(p) PROVE JudgeInv'
  <2>1. UNCHANGED <<version, pc>> /\ pc[p] = "ready" /\ judged' = [judged EXCEPT ![p] = UNJUDGED]
    BY Zenon, <1>7, ResetEffect
  <2>2. judged'[p] = UNJUDGED /\ version \in Nat /\ version <= MaxVersion
    BY Zenon, <2>1 DEF TypeOK, VersionInv
  <2>3. judged'[p] # version
    BY <2>2, ChannelAssumption DEF UNJUDGED, STEP, CLOSED
  <2>4. JudgeOK(p)'
    BY Zenon, <2>1, <2>3 DEF JudgeOK, Parking, Asleep
  <2>. QED
    BY Zenon, <1>0, <1>7, <2>4, Keeping
<1>8. ASSUME NEW p \in Procs, Again(p) PROVE JudgeInv'
  <2>1. UNCHANGED <<value, version, judged>> /\ pc'[p] = "idle" /\ woken' = [woken EXCEPT ![p] = TRUE]
    BY Zenon, <1>8, AgainEffect
  <2>2. woken'[p]
    BY Zenon, <2>1 DEF TypeOK
  <2>3. p \in ValueTasks => JudgeOK(p)'
    BY Zenon, <1>1, <1>2, <2>1, <2>2 DEF JudgeOK, Parking, Asleep
  <2>. QED
    BY Zenon, <1>0, <1>8, <2>3, Keeping
<1>9. ASSUME NEW p \in Procs, PollClosedRegister(p) \/ WantedRegister(p) PROVE JudgeInv'
  <2>1. UNCHANGED judged /\ pc'[p] \in {"closed2", "wanted2"}
    BY Zenon, <1>9, JoinEffect
  <2>. QED
    BY Zenon, <1>3, <1>9, <2>1, Keeping
<1>10. ASSUME NEW p \in Procs, PollClosedRecheck(p) PROVE JudgeInv'
  <2>1. p \notin ValueTasks
    BY Zenon, <1>10, RecheckEffect DEF KindInv, ValueTasks, ClosedTasks
  <2>. QED
    BY Zenon, <1>0, <1>10, <2>1, Keeping
<1>11. ASSUME NEW p \in Procs, Guards(p) \/ WakeSync(p) \/ WakeDone(p) \/ WakeConsumer(p) PROVE JudgeInv'
  <2>1. /\ UNCHANGED judged
        /\ pc'[p] \in {"reading", "locked", "ready", "unlocked", "waking"} \/ Kind[p] = "write"
    BY Zenon, <1>11, GuardEffect, WakeSyncEffect, WakeDoneEffect, WakeConsumerEffect
  <2>2. CASE Kind[p] = "write"
    BY Zenon, <1>0, <1>11, <2>2, Keeping DEF ValueTasks
  <2>. QED
    BY Zenon, <1>3, <1>11, <2>1, <2>2, Keeping
<1>12. ASSUME NEW p \in Procs, Publishes(p) PROVE JudgeInv'
  <2>1. UNCHANGED <<seen, judged>> /\ version' > version /\ version' \in Nat /\ version' <= MaxVersion
    BY Zenon, <1>12, PublishEffect
  <2>2. ASSUME NEW t \in Procs PROVE seen'[t] # version' /\ judged'[t] # version'
    <3>1. /\ seen[t] \in Nat /\ judged[t] \in Nat /\ version \in Nat /\ seen[t] <= version
          /\ judged[t] = UNJUDGED \/ judged[t] <= version
      BY Zenon DEF TypeOK, VersionInv
    <3>. QED
      BY <2>1, <3>1, ChannelAssumption DEF UNJUDGED, STEP, CLOSED
  <2>. QED
    BY Zenon, <2>2 DEF JudgeInv, ValueTasks, Tasks
<1>13. ASSUME NEW p \in Procs, WakeTake(p) PROVE JudgeInv'
  <2>1. UNCHANGED <<value, version, woken, seen, judged>> /\ pc'[p] = "wakesync" /\ Alone(p)
    BY Zenon, <1>13, TakeEffect
  <2>2. ASSUME NEW t \in ValueTasks PROVE JudgeOK(t)'
    <3>1. t \in Procs /\ (t # p => pc'[t] = pc[t])
      BY Zenon, <2>1 DEF Alone, ValueTasks, Tasks
    <3>. QED
      BY Zenon, <1>1, <1>2, <2>1, <3>1 DEF JudgeOK, Parking, Asleep
  <2>. QED
    BY Zenon, <2>2 DEF JudgeInv, JudgeOK, Unready
<1>14. ASSUME NEW p \in Procs, WakeOne(p) PROVE JudgeInv'
  <2>1. UNCHANGED <<value, version, seen, judged, pc>>
    BY Zenon, <1>14, WakeOneEffect
  <2>2. ASSUME NEW t \in ValueTasks PROVE JudgeOK(t)'
    <3>1. t \in Procs
      BY Zenon DEF ValueTasks, Tasks
    <3>2. Asleep(t)' => Asleep(t)
      BY Zenon, <1>14, <3>1, WakeOneWakes
    <3>. QED
      BY Zenon, <1>1, <1>2, <2>1, <3>1, <3>2 DEF JudgeOK, Parking
  <2>. QED
    BY Zenon, <2>2 DEF JudgeInv, JudgeOK, Unready
<1>15. CASE UNCHANGED vars
  BY Zenon, <1>15 DEF vars, taskVars, JudgeInv, Parking, Asleep, is_closed
<1>. QED
  BY Zenon, <1>4, <1>5, <1>6, <1>7, <1>8, <1>9, <1>10, <1>11, <1>12, <1>13, <1>14, <1>15, Steps

\* What CloseInv says of one task.
CloseOK(t) ==
    /\ pc[t] = "closed2" => waiter[t] \in list["closed"]
    /\ Asleep(t) => Taken(t) \/ waiter[t] \in list["closed"]
    /\ Asleep(t) /\ waiter[t] \in list["closed"] /\ is_closed => Draining(TRUE)

\* The others stay on the closed list.
LEMMA CloseOthers ==
    ASSUME CloseInv, NEW p \in Procs, Keeps(p)
    PROVE  \A t \in ClosedTasks : t # p => CloseOK(t)'
<1> SUFFICES ASSUME NEW t \in ClosedTasks, t # p PROVE CloseOK(t)'
  OBVIOUS
<1>1. t \in Procs /\ t \in Tasks /\ CloseOK(t)
  BY Zenon DEF ClosedTasks, Tasks, CloseInv, CloseOK
<1>2. /\ pc'[t] = pc[t] /\ waiter'[t] = waiter[t] /\ version' = version
      /\ waiter[t] \in list'["closed"] <=> waiter[t] \in list["closed"]
  BY Zenon, <1>1 DEF Keeps, Alone
<1>3. (Draining(TRUE) => Draining(TRUE)') /\ (Taken(t) => Taken(t)') /\ (Asleep(t)' <=> Asleep(t))
  BY Zenon, <1>1, KeepsDue
<1>4. is_closed' <=> is_closed
  BY Zenon, <1>2 DEF is_closed
<1>. QED
  BY Zenon, <1>1, <1>2, <1>3, <1>4 DEF CloseOK

\* The closed list is checked after the waiter joined it.
LEMMA CloseStep ==
    CloseInv /\ TypeOK /\ LockInv /\ VersionInv /\ KindInv /\ [Next]_vars => CloseInv'
<1> SUFFICES ASSUME CloseInv, TypeOK, LockInv, VersionInv, KindInv, [Next]_vars PROVE CloseInv'
  OBVIOUS
<1>0. ASSUME NEW p \in Procs, Keeps(p), p \in ClosedTasks => CloseOK(p)' PROVE CloseInv'
  BY Zenon, <1>0, CloseOthers DEF CloseInv, CloseOK
<1>1. ASSUME NEW p \in Procs, Keeps(p), pc'[p] \notin {"idle", "closed2"} PROVE CloseInv'
  <2>1. CloseOK(p)'
    BY Zenon, <1>1 DEF CloseOK, Asleep
  <2>. QED
    BY Zenon, <1>0, <1>1, <2>1
<1>2. \A t \in ClosedTasks : CloseOK(t) /\ t \in Procs /\ t \in Tasks
  BY Zenon DEF CloseInv, CloseOK, ClosedTasks, Tasks
<1>3. ASSUME NEW p \in Procs, Begin(p) PROVE CloseInv'
  <2>1. pc'[p] \in {"judge", "repoll", "closed1", "wanted1"}
    BY Zenon, <1>3, BeginEffect
  <2>. QED
    BY Zenon, <1>1, <1>3, <2>1, Keeping
<1>4. ASSUME NEW p \in Procs, Looks(p) PROVE CloseInv'
  <2>1. CASE PollClosed(p)
    <3>1. Goto(p, "ready") \/ Goto(p, "closedreg")
      BY Zenon, <2>1 DEF PollClosed
    <3>2. pc'[p] = "ready" \/ pc'[p] = "closedreg"
      BY Zenon, <3>1, GotoAlone
    <3>. QED
      BY Zenon, <1>1, <1>4, <3>2, Keeping
  <2>2. CASE ~PollClosed(p)
    <3>1. pc[p] \in {"repoll", "retag", "judge", "park", "parkver", "wanted1", "wanted2", "wanted1count", "wanted2count"}
      BY Zenon, <1>4, <2>2 DEF Looks, Repoll, RepollTag, Judge, Park, ParkVersion, WantedClosed, WantedCount
    <3>2. p \notin ClosedTasks
      BY Zenon, <3>1 DEF KindInv, ValueTasks, ClosedTasks
    <3>. QED
      BY Zenon, <1>0, <1>4, <3>2, Keeping
  <2>. QED
    BY Zenon, <2>1, <2>2
<1>5. ASSUME NEW p \in Procs, Register(p) \/ Sync(p) \/ Check(p) PROVE CloseInv'
  <2>1. pc[p] \in {"register", "sync", "check"}
    BY Zenon, <1>5, RegisterEffect, SyncEffect, CheckEffect
  <2>2. p \notin ClosedTasks
    BY Zenon, <2>1 DEF KindInv, ValueTasks, ClosedTasks
  <2>. QED
    BY Zenon, <1>0, <1>5, <2>2, Keeping
<1>6. ASSUME NEW p \in Procs, Reset(p) PROVE CloseInv'
  <2>1. pc'[p] = "ready"
    BY Zenon, <1>6, ResetEffect
  <2>. QED
    BY Zenon, <1>1, <1>6, <2>1, Keeping
<1>7. ASSUME NEW p \in Procs, Again(p) PROVE CloseInv'
  <2>1. pc'[p] = "idle" /\ woken' = [woken EXCEPT ![p] = TRUE]
    BY Zenon, <1>7, AgainEffect
  <2>2. woken'[p]
    BY Zenon, <2>1 DEF TypeOK
  <2>3. CloseOK(p)'
    BY Zenon, <2>1, <2>2 DEF CloseOK, Asleep
  <2>. QED
    BY Zenon, <1>0, <1>7, <2>3, Keeping
<1>8. ASSUME NEW p \in Procs, PollClosedRegister(p) \/ WantedRegister(p) PROVE CloseInv'
  <2>1. /\ UNCHANGED waiter
        /\ (pc'[p] = "closed2" /\ waiter[p] \in list'["closed"]) \/ pc'[p] = "wanted2"
    BY Zenon, <1>8, JoinEffect
  <2>2. CloseOK(p)'
    BY Zenon, <2>1 DEF CloseOK, Asleep
  <2>. QED
    BY Zenon, <1>0, <1>8, <2>2, Keeping
<1>9. ASSUME NEW p \in Procs, PollClosedRecheck(p) PROVE CloseInv'
  <2>1. /\ UNCHANGED <<version, list, waiter>> /\ pc[p] = "closed2"
        /\ pc'[p] = (IF is_closed THEN "ready" ELSE "idle")
    BY Zenon, <1>9, RecheckEffect
  <2>2. is_closed' <=> is_closed
    BY Zenon, <2>1 DEF is_closed
  <2>3. p \in ClosedTasks => CloseOK(p)'
    BY Zenon, <1>2, <2>1, <2>2 DEF CloseOK, Asleep
  <2>. QED
    BY Zenon, <1>0, <1>9, <2>3, Keeping
<1>10. ASSUME NEW p \in Procs, Guards(p) \/ WakeSync(p) \/ WakeDone(p) \/ WakeConsumer(p) PROVE CloseInv'
  <2>1. pc'[p] \in {"reading", "locked", "ready", "unlocked", "waking"} \/ Kind[p] = "write"
    BY Zenon, <1>10, GuardEffect, WakeSyncEffect, WakeDoneEffect, WakeConsumerEffect
  <2>2. CASE Kind[p] = "write"
    BY Zenon, <1>0, <1>10, <2>2, Keeping DEF ClosedTasks
  <2>. QED
    BY Zenon, <1>1, <1>10, <2>1, <2>2, Keeping
<1>11. ASSUME NEW p \in Procs, Publishes(p) PROVE CloseInv'
  <2>1. /\ UNCHANGED <<list, waiter, woken, taken>> /\ pc'[p] = "published" /\ Alone(p)
        /\ is_closed' <=> closing'[p]
    BY Zenon, <1>11, PublishEffect
  <2>2. is_closed' => Draining(TRUE)'
    BY Zenon, <2>1 DEF Draining
  <2>3. ASSUME NEW t \in ClosedTasks PROVE CloseOK(t)'
    <3>1. t \in Procs /\ CloseOK(t) /\ (t # p => pc'[t] = pc[t])
      BY Zenon, <1>2, <2>1 DEF Alone
    <3>. QED
      BY Zenon, <2>1, <2>2, <3>1 DEF CloseOK, Asleep, Taken
  <2>. QED
    BY Zenon, <2>3 DEF CloseInv, CloseOK
<1>12. ASSUME NEW p \in Procs, WakeTake(p) PROVE CloseInv'
  <2>1. /\ UNCHANGED <<version, waiter, woken, closing>> /\ pc'[p] = "wakesync" /\ Alone(p) /\ wlock = Nobody
        /\ closing[p] => \A l \in Lists : list'[l] = {} /\ list[l] \subseteq taken'[p]
        /\ ~closing[p] => \A l \in Lists : l # "value" => list'[l] = list[l]
        /\ taken[p] = {} /\ \A q \in Procs : q # p => taken'[q] = taken[q]
    BY Zenon, <1>12, TakeEffect
  <2>2. /\ closing[p] => list'["closed"] = {} /\ list["closed"] \subseteq taken'[p]
        /\ ~closing[p] => list'["closed"] = list["closed"]
    BY Zenon, <2>1 DEF Lists
  <2>3. ~closing[p] /\ Draining(TRUE) => Draining(TRUE)'
    BY Zenon, <2>1 DEF Draining, Alone
  <2>4. is_closed' <=> is_closed
    BY Zenon, <2>1 DEF is_closed
  <2>5. ASSUME NEW t \in ClosedTasks PROVE CloseOK(t)'
    <3>1. t \in Procs /\ CloseOK(t) /\ (t # p => pc'[t] = pc[t])
      BY Zenon, <1>2, <2>1 DEF Alone
    <3>2. pc'[t] # "closed2" /\ (Asleep(t)' => Asleep(t))
      BY Zenon, <2>1, <3>1, ChannelAssumption DEF LockInv, Asleep
    <3>3. Taken(t) => Taken(t)'
      BY Zenon, <2>1, <3>1 DEF Taken
    <3>4. closing[p] /\ waiter[t] \in list["closed"] => Taken(t)'
      BY Zenon, <2>1, <2>2 DEF Taken
    <3>. QED
      BY Zenon, <2>1, <2>2, <2>3, <2>4, <3>1, <3>2, <3>3, <3>4 DEF CloseOK
  <2>. QED
    BY Zenon, <2>5 DEF CloseInv, CloseOK
<1>13. ASSUME NEW p \in Procs, WakeOne(p) PROVE CloseInv'
  <2>1. UNCHANGED <<version, list, waiter, pc, closing>>
    BY Zenon, <1>13, WakeOneEffect
  <2>2. (Draining(TRUE) => Draining(TRUE)') /\ (is_closed' <=> is_closed)
    BY Zenon, <2>1 DEF Draining, is_closed
  <2>3. ASSUME NEW t \in ClosedTasks PROVE CloseOK(t)'
    <3>1. t \in Procs /\ CloseOK(t)
      BY Zenon, <1>2
    <3>2. (Taken(t) => Taken(t)' \/ woken'[t]) /\ (Asleep(t)' => Asleep(t) /\ ~woken'[t])
      BY Zenon, <1>13, <3>1, WakeOneWakes DEF Asleep
    <3>. QED
      BY Zenon, <2>1, <2>2, <3>1, <3>2 DEF CloseOK
  <2>. QED
    BY Zenon, <2>3 DEF CloseInv, CloseOK
<1>14. CASE UNCHANGED vars
  BY Zenon, <1>14 DEF vars, listVars, taskVars, wakeVars, CloseInv, Asleep, Taken, Draining, is_closed
<1>. QED
  BY Zenon, <1>3, <1>4, <1>5, <1>6, <1>7, <1>8, <1>9, <1>10, <1>11, <1>12, <1>13, <1>14, Steps

\* A step apart from the publishing ones keeps the tasks waiting for the closure to
\* themselves, when it puts them on no other list and takes none of them.
LEMMA ApartMove ==
    ASSUME ApartInv, version' = version,
           \A q \in Procs : closing'[q] => closing[q],
           \A t \in ClosedTasks : /\ waiter'[t] \notin list'["value"] /\ waiter'[t] \notin list'["consumer"]
                                  /\ Taken(t)' => Taken(t) \/ is_closed
    PROVE  ApartInv'
<1>1. is_closed' <=> is_closed
  BY Zenon DEF is_closed
<1>. QED
  BY Zenon, <1>1 DEF ApartInv

\* A step that leaves the lists, the waiters and the drains alone.
LEMMA ApartQuiet ==
    ASSUME ApartInv, UNCHANGED <<version, list, waiter, closing, taken>>
    PROVE  ApartInv'
BY Zenon DEF ApartInv, Taken, is_closed

\* Only a closing drain takes the closed list.
LEMMA ApartStep ==
    ApartInv /\ TypeOK /\ LockInv /\ VersionInv /\ KindInv /\ [Next]_vars => ApartInv'
<1> SUFFICES ASSUME ApartInv, TypeOK, LockInv, VersionInv, KindInv, [Next]_vars PROVE ApartInv'
  OBVIOUS
<1>0. /\ \A t \in ClosedTasks : /\ t \in Procs /\ t \in Tasks /\ Kind[t] = "closed"
                                /\ waiter[t] \notin list["value"] /\ waiter[t] \notin list["consumer"]
                                /\ Taken(t) => is_closed
      /\ \A q \in Procs : closing[q] => is_closed
  BY Zenon DEF ApartInv, ClosedTasks, Tasks
<1>1. "value" \in Lists /\ "consumer" \in Lists /\ "closed" \in Lists
  BY Zenon DEF Lists
<1>2. closing \in [Procs -> BOOLEAN]
  BY Zenon DEF TypeOK
<1>3. ASSUME NEW p \in Procs, Begin(p) PROVE ApartInv'
  <2>1. /\ UNCHANGED <<version, list, closing, taken>>
        /\ UNCHANGED waiter \/ Renew(p, waiter'[p])
        /\ \A q \in Tasks : q # p => waiter'[q] = waiter[q]
    BY Zenon, <1>3, BeginEffect
  <2>2. ASSUME Renew(p, waiter'[p])
        PROVE  /\ waiter'[p] \notin list["value"] /\ waiter'[p] \notin list["consumer"]
               /\ \A q \in Procs : waiter'[p] \notin taken[q]
    BY Zenon, <1>1, <2>2 DEF Renew
  <2>3. CASE UNCHANGED waiter
    BY Zenon, <2>1, <2>3, ApartQuiet
  <2>4. CASE Renew(p, waiter'[p])
    <3>1. ASSUME NEW t \in ClosedTasks
          PROVE  /\ waiter'[t] \notin list'["value"] /\ waiter'[t] \notin list'["consumer"]
                 /\ Taken(t)' => Taken(t)
      BY Zenon, <1>0, <2>1, <2>2, <2>4 DEF Taken
    <3>. QED
      BY Zenon, <2>1, <3>1, ApartMove
  <2>. QED
    BY Zenon, <2>1, <2>3, <2>4
<1>4. ASSUME NEW p \in Procs,
             Looks(p) \/ Sync(p) \/ Check(p) \/ Reset(p) \/ Again(p) \/ PollClosedRecheck(p) \/ Guards(p) \/ WakeSync(p)
      PROVE  ApartInv'
  <2>1. UNCHANGED <<version, list, waiter, closing, taken>>
    BY Zenon, <1>4, LookEffect, SyncEffect, CheckEffect, ResetEffect, AgainEffect, RecheckEffect, GuardEffect,
       WakeSyncEffect
  <2>. QED
    BY Zenon, <2>1, ApartQuiet
<1>5. ASSUME NEW p \in Procs, Register(p) \/ PollClosedRegister(p) \/ WantedRegister(p) PROVE ApartInv'
  <2>1. /\ UNCHANGED <<version, waiter, closing, taken>>
        /\ \/ pc[p] = "register" /\ Grows(p, "value")
           \/ pc[p] = "closedreg" /\ Grows(p, "closed")
           \/ pc[p] = "wantedreg" /\ Grows(p, "consumer")
    BY Zenon, <1>5, RegisterEffect, JoinEffect
  <2>2. pc[p] \in {"register", "wantedreg"} => p \in Tasks /\ p \notin ClosedTasks
    BY Zenon DEF KindInv, ValueTasks, ClosedTasks, Tasks
  <2>3. ASSUME NEW t \in ClosedTasks, pc[p] \in {"register", "wantedreg"} PROVE waiter[t] # waiter[p]
    BY Zenon, <1>0, <2>2, <2>3 DEF KindInv
  <2>4. ASSUME NEW t \in ClosedTasks
        PROVE  /\ waiter'[t] \notin list'["value"] /\ waiter'[t] \notin list'["consumer"]
               /\ Taken(t)' => Taken(t)
    <3>1. Taken(t)' => Taken(t)
      BY Zenon, <2>1 DEF Taken
    <3>2. CASE pc[p] = "register" /\ Grows(p, "value")
      BY Zenon, <1>0, <1>1, <2>1, <2>3, <3>1, <3>2 DEF Grows
    <3>3. CASE pc[p] = "closedreg" /\ Grows(p, "closed")
      BY Zenon, <1>0, <1>1, <2>1, <3>1, <3>3 DEF Grows
    <3>4. CASE pc[p] = "wantedreg" /\ Grows(p, "consumer")
      BY Zenon, <1>0, <1>1, <2>1, <2>3, <3>1, <3>4 DEF Grows
    <3>. QED
      BY Zenon, <2>1, <3>2, <3>3, <3>4
  <2>. QED
    BY Zenon, <2>1, <2>4, ApartMove
<1>6. ASSUME NEW p \in Procs, Publishes(p) PROVE ApartInv'
  <2>1. /\ UNCHANGED <<list, waiter, taken>> /\ ~is_closed /\ (is_closed' <=> closing'[p])
        /\ closing' = [closing EXCEPT ![p] = closing'[p]]
    BY Zenon, <1>6, PublishEffect
  <2>2. \A q \in Procs : closing'[q] => q = p
    BY Zenon, <1>0, <1>2, <2>1
  <2>3. \A t \in ClosedTasks : ~Taken(t)'
    BY Zenon, <1>0, <2>1 DEF Taken
  <2>. QED
    BY Zenon, <1>0, <2>1, <2>2, <2>3 DEF ApartInv
<1>7. ASSUME NEW p \in Procs, WakeTake(p) PROVE ApartInv'
  <2>1. /\ UNCHANGED <<version, waiter, closing>>
        /\ \A l \in Lists : list'[l] = list[l] \/ list'[l] = {}
        /\ ~closing[p] => taken'[p] \subseteq list["value"]
        /\ \A q \in Procs : q # p => taken'[q] = taken[q]
    BY Zenon, <1>7, TakeEffect
  <2>2. list'["value"] \subseteq list["value"] /\ list'["consumer"] \subseteq list["consumer"]
    BY Zenon, <1>1, <2>1
  <2>3. ASSUME NEW t \in ClosedTasks, Taken(t)' PROVE Taken(t) \/ is_closed
    <3>1. PICK q \in Procs : waiter[t] \in taken'[q]
      BY Zenon, <2>1, <2>3 DEF Taken
    <3>. QED
      BY Zenon, <1>0, <2>1, <3>1 DEF Taken
  <2>. QED
    BY Zenon, <1>0, <2>1, <2>2, <2>3, ApartMove
<1>8. ASSUME NEW p \in Procs, WakeOne(p) \/ WakeDone(p) PROVE ApartInv'
  <2>1. /\ UNCHANGED <<version, list, waiter>> /\ \A q \in Procs : taken'[q] \subseteq taken[q]
        /\ closing' = closing \/ closing' = [closing EXCEPT ![p] = FALSE]
    BY Zenon, <1>8, WakeOneEffect, WakeDoneEffect
  <2>2. \A q \in Procs : closing'[q] => closing[q]
    BY Zenon, <1>2, <2>1
  <2>3. \A t \in ClosedTasks : Taken(t)' => Taken(t)
    BY Zenon, <2>1 DEF Taken
  <2>. QED
    BY Zenon, <1>0, <2>1, <2>2, <2>3, ApartMove
<1>9. ASSUME NEW p \in Procs, WakeConsumer(p) PROVE ApartInv'
  <2>1. /\ UNCHANGED <<version, waiter, closing>>
        /\ list'["consumer"] = {} /\ \A l \in Lists : l # "consumer" => list'[l] = list[l]
        /\ taken'[p] = list["consumer"] /\ \A q \in Procs : q # p => taken'[q] = taken[q]
    BY Zenon, <1>9, WakeConsumerEffect
  <2>2. list'["value"] = list["value"]
    BY Zenon, <1>1, <2>1
  <2>3. ASSUME NEW t \in ClosedTasks, Taken(t)' PROVE Taken(t)
    <3>1. PICK q \in Procs : waiter[t] \in taken'[q]
      BY Zenon, <2>1, <2>3 DEF Taken
    <3>. QED
      BY Zenon, <1>0, <2>1, <3>1 DEF Taken
  <2>. QED
    BY Zenon, <1>0, <2>1, <2>2, <2>3, ApartMove
<1>10. CASE UNCHANGED vars
  BY Zenon, <1>10, ApartQuiet DEF vars, listVars, taskVars, wakeVars
<1>. QED
  BY Zenon, <1>3, <1>4, <1>5, <1>6, <1>7, <1>8, <1>9, <1>10, Steps

\* Everything holds of a new channel.
LEMMA InitInv == Init => IInv
<1> SUFFICES ASSUME Init PROVE IInv
  OBVIOUS
<1> USE ChannelAssumption DEF Init
<1>1. TypeOK
  BY DEF TypeOK, Tags, NoTag, PCs, UNJUDGED, STEP, CLOSED, Lists
<1>2. LockInv
  BY DEF LockInv
<1>3. VersionInv
  BY DEF VersionInv, UNJUDGED, STEP, CLOSED
<1>4. KindInv
  BY SMTT(60) DEF KindInv, WritePCs
<1>5. TagInv /\ MirrorInv
  BY DEF TagInv, MirrorInv, NoTag
<1>6. \A t \in Tasks : pc[t] = "idle" /\ ~Asleep(t)
  BY Zenon DEF Asleep, Tasks
<1>7. \A t \in Tasks : judged[t] # version
  BY DEF Tasks, UNJUDGED, STEP, CLOSED
<1>8. SleepInv /\ CloseInv /\ JudgeInv
  <2> HIDE DEF Init
  <2> QED
    BY Zenon, <1>6, <1>7, Zenon DEF SleepInv, SleepOK, CloseInv, JudgeInv, Parking, ValueTasks, ClosedTasks
<1>9. ApartInv
  BY DEF ApartInv, Taken, Lists
<1> QED
  BY <1>1, <1>2, <1>3, <1>4, <1>5, <1>8, <1>9 DEF IInv

\* No step breaks any part.
LEMMA StepInv == IInv /\ [Next]_vars => IInv'
  BY TypeStep, LockStep, VersionStep, KindStep, TagStep, MirrorStep, SleepStep, JudgeStep,
     CloseStep, ApartStep DEF IInv

\* The inductive invariant holds of every behaviour of the channel.
THEOREM Invariance == Spec => []IInv
  BY InitInv, StepInv, PTL DEF Spec

-----------------------------------------------------------------------------
(* What follows from it.                                                   *)

\* Every variable keeps its type: tags stay within the rounds of a list, and no waiter
\* list or drain ever holds anything but waiters.
THEOREM TypeCorrect == Spec => []TypeOK
  BY Invariance, PTL DEF IInv

\* No wakeup is lost, with any number of writers and tasks (park_value, repoll, wake).
THEOREM WakeupSafety == Spec => []NoLostWakeup
<1>1. IInv => NoLostWakeup
  BY Zenon DEF IInv, SleepInv, SleepOK, Parking, Asleep, NoLostWakeup
<1> QED
  BY <1>1, Invariance, PTL

\* Nobody sleeps through the value or the closure it waits for (Consumer::poll,
\* Watch::poll, Producer::poll).
THEOREM SleepSafety == Spec => []NoSleepWhileReady
<1>1. IInv => NoSleepWhileReady
  BY Zenon DEF IInv, SleepInv, SleepOK, JudgeInv, Parking, Asleep, NoSleepWhileReady
<1> QED
  BY <1>1, Invariance, PTL

\* The lock-free test of a parked waiter is sound (Waiter::holds, Channel::value_tag).
THEOREM HoldsSafety == Spec => []HoldsProvesParked
<1>1. IInv => HoldsProvesParked
  BY HoldsParked DEF IInv
<1> QED
  BY <1>1, Invariance, PTL

\* A closure reaches everyone waiting for it (poll_closed).
THEOREM CloseSafety == Spec => []NoLostClose
<1>1. IInv => NoLostClose
  BY Zenon DEF IInv, CloseInv, NoLostClose
<1> QED
  BY <1>1, Invariance, PTL

\* A closed channel never changes again (Mut, Mut::close, Channel::close).
THEOREM ClosedForGood == Spec => ClosedIsFinal
<1>1. ASSUME IInv, [Next]_vars, is_closed PROVE UNCHANGED <<value, version>>
  <2> USE <1>1
  <2>1. ASSUME NEW p \in Procs, Poll(p) \/ PollAgain(p) PROVE UNCHANGED <<value, version>>
    BY ZenonT(60), <2>1, Zenon DEF Poll, Start, PollAgain, Begin, Repoll, RepollTag, Judge, Park, ParkVersion,
       Register, Sync, Check, PollClosed, PollClosedRegister, PollClosedRecheck
  <2>2. ASSUME NEW p \in Procs, NEW v \in Values, NEW close \in BOOLEAN, Publish(p, v, close)
        PROVE  UNCHANGED <<value, version>>
    BY <2>2 DEF Publish, IInv, VersionInv
  <2>3. ASSUME NEW p \in Procs, Close(p) PROVE UNCHANGED <<value, version>>
    BY <2>3 DEF Close, IInv, VersionInv
  <2>4. ASSUME NEW p \in Procs, NEW changed \in BOOLEAN, WantedCount(p, changed)
        PROVE  UNCHANGED <<value, version>>
    BY Zenon, <2>4, Zenon DEF WantedCount
  <2>5. ASSUME NEW p \in Procs, \/ Reset(p) \/ Again(p) \/ Read(p) \/ Write(p) \/ DropGuard(p)
                                \/ Wake(p) \/ WakeConsumer(p)
                                \/ WantedClosed(p) \/ WantedRegister(p)
        PROVE  UNCHANGED <<value, version>>
    BY Zenon, <2>5, Zenon DEF Reset, Again, Read, Write, DropGuard, Wake, Unlock, WakeTake, WakeSync,
       WakeOne, WakeDone, WakeConsumer, WantedClosed, WantedRegister
  <2>6. CASE UNCHANGED vars
    BY Zenon, <2>6, Zenon DEF vars
  <2> QED
    BY Zenon, <2>1, <2>2, <2>3, <2>4, <2>5, <2>6, Zenon DEF Next, ValueStep, DemandStep
<1>2. IInv /\ [Next]_vars => [is_closed => UNCHANGED <<value, version>>]_vars
  BY <1>1
<1> QED
  BY <1>2, Invariance, PTL DEF Spec, ClosedIsFinal

\* A plain write wakes nobody who waits for the closure (Channel::wake).
THEOREM ClosedUndisturbed == Spec => OnlyCloseWakesClosed
<1> DEFINE Woke(t) == Asleep(t) /\ woken'[t]
<1>1. ASSUME IInv, [Next]_vars, NEW t \in ClosedTasks, Woke(t) PROVE is_closed
  <2> USE <1>1 DEF Asleep, ClosedTasks, Tasks
  <2>1. ASSUME NEW p \in Procs, Begin(p) PROVE FALSE
    BY <2>1 DEF Begin, IInv, TypeOK
  <2>2. ASSUME NEW p \in Procs, Check(p) \/ Again(p) PROVE FALSE
    BY <2>2 DEF Check, Again, IInv, TypeOK, KindInv, ValueTasks
  <2>3. ASSUME NEW p \in Procs, WakeOne(p) PROVE is_closed
    BY SMTT(60), <2>3 DEF WakeOne, IInv, TypeOK, ApartInv, Taken
  <2>4. woken' # woken
    OBVIOUS
  <2>5. ASSUME NEW p \in Procs,
               \/ Repoll(p) \/ RepollTag(p) \/ Judge(p) \/ Park(p) \/ ParkVersion(p) \/ Register(p) \/ Sync(p)
               \/ Reset(p) \/ PollClosed(p) \/ PollClosedRegister(p) \/ PollClosedRecheck(p)
        PROVE  FALSE
    BY Zenon, <2>4, <2>5 DEF Repoll, RepollTag, Judge, Park, ParkVersion, Register, Sync, Reset, PollClosed,
       PollClosedRegister, PollClosedRecheck, taskVars
  <2>6. ASSUME NEW p \in Procs,
               \/ WantedClosed(p) \/ WantedRegister(p) \/ WakeConsumer(p) \/ Read(p) \/ Write(p) \/ DropGuard(p)
               \/ Close(p) \/ Unlock(p) \/ WakeTake(p) \/ WakeSync(p) \/ WakeDone(p)
               \/ \E changed \in BOOLEAN : WantedCount(p, changed)
               \/ \E v \in Values, close \in BOOLEAN : Publish(p, v, close)
        PROVE  FALSE
    BY Zenon, <2>4, <2>6 DEF WantedClosed, WantedRegister, WakeConsumer, Read, Write, DropGuard, Close,
       Unlock, WakeTake, WakeSync, WakeDone, WantedCount, Publish, taskVars
  <2>7. ~UNCHANGED vars
    BY Zenon, <2>4 DEF vars, taskVars
  <2> QED
    BY Zenon, <2>1, <2>2, <2>3, <2>5, <2>6, <2>7 DEF Next, ValueStep, DemandStep, Poll, Wake, Start, PollAgain
<1>2. IInv /\ [Next]_vars => [\A t \in ClosedTasks : Woke(t) => is_closed]_vars
  BY <1>1
<1> QED
  BY <1>2, Invariance, PTL DEF Spec, OnlyCloseWakesClosed

-----------------------------------------------------------------------------
(* The polls of the demand, for whoever composes the channel with counts.  *)

\* A task that stays parked on the consumer list is on it, taken or woken, and a closure it
\* did not see is about to drain the list.
ParkOK(t) ==
    /\ pc[t] \in {"wanted2", "wanted2count"} \/ Asleep(t) =>
          woken[t] \/ Taken(t) \/ waiter[t] \in list["consumer"]
    /\ (pc[t] = "wanted2count" \/ Asleep(t)) /\ waiter[t] \in list["consumer"] /\ is_closed
          => Draining(TRUE)

ParkInv == \A t \in Tasks : Kind[t] = "wanted" => ParkOK(t)

\* How a poll of the demand comes to sleep on the consumer list (consumer.rs
\* poll_wanted_changed): only off its second look at the count.
StayOK(t) ==
    Asleep(t)' /\ waiter'[t] \in list'["consumer"] =>
        pc[t] = "wanted2count" \/ (Asleep(t) /\ waiter[t] \in list["consumer"])

Stays == \A t \in Tasks : Kind[t] = "wanted" => StayOK(t)

\* What the rest of the channel sees of a step of p that neither moves the version nor takes
\* from a list: every other task is where it was, and a drain under way stays.
Around(p) ==
    /\ \A q \in Procs : q # p => /\ pc'[q] = pc[q] /\ woken'[q] = woken[q]
                                 /\ closing'[q] = closing[q] /\ waiter'[q] = waiter[q]
    /\ \A q \in Tasks : q # p => (waiter[q] \in list'["consumer"] <=> waiter[q] \in list["consumer"])
    /\ pc[p] \in {"published", "unlocked"} =>
          pc'[p] \in {"published", "unlocked"} /\ closing'[p] = closing[p]
    /\ UNCHANGED <<taken, version>>

\* ... and p itself does not park on the demand.
Elsewhere(p) ==
    /\ Around(p)
    /\ Kind[p] = "wanted" => \/ pc'[p] \notin {"wanted2", "wanted2count", "idle"}
                             \/ pc'[p] = "idle" /\ woken'[p]

\* Such a step leaves the others as they are.
LEMMA AroundFrame ==
    ASSUME ParkInv, NEW p \in Procs, Around(p)
    PROVE  /\ is_closed' <=> is_closed
           /\ Draining(TRUE) => Draining(TRUE)'
           /\ \A t \in Tasks : t # p /\ Kind[t] = "wanted" => ParkOK(t)' /\ StayOK(t)
<1>1. \A q \in Procs : q # p => /\ pc'[q] = pc[q] /\ woken'[q] = woken[q]
                                /\ closing'[q] = closing[q] /\ waiter'[q] = waiter[q]
  BY Zenon DEF Around
<1>2. UNCHANGED <<taken, version>>
  BY Zenon DEF Around
<1>3. is_closed' <=> is_closed
  BY Zenon, <1>2 DEF is_closed
<1>4. Draining(TRUE) => Draining(TRUE)'
  BY Zenon, <1>1 DEF Draining, Around
<1>5. ASSUME NEW t \in Tasks, t # p, Kind[t] = "wanted"
      PROVE  ParkOK(t)' /\ StayOK(t)
  <2>1. t \in Procs
    BY Zenon DEF Tasks
  <2>2. /\ (Asleep(t)' <=> Asleep(t)) /\ (Taken(t)' <=> Taken(t))
        /\ pc'[t] = pc[t] /\ woken'[t] = woken[t]
        /\ (waiter'[t] \in list'["consumer"] <=> waiter[t] \in list["consumer"])
    BY Zenon, <1>1, <1>2, <1>5, <2>1 DEF Asleep, Taken, Around
  <2>3. ParkOK(t)
    BY Zenon, <1>5 DEF ParkInv
  <2>. QED
    BY Zenon, <1>3, <1>4, <2>2, <2>3 DEF ParkOK, StayOK
<1>. QED
  BY Zenon, <1>3, <1>4, <1>5

\* A step elsewhere leaves the parked as they are.
LEMMA ParkFrame ==
    ASSUME ParkInv, NEW p \in Procs, Elsewhere(p)
    PROVE  ParkInv' /\ Stays
<1>1. \A t \in Tasks : t # p /\ Kind[t] = "wanted" => ParkOK(t)' /\ StayOK(t)
  BY Zenon, AroundFrame DEF Elsewhere
<1>2. ASSUME NEW t \in Tasks, Kind[t] = "wanted", t = p PROVE ParkOK(t)' /\ StayOK(t)
  <2>1. ~Asleep(t)' /\ pc'[t] \notin {"wanted2", "wanted2count"}
    BY Zenon, <1>2 DEF Asleep, Elsewhere
  <2>. QED
    BY Zenon, <2>1 DEF ParkOK, StayOK
<1>. QED
  BY Zenon, <1>1, <1>2 DEF ParkInv, Stays

\* Nor does one of another kind of process that only moves its program counter.
LEMMA MoveFrame ==
    ASSUME TypeOK, NEW p \in Procs, NEW at, Goto(p, at),
           UNCHANGED <<version, list, waiter, woken, closing, taken>>,
           pc[p] \in {"published", "unlocked"} => at \in {"published", "unlocked"},
           Kind[p] = "wanted" => at \notin {"wanted2", "wanted2count", "idle"}
    PROVE  Elsewhere(p)
<1>1. pc \in [Procs -> PCs]
  BY Zenon DEF TypeOK
<1>2. pc'[p] = at /\ \A q \in Procs : q # p => pc'[q] = pc[q]
  BY Zenon, <1>1 DEF Goto
<1>. QED
  BY Zenon, <1>2 DEF Elsewhere, Around, Tasks

\* A publish or a drain by p: whoever it takes from the list is taken, and whoever stays on
\* the list of a closed channel has a drain coming.
LEMMA DrainFrame ==
    ASSUME ParkInv, NEW p \in Procs, Kind[p] # "wanted",
           UNCHANGED <<waiter, woken>>, \A q \in Procs : q # p => pc'[q] = pc[q],
           \A t \in Tasks : Taken(t) => Taken(t)',
           \A t \in Tasks : waiter[t] \in list["consumer"] => waiter[t] \in list'["consumer"] \/ Taken(t)',
           \A t \in Tasks : waiter[t] \in list'["consumer"] => waiter[t] \in list["consumer"],
           \A t \in Tasks : waiter[t] \in list'["consumer"] /\ is_closed' =>
               Draining(TRUE)' \/ (is_closed /\ (Draining(TRUE) => Draining(TRUE)'))
    PROVE  ParkInv' /\ Stays
<1>1. ASSUME NEW t \in Tasks, Kind[t] = "wanted" PROVE ParkOK(t)' /\ StayOK(t)
  <2>1. t \in Procs /\ t # p /\ ParkOK(t)
    BY Zenon, <1>1 DEF Tasks, ParkInv
  <2>2. (Asleep(t)' <=> Asleep(t)) /\ pc'[t] = pc[t] /\ woken'[t] = woken[t] /\ waiter'[t] = waiter[t]
    BY Zenon, <2>1 DEF Asleep
  <2>. QED
    BY Zenon, <1>1, <2>1, <2>2 DEF ParkOK, StayOK
<1>. QED
  BY Zenon, <1>1 DEF ParkInv, Stays

\* Nobody parks on the consumer list unseen: the registration comes before the second look
\* at the flag and the count, and a drain that takes the entry wakes it.
LEMMA ParkStep ==
    ASSUME ParkInv, TypeOK, LockInv, VersionInv, KindInv, [Next]_vars
    PROVE  ParkInv' /\ Stays
<1>0. /\ pc \in [Procs -> PCs] /\ woken \in [Procs -> BOOLEAN] /\ taken \in [Procs -> SUBSET Waiters]
      /\ list \in [Lists -> SUBSET Waiters] /\ waiter \in [Procs -> Waiters \cup {NoWaiter}]
      /\ closing \in [Procs -> BOOLEAN] /\ version \in Nat
  BY Zenon DEF TypeOK
<1>1. \A p \in Procs : pc[p] \in {"repoll", "retag", "judge", "park", "parkver", "register", "sync", "check",
                                  "closed1", "closedreg", "closed2"} \cup WritePCs => Kind[p] # "wanted"
  BY DEF KindInv, ValueTasks, ClosedTasks
<1>2. ASSUME NEW p \in Procs, pc[p] \in {"repoll", "retag", "judge", "park", "parkver", "sync", "closed1",
                                         "closed2", "reading", "wakesync"}, NEW at, Goto(p, at),
             UNCHANGED <<version, list, waiter, woken, closing, taken>>
      PROVE  ParkInv' /\ Stays
  <2>1. Kind[p] # "wanted" /\ pc[p] \notin {"published", "unlocked"}
    BY <1>1, <1>2 DEF WritePCs
  <2>. QED
    BY Zenon, <1>2, <2>1, MoveFrame, ParkFrame
<1>3. ASSUME NEW p \in Procs, Repoll(p) PROVE ParkInv' /\ Stays
  <2>1. /\ pc[p] = "repoll" /\ \E at : Goto(p, at)
        /\ UNCHANGED <<version, list, waiter, woken, closing, taken>>
    BY Zenon, <1>3 DEF Repoll, listVars, taskVars, wakeVars
  <2>. QED
    BY Zenon, <1>2, <2>1
<1>4. ASSUME NEW p \in Procs, RepollTag(p) PROVE ParkInv' /\ Stays
  <2>1. /\ pc[p] = "retag" /\ \E at : Goto(p, at)
        /\ UNCHANGED <<version, list, waiter, woken, closing, taken>>
    BY Zenon, <1>4 DEF RepollTag, listVars, taskVars, wakeVars
  <2>. QED
    BY Zenon, <1>2, <2>1
<1>5. ASSUME NEW p \in Procs, Judge(p) PROVE ParkInv' /\ Stays
  <2>1. /\ pc[p] = "judge" /\ \E at : Goto(p, at)
        /\ UNCHANGED <<version, list, waiter, woken, closing, taken>>
    BY Zenon, <1>5 DEF Judge, listVars, taskVars, wakeVars
  <2>. QED
    BY Zenon, <1>2, <2>1
<1>6. ASSUME NEW p \in Procs, Park(p) PROVE ParkInv' /\ Stays
  <2>1. /\ pc[p] = "park" /\ \E at : Goto(p, at)
        /\ UNCHANGED <<version, list, waiter, woken, closing, taken>>
    BY Zenon, <1>6 DEF Park, listVars, taskVars, wakeVars
  <2>. QED
    BY Zenon, <1>2, <2>1
<1>7. ASSUME NEW p \in Procs, ParkVersion(p) PROVE ParkInv' /\ Stays
  <2>1. /\ pc[p] = "parkver" /\ \E at : Goto(p, at)
        /\ UNCHANGED <<version, list, waiter, woken, closing, taken>>
    BY Zenon, <1>7 DEF ParkVersion, listVars, taskVars, wakeVars
  <2>. QED
    BY Zenon, <1>2, <2>1
<1>8. ASSUME NEW p \in Procs, Sync(p) PROVE ParkInv' /\ Stays
  <2>1. /\ pc[p] = "sync" /\ \E at : Goto(p, at)
        /\ UNCHANGED <<version, list, waiter, woken, closing, taken>>
    BY Zenon, <1>8 DEF Sync, listVars, taskVars, wakeVars
  <2>. QED
    BY Zenon, <1>2, <2>1
<1>9. ASSUME NEW p \in Procs, PollClosed(p) PROVE ParkInv' /\ Stays
  <2>1. /\ pc[p] = "closed1" /\ \E at : Goto(p, at)
        /\ UNCHANGED <<version, list, waiter, woken, closing, taken>>
    BY Zenon, <1>9 DEF PollClosed, listVars, taskVars, wakeVars
  <2>. QED
    BY Zenon, <1>2, <2>1
<1>10. ASSUME NEW p \in Procs, PollClosedRecheck(p) PROVE ParkInv' /\ Stays
  <2>1. /\ pc[p] = "closed2" /\ \E at : Goto(p, at)
        /\ UNCHANGED <<version, list, waiter, woken, closing, taken>>
    BY Zenon, <1>10 DEF PollClosedRecheck, listVars, taskVars, wakeVars
  <2>. QED
    BY Zenon, <1>2, <2>1
<1>11. ASSUME NEW p \in Procs, Write(p) PROVE ParkInv' /\ Stays
  <2>1. /\ pc[p] = "reading" /\ \E at : Goto(p, at)
        /\ UNCHANGED <<version, list, waiter, woken, closing, taken>>
    BY Zenon, <1>11 DEF Write, listVars, taskVars, wakeVars
  <2>. QED
    BY Zenon, <1>2, <2>1
<1>12. ASSUME NEW p \in Procs, WakeSync(p) PROVE ParkInv' /\ Stays
  <2>1. /\ pc[p] = "wakesync" /\ \E at : Goto(p, at)
        /\ UNCHANGED <<version, list, waiter, woken, closing, taken>>
    BY Zenon, <1>12 DEF WakeSync, listVars, taskVars, wakeVars
  <2>. QED
    BY Zenon, <1>2, <2>1
<1>13. ASSUME NEW p \in Procs, Begin(p) PROVE ParkInv' /\ Stays
  <2>1. /\ p \in Tasks /\ pc[p] = "idle" /\ Goto(p, FirstStep[Kind[p]])
        /\ woken' = [woken EXCEPT ![p] = FALSE]
        /\ \A q \in Procs : q # p => waiter'[q] = waiter[q]
        /\ UNCHANGED <<version, list, closing, taken>>
    BY Zenon, <1>0, <1>13 DEF Begin, Renew, wakeVars
  <2>2. /\ pc'[p] = FirstStep[Kind[p]]
        /\ \A q \in Procs : q # p => pc'[q] = pc[q] /\ woken'[q] = woken[q]
    BY Zenon, <1>0, <2>1 DEF Goto
  <2>3. Kind[p] = "wanted" => pc'[p] = "wanted1"
    BY <2>1, <2>2 DEF FirstStep
  <2>4. Elsewhere(p)
    BY Zenon, <2>1, <2>2, <2>3 DEF Elsewhere, Around, Tasks
  <2>. QED
    BY Zenon, <2>4, ParkFrame
<1>14. ASSUME NEW p \in Procs, Register(p) PROVE ParkInv' /\ Stays
  <2>1. /\ pc[p] = "register" /\ Goto(p, "sync") /\ UNCHANGED <<version, waiter, woken, closing, taken>>
        /\ list' = list \/ \E S : list' = [list EXCEPT !["value"] = S]
    BY Zenon, <1>14 DEF Register, taskVars, wakeVars
  <2>2. list'["consumer"] = list["consumer"]
    BY <1>0, <2>1 DEF Lists
  <2>3. Kind[p] # "wanted"
    BY Zenon, <1>1, <2>1
  <2>4. \A q \in Procs : q # p => pc'[q] = pc[q]
    BY Zenon, <1>0, <2>1 DEF Goto
  <2>5. Elsewhere(p)
    BY Zenon, <2>1, <2>2, <2>3, <2>4 DEF Elsewhere, Around, Tasks
  <2>. QED
    BY Zenon, <2>5, ParkFrame
<1>15. ASSUME NEW p \in Procs, PollClosedRegister(p) PROVE ParkInv' /\ Stays
  <2>1. /\ pc[p] = "closedreg" /\ Goto(p, "closed2") /\ UNCHANGED <<version, waiter, woken, closing, taken>>
        /\ \E S : list' = [list EXCEPT !["closed"] = S]
    BY Zenon, <1>15 DEF PollClosedRegister, Join, taskVars, wakeVars
  <2>2. list'["consumer"] = list["consumer"]
    BY <1>0, <2>1 DEF Lists
  <2>3. Kind[p] # "wanted"
    BY Zenon, <1>1, <2>1
  <2>4. \A q \in Procs : q # p => pc'[q] = pc[q]
    BY Zenon, <1>0, <2>1 DEF Goto
  <2>5. Elsewhere(p)
    BY Zenon, <2>1, <2>2, <2>3, <2>4 DEF Elsewhere, Around, Tasks
  <2>. QED
    BY Zenon, <2>5, ParkFrame
<1>16. ASSUME NEW p \in Procs, Check(p) PROVE ParkInv' /\ Stays
  <2>1. /\ pc[p] = "check" /\ Goto(p, "idle") /\ UNCHANGED <<version, list, waiter, closing, taken>>
        /\ woken' = [woken EXCEPT ![p] = woken[p] \/ version # seen[p]]
    BY Zenon, <1>16 DEF Check, listVars, wakeVars
  <2>2. \A q \in Procs : q # p => pc'[q] = pc[q] /\ woken'[q] = woken[q]
    BY Zenon, <1>0, <2>1 DEF Goto
  <2>3. Kind[p] # "wanted"
    BY Zenon, <1>1, <2>1
  <2>4. Elsewhere(p)
    BY Zenon, <2>1, <2>2, <2>3 DEF Elsewhere, Around, Tasks
  <2>. QED
    BY Zenon, <2>4, ParkFrame
<1>17. ASSUME NEW p \in Procs, Again(p) PROVE ParkInv' /\ Stays
  <2>1. /\ pc[p] = "ready" /\ Goto(p, "idle") /\ UNCHANGED <<version, list, waiter, closing, taken>>
        /\ woken' = [woken EXCEPT ![p] = TRUE]
    BY Zenon, <1>17 DEF Again, listVars, wakeVars
  <2>2. /\ pc'[p] = "idle" /\ woken'[p]
        /\ \A q \in Procs : q # p => pc'[q] = pc[q] /\ woken'[q] = woken[q]
    BY Zenon, <1>0, <2>1 DEF Goto
  <2>3. Elsewhere(p)
    BY Zenon, <2>1, <2>2 DEF Elsewhere, Around, Tasks
  <2>. QED
    BY Zenon, <2>3, ParkFrame
<1>18. ASSUME NEW p \in Procs, Reset(p) PROVE ParkInv' /\ Stays
  <2>1. Kind[p] = "watch" /\ UNCHANGED <<version, list, waiter, woken, closing, taken, pc>>
    BY Zenon, <1>18 DEF Reset, listVars, wakeVars
  <2>2. Elsewhere(p)
    BY Zenon, <2>1 DEF Elsewhere, Around, Tasks
  <2>. QED
    BY Zenon, <2>2, ParkFrame
<1>19. ASSUME NEW p \in Procs, Read(p) PROVE ParkInv' /\ Stays
  <2>1. /\ pc[p] = "idle" /\ Kind[p] = "write" /\ Goto(p, "reading")
        /\ UNCHANGED <<version, list, waiter, woken, closing, taken>>
    BY Zenon, <1>19 DEF Read, listVars, taskVars, wakeVars
  <2>. QED
    BY Zenon, <2>1, MoveFrame, ParkFrame
<1>20. ASSUME NEW p \in Procs, DropGuard(p) PROVE ParkInv' /\ Stays
  <2>1. /\ pc[p] \in {"reading", "locked"} /\ \E at : Goto(p, at)
        /\ UNCHANGED <<version, list, waiter, woken, closing, taken>>
    BY Zenon, <1>20 DEF DropGuard, Leave, listVars, taskVars, wakeVars
  <2>2. Kind[p] # "wanted" /\ pc[p] \notin {"published", "unlocked"}
    BY <1>1, <2>1 DEF WritePCs
  <2>. QED
    BY Zenon, <2>1, <2>2, MoveFrame, ParkFrame
<1>21. ASSUME NEW p \in Procs, Unlock(p) PROVE ParkInv' /\ Stays
  <2>1. /\ pc[p] = "published" /\ Goto(p, "unlocked")
        /\ UNCHANGED <<version, list, waiter, woken, closing, taken>>
    BY Zenon, <1>21 DEF Unlock, listVars, taskVars, wakeVars
  <2>2. Kind[p] # "wanted"
    BY <1>1, <2>1 DEF WritePCs
  <2>. QED
    BY Zenon, <2>1, <2>2, MoveFrame, ParkFrame
<1>22. ASSUME NEW p \in Procs, WakeDone(p) PROVE ParkInv' /\ Stays
  <2>1. /\ pc[p] = "waking" /\ \E at : Goto(p, at)
        /\ closing' = [closing EXCEPT ![p] = FALSE]
        /\ UNCHANGED <<version, list, waiter, woken, taken>>
    BY Zenon, <1>22 DEF WakeDone, Leave, listVars, taskVars
  <2>2. \A q \in Procs : q # p => pc'[q] = pc[q] /\ closing'[q] = closing[q]
    BY Zenon, <1>0, <2>1 DEF Goto
  <2>3. Kind[p] # "wanted" /\ pc[p] \notin {"published", "unlocked"}
    BY <1>1, <2>1 DEF WritePCs
  <2>4. Elsewhere(p)
    BY Zenon, <2>1, <2>2, <2>3 DEF Elsewhere, Around, Tasks
  <2>. QED
    BY Zenon, <2>4, ParkFrame
<1>23. ASSUME NEW p \in Procs, WantedClosed(p) PROVE ParkInv' /\ Stays
  <2>1. /\ pc[p] \in {"wanted1", "wanted2"}
        /\ Goto(p, IF is_closed THEN "ready" ELSE IF pc[p] = "wanted1" THEN "wanted1count" ELSE "wanted2count")
        /\ UNCHANGED <<version, list, waiter, woken, closing, taken>>
    BY Zenon, <1>23 DEF WantedClosed, listVars, taskVars, wakeVars
  <2>2. CASE is_closed \/ pc[p] = "wanted1"
    <3>1. \E at \in {"ready", "wanted1count"} : Goto(p, at)
      BY Zenon, <2>1, <2>2
    <3>. QED
      BY Zenon, <2>1, <3>1, MoveFrame, ParkFrame
  <2>3. CASE ~is_closed /\ pc[p] = "wanted2"
    <3>1. pc'[p] = "wanted2count" /\ \A q \in Procs : q # p => pc'[q] = pc[q]
      BY <1>0, <2>1, <2>3 DEF Goto
    <3>2. Around(p)
      BY Zenon, <2>1, <2>3, <3>1 DEF Around, Tasks
    <3>3. ASSUME p \in Tasks, Kind[p] = "wanted" PROVE ParkOK(p)' /\ StayOK(p)
      <4>1. ParkOK(p) /\ ~is_closed'
        BY Zenon, <2>3, <3>2, <3>3, AroundFrame DEF ParkInv
      <4>2. ~Asleep(p)' /\ (Taken(p)' <=> Taken(p))
        BY Zenon, <2>1, <3>1 DEF Asleep, Taken
      <4>. QED
        BY Zenon, <2>1, <2>3, <4>1, <4>2 DEF ParkOK, StayOK
    <3>. QED
      BY Zenon, <3>2, <3>3, AroundFrame DEF ParkInv, Stays
  <2>. QED
    BY Zenon, <2>1, <2>2, <2>3
<1>24. ASSUME NEW p \in Procs, WantedRegister(p) PROVE ParkInv' /\ Stays
  <2>1. /\ pc[p] = "wantedreg" /\ Goto(p, "wanted2") /\ Join(p, "consumer")
        /\ UNCHANGED <<version, waiter, woken, closing, taken>>
    BY Zenon, <1>24 DEF WantedRegister, taskVars, wakeVars
  <2>2. pc'[p] = "wanted2" /\ \A q \in Procs : q # p => pc'[q] = pc[q]
    BY Zenon, <1>0, <2>1 DEF Goto
  <2>3. \E gone : /\ \A w \in gone : ~Live(w)
                  /\ list' = [list EXCEPT !["consumer"] = (list["consumer"] \ gone) \cup {waiter[p]}]
    BY Zenon, <2>1 DEF Join, Reclaim
  <2>4. \A q \in Procs : Live(waiter[q])
    BY Zenon DEF Live
  <2>5. /\ waiter[p] \in list'["consumer"]
        /\ \A q \in Procs : waiter[q] \in list'["consumer"] <=> waiter[q] \in list["consumer"] \/ waiter[q] = waiter[p]
    BY <1>0, <2>3, <2>4 DEF Lists
  <2>6. Kind[p] = "wanted" /\ p \in Tasks /\ \A q \in Tasks : q # p => waiter[q] # waiter[p]
    BY <2>1 DEF KindInv, Tasks
  <2>7. Around(p)
    BY Zenon, <2>1, <2>2, <2>5, <2>6 DEF Around, Tasks
  <2>8. ParkOK(p)' /\ StayOK(p)
    BY Zenon, <2>1, <2>2, <2>5 DEF ParkOK, StayOK, Asleep
  <2>. QED
    BY Zenon, <2>7, <2>8, AroundFrame DEF ParkInv, Stays
<1>25. ASSUME NEW p \in Procs, Close(p) PROVE ParkInv' /\ Stays
  <2>1. /\ pc[p] = "reading" /\ ~is_closed /\ closing' = [closing EXCEPT ![p] = TRUE]
        /\ Goto(p, "published") /\ UNCHANGED <<list, waiter, woken, taken>>
    BY Zenon, <1>25 DEF Close, listVars, taskVars
  <2>2. closing'[p] /\ pc'[p] = "published" /\ \A q \in Procs : q # p => pc'[q] = pc[q]
    BY Zenon, <1>0, <2>1 DEF Goto
  <2>3. Draining(TRUE)'
    BY Zenon, <2>2 DEF Draining
  <2>4. Kind[p] # "wanted" /\ \A t : Taken(t)' <=> Taken(t)
    BY Zenon, <1>1, <2>1 DEF WritePCs, Taken
  <2>. QED
    BY Zenon, <2>1, <2>2, <2>3, <2>4, DrainFrame
<1>26. ASSUME NEW p \in Procs, WakeTake(p) PROVE ParkInv' /\ Stays
  <2>1. /\ pc[p] = "unlocked" /\ Goto(p, "wakesync") /\ UNCHANGED <<version, waiter, woken, closing>>
    BY Zenon, <1>26 DEF WakeTake, taskVars
  <2>2. pc'[p] = "wakesync" /\ \A q \in Procs : q # p => pc'[q] = pc[q]
    BY Zenon, <1>0, <2>1 DEF Goto
  <2>3. Kind[p] # "wanted" /\ taken[p] = {}
    BY <1>1, <2>1 DEF WritePCs, LockInv
  <2>4. \A q \in Procs : taken[q] \subseteq taken'[q]
    BY <1>0, <1>26, <2>3 DEF WakeTake
  <2>5. /\ list'["consumer"] \subseteq list["consumer"]
        /\ ~closing[p] => list'["consumer"] = list["consumer"]
        /\ closing[p] => list'["consumer"] = {} /\ list["consumer"] \subseteq taken'[p]
    BY <1>0, <1>26 DEF WakeTake, Lists
  <2>6. \A t : Taken(t) => Taken(t)'
    BY Zenon, <2>1, <2>4 DEF Taken
  <2>7. \A t \in Tasks : waiter[t] \in list["consumer"] => waiter[t] \in list'["consumer"] \/ Taken(t)'
    BY Zenon, <2>1, <2>5 DEF Taken
  <2>8. ~closing[p] /\ Draining(TRUE) => Draining(TRUE)'
    BY Zenon, <2>1, <2>2 DEF Draining
  <2>9. is_closed' <=> is_closed
    BY Zenon, <2>1 DEF is_closed
  <2>. QED
    BY Zenon, <2>1, <2>2, <2>3, <2>5, <2>6, <2>7, <2>8, <2>9, DrainFrame
<1>27. ASSUME NEW p \in Procs, WakeConsumer(p) PROVE ParkInv' /\ Stays
  <2>1. /\ pc[p] = "idle" /\ Kind[p] = "write" /\ Goto(p, "waking")
        /\ list' = [list EXCEPT !["consumer"] = {}] /\ taken' = [taken EXCEPT ![p] = list["consumer"]]
        /\ UNCHANGED <<version, waiter, woken, closing>>
    BY Zenon, <1>27 DEF WakeConsumer, taskVars
  <2>2. pc'[p] = "waking" /\ \A q \in Procs : q # p => pc'[q] = pc[q]
    BY Zenon, <1>0, <2>1 DEF Goto
  <2>3. taken[p] = {} /\ list'["consumer"] = {} /\ taken'[p] = list["consumer"]
    BY <1>0, <2>1 DEF LockInv, Lists
  <2>4. \A q \in Procs : taken[q] \subseteq taken'[q]
    BY Zenon, <1>0, <2>1, <2>3
  <2>5. \A t : Taken(t) => Taken(t)'
    BY Zenon, <2>1, <2>4 DEF Taken
  <2>6. \A t \in Tasks : waiter[t] \in list["consumer"] => Taken(t)'
    BY Zenon, <2>1, <2>3 DEF Taken
  <2>. QED
    BY Zenon, <2>1, <2>2, <2>3, <2>5, <2>6, DrainFrame
<1>28. ASSUME NEW p \in Procs, WakeOne(p) PROVE ParkInv' /\ Stays
  <2>1. UNCHANGED <<version, list, waiter, closing, pc>>
    BY Zenon, <1>28 DEF WakeOne, listVars
  <2>2. (Draining(TRUE) => Draining(TRUE)') /\ (is_closed' <=> is_closed)
    BY Zenon, <2>1 DEF Draining, is_closed
  <2>3. ASSUME NEW t \in Tasks, Kind[t] = "wanted" PROVE ParkOK(t)' /\ StayOK(t)
    <3>1. ParkOK(t) /\ t \in Procs
      BY Zenon, <2>3 DEF ParkInv, Tasks
    <3>2. woken[t] \/ Taken(t) => woken'[t] \/ Taken(t)'
      BY Zenon, <1>28, <3>1, WakeOneWakes
    <3>3. woken[t] => woken'[t]
      BY Zenon, <1>0, <1>28, <3>1 DEF WakeOne
    <3>4. Asleep(t)' => Asleep(t)
      BY Zenon, <2>1, <3>3 DEF Asleep
    <3>. QED
      BY Zenon, <2>1, <2>2, <3>1, <3>2, <3>4 DEF ParkOK, StayOK
  <2>. QED
    BY Zenon, <2>3 DEF ParkInv, Stays
<1>29. ASSUME NEW p \in Procs, NEW v \in Values, NEW close \in BOOLEAN, Publish(p, v, close)
       PROVE  ParkInv' /\ Stays
  <2>1. /\ pc[p] = "locked" /\ closing' = [closing EXCEPT ![p] = close]
        /\ version' = version + STEP + (IF close THEN CLOSED ELSE 0)
        /\ Goto(p, "published") /\ UNCHANGED <<list, waiter, woken, taken>>
    BY Zenon, <1>29 DEF Publish, publish, listVars, taskVars
  <2>2. closing'[p] = close /\ pc'[p] = "published" /\ \A q \in Procs : q # p => pc'[q] = pc[q]
    BY Zenon, <1>0, <2>1 DEF Goto
  <2>3. Kind[p] # "wanted" /\ \A t : Taken(t)' <=> Taken(t)
    BY Zenon, <1>1, <2>1 DEF WritePCs, Taken
  <2>4. is_closed' => close
    <3>1. version % 2 # 1
      BY Zenon, <2>1 DEF VersionInv, is_closed, STEP, CLOSED
    <3>2. ~close => version' = version + 2
      BY <1>0, <2>1 DEF STEP
    <3>3. (version + 2) % 2 # 1
      BY <1>0, <3>1
    <3>. QED
      BY Zenon, <3>2, <3>3 DEF is_closed, STEP, CLOSED
  <2>5. close => Draining(TRUE)'
    BY Zenon, <2>2 DEF Draining
  <2>. QED
    BY Zenon, <2>1, <2>2, <2>3, <2>4, <2>5, DrainFrame
<1>30. ASSUME NEW p \in Procs, NEW changed \in BOOLEAN, WantedCount(p, changed) PROVE ParkInv' /\ Stays
  <2>1. /\ pc[p] \in {"wanted1count", "wanted2count"}
        /\ Goto(p, IF changed THEN "ready" ELSE IF pc[p] = "wanted1count" THEN "wantedreg" ELSE "idle")
        /\ UNCHANGED <<version, list, waiter, woken, closing, taken>>
    BY Zenon, <1>30 DEF WantedCount, listVars, taskVars, wakeVars
  <2>2. CASE changed \/ pc[p] = "wanted1count"
    <3>1. \E at \in {"ready", "wantedreg"} : Goto(p, at)
      BY Zenon, <2>1, <2>2
    <3>. QED
      BY Zenon, <2>1, <3>1, MoveFrame, ParkFrame
  <2>3. CASE ~changed /\ pc[p] = "wanted2count"
    <3>1. pc'[p] = "idle" /\ \A q \in Procs : q # p => pc'[q] = pc[q]
      BY <1>0, <2>1, <2>3 DEF Goto
    <3>2. Around(p)
      BY Zenon, <2>1, <2>3, <3>1 DEF Around, Tasks
    <3>3. ASSUME p \in Tasks, Kind[p] = "wanted" PROVE ParkOK(p)' /\ StayOK(p)
      <4>1. ParkOK(p) /\ (is_closed' <=> is_closed) /\ (Draining(TRUE) => Draining(TRUE)')
        BY Zenon, <3>2, <3>3, AroundFrame DEF ParkInv
      <4>2. Taken(p)' <=> Taken(p)
        BY Zenon, <2>1 DEF Taken
      <4>. QED
        BY Zenon, <2>1, <2>3, <4>1, <4>2 DEF ParkOK, StayOK
    <3>. QED
      BY Zenon, <3>2, <3>3, AroundFrame DEF ParkInv, Stays
  <2>. QED
    BY Zenon, <2>1, <2>2, <2>3
<1>31. CASE UNCHANGED vars
  <2>1. UNCHANGED <<version, list, waiter, woken, closing, taken, pc>>
    BY Zenon, <1>31 DEF vars, listVars, taskVars, wakeVars
  <2>2. (is_closed' <=> is_closed) /\ (Draining(TRUE)' <=> Draining(TRUE))
    BY Zenon, <2>1 DEF is_closed, Draining
  <2>3. \A t : (Asleep(t)' <=> Asleep(t)) /\ (Taken(t)' <=> Taken(t))
    BY Zenon, <2>1 DEF Asleep, Taken
  <2>. QED
    BY Zenon, <2>1, <2>2, <2>3 DEF ParkInv, Stays, ParkOK, StayOK
<1>. QED
  BY ZenonT(60), <1>3, <1>4, <1>5, <1>6, <1>7, <1>8, <1>9, <1>10, <1>11, <1>12, <1>13, <1>14, <1>15,
     <1>16, <1>17, <1>18, <1>19, <1>20, <1>21, <1>22, <1>23, <1>24, <1>25, <1>26, <1>27, <1>28,
     <1>29, <1>30, <1>31, Zenon
     DEF Next, ValueStep, DemandStep, Poll, Start, PollAgain, Wake

=============================================================================
