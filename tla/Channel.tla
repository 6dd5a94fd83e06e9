------------------------------ MODULE Channel ------------------------------
(***************************************************************************)
(* The state channel of kio (rs/kio/src/channel.rs with the parts of       *)
(* waiter.rs, watch.rs, producer.rs, consumer.rs and shared.rs it works    *)
(* with): one value under one mutex, an atomic version that counts the     *)
(* publishes, and the waiter lists under a second mutex.                   *)
(*                                                                         *)
(* A poll judges the value under the value lock, lets go of it and parks   *)
(* afterwards; a publish moves the version under the value lock, lets go   *)
(* of it and drains the waiter lists afterwards.  Every step below is one  *)
(* atomic access to shared memory, or one critical section of which other  *)
(* processes can see a single effect.                                      *)
(***************************************************************************)
EXTENDS Naturals, FiniteSets

CONSTANTS
    Procs,        \* threads that write, and tasks an executor polls
    Nobody,       \* the holder of a free mutex
    Kind,         \* what each process does with the channel
    Waiters,      \* identities of Waiter (one Arc<Waker> each)
    NoWaiter,     \* a writer has no park
    Values,       \* what the channel can hold
    InitValue,
    Target,       \* the values that satisfy the predicate of a polling task
    Rounds,       \* 2^ROUND_BITS: drains before a list draws a new serial
    MaxVersion    \* bound on the version, so on the publishes; plain ones leave
                  \* room for the close

Kinds == {"write", "poll", "watch", "produce", "closed", "wanted"}
Tasks == {p \in Procs : Kind[p] # "write"}
Lists == {"value", "closed", "consumer"}

ASSUME ChannelAssumption ==
    /\ Nobody \notin Procs
    /\ NoWaiter \notin Waiters
    /\ Kind \in [Procs -> Kinds]
    /\ InitValue \in Values
    /\ Target \in [Procs -> SUBSET Values]
    /\ Rounds \in Nat \ {0}
    /\ MaxVersion \in Nat

STEP == 2
CLOSED == 1

\* No version a watch can match: odd, so never an open one, and past every closed one.
UNJUDGED == STEP * MaxVersion + CLOSED

\* A list tag is a serial with a count of drains.  NoTag is the zero tag of a list
\* nobody registered on, and the empty record of a waiter.
NoTag == [serial |-> 0, round |-> 0]
Tags == [serial : Nat, round : 0 .. Rounds - 1]

VARIABLES
    value,        \* Channel::value
    version,      \* Channel::version
    vlock,        \* the process holding the value's mutex
    wlock,        \* the process holding the waiters' mutex
    list,         \* Waiters: the entries of each list, dead ones included
    tag,          \* the value list's tag
    value_tag,    \* Channel::value_tag, its lock-free mirror
    serials,      \* the last serial drawn
    record,       \* Waiter::parked: the tag recorded for the value list
    waiter,       \* Park: the live waiter each task holds
    woken,        \* the executor owes the task a poll
    pc,
    seen,         \* the version a pending predicate was judged at
    judged,       \* Watch::judged
    closing,      \* Mut::closing
    taken         \* the entries a drain took and has not woken yet

lockVars == <<vlock, wlock>>
listVars == <<list, tag, serials, record>>
taskVars == <<waiter, woken, seen, judged>>
wakeVars == <<closing, taken>>
vars == <<value, version, lockVars, listVars, value_tag, taskVars, wakeVars, pc>>

PollPCs == {"repoll", "retag", "judge", "park", "parkver", "register", "sync", "check",
            "closed1", "closedreg", "closed2",
            "wanted1", "wanted1count", "wantedreg", "wanted2", "wanted2count"}
WritePCs == {"reading", "locked", "published", "unlocked", "wakesync", "waking"}
PCs == {"idle", "ready"} \cup PollPCs \cup WritePCs

TypeOK ==
    /\ value \in Values
    /\ version \in Nat
    /\ vlock \in Procs \cup {Nobody}
    /\ wlock \in Procs \cup {Nobody}
    /\ list \in [Lists -> SUBSET Waiters]
    /\ tag \in Tags
    /\ value_tag \in Tags
    /\ serials \in Nat
    /\ record \in [Waiters -> Tags]
    /\ waiter \in [Procs -> Waiters \cup {NoWaiter}]
    /\ woken \in [Procs -> BOOLEAN]
    /\ pc \in [Procs -> PCs]
    /\ seen \in [Procs -> Nat]
    /\ judged \in [Procs -> Nat]
    /\ closing \in [Procs -> BOOLEAN]
    /\ taken \in [Procs -> SUBSET Waiters]

\* A park is empty until its task's first poll; giving it the waiter in advance changes
\* nothing, no list knows it yet.
Init ==
    /\ value = InitValue
    /\ version = 0
    /\ vlock = Nobody
    /\ wlock = Nobody
    /\ list = [l \in Lists |-> {}]
    /\ tag = NoTag
    /\ value_tag = NoTag
    /\ serials = 0
    /\ record = [w \in Waiters |-> NoTag]
    /\ waiter \in [Procs -> Waiters \cup {NoWaiter}]
    /\ \A p \in Procs : waiter[p] = NoWaiter <=> p \notin Tasks
    /\ \A t, u \in Tasks : waiter[t] = waiter[u] => t = u
    /\ woken = [p \in Procs |-> p \in Tasks]
    /\ pc = [p \in Procs |-> "idle"]
    /\ seen = [p \in Procs |-> 0]
    /\ judged = [p \in Procs |-> UNJUDGED]
    /\ closing = [p \in Procs |-> FALSE]
    /\ taken = [p \in Procs |-> {}]

-----------------------------------------------------------------------------
is_closed == version % STEP = CLOSED

Goto(p, at) == pc' = [pc EXCEPT ![p] = at]

\* An entry is live while some park still holds its waiter.
Live(w) == \E p \in Procs : waiter[p] = w

\* Waiter::holds: a record under the tag proves the list still has the entry.
holds(p, t) == t # NoTag /\ record[waiter[p]] = t

\* Mutant of drained: a drain that keeps the round.
drained_same_round == tag

\* WaiterList::drained: every drain of a list with entries starts a round, and a round
\* that wraps leaves the zero tag, so that the next registration draws a new serial.
drained ==
    IF tag = NoTag \/ list["value"] = {} THEN tag
    ELSE IF tag.round + 1 = Rounds THEN NoTag
    ELSE [serial |-> tag.serial, round |-> tag.round + 1]

\* Dead entries may be reclaimed by any registration (WaiterList.tla says which).
Reclaim(l, gone) == gone \subseteq {w \in list[l] : ~Live(w)}

-----------------------------------------------------------------------------
(* A task's poll.                                                          *)

FirstStep == [poll |-> "judge", watch |-> "repoll", produce |-> "judge",
              closed |-> "closed1", wanted |-> "wanted1"]

\* Park::hold retires the waiter of the last poll for one nothing refers to: the
\* registrations of the old one go dead.
Renew(t, w) ==
    /\ \A p \in Procs \ {t} : waiter[p] # w
    /\ \A l \in Lists : w \notin list[l]
    /\ \A p \in Procs : w \notin taken[p]
    /\ waiter' = [waiter EXCEPT ![t] = w]
    /\ record' = [record EXCEPT ![w] = NoTag]

\* A poll begins, with the waiter of the last one or a new one.
Begin(t) ==
    /\ t \in Tasks
    /\ pc[t] = "idle"
    /\ woken' = [woken EXCEPT ![t] = FALSE]
    /\ UNCHANGED <<waiter, record>> \/ \E w \in Waiters : Renew(t, w)
    /\ Goto(t, FirstStep[Kind[t]])
    /\ UNCHANGED <<value, version, lockVars, list, tag, serials, value_tag, seen, judged, wakeVars>>

\* The executor polls a woken task.
Start(t) == woken[t] /\ Begin(t)

\* Something else the task waits on woke it: a task polls every channel it waits on again,
\* also the ones nothing happened to.
PollAgain(t) == ~woken[t] /\ Begin(t)

\* Channel::repoll: the version first, then the tag.
Repoll(t) ==
    /\ pc[t] = "repoll"
    /\ IF version # judged[t]
         THEN Goto(t, "judge") /\ UNCHANGED seen
         ELSE Goto(t, "retag") /\ seen' = [seen EXCEPT ![t] = version]
    /\ UNCHANGED <<value, version, lockVars, listVars, value_tag, waiter, woken, judged, wakeVars>>

RepollTag(t) ==
    /\ pc[t] = "retag"
    /\ Goto(t, IF holds(t, value_tag) THEN "idle" ELSE "park")
    /\ UNCHANGED <<value, version, lockVars, listVars, value_tag, taskVars, wakeVars>>

\* Channel::poll_judged and Producer::poll under the value lock.  The first lets a ready
\* predicate win over a closed channel, the second checks the channel first and hands
\* back the lock as a Mut.
Judge(t) ==
    /\ pc[t] = "judge"
    /\ vlock = Nobody
    /\ IF value \in Target[t] /\ ~(Kind[t] = "produce" /\ is_closed)
         THEN IF Kind[t] = "produce"
                THEN Goto(t, "locked") /\ vlock' = t /\ UNCHANGED <<seen, judged>>
                ELSE Goto(t, "ready") /\ UNCHANGED <<vlock, seen, judged>>
         ELSE IF is_closed
                THEN Goto(t, "ready") /\ UNCHANGED <<vlock, seen, judged>>
                ELSE /\ Goto(t, "park")
                     /\ seen' = [seen EXCEPT ![t] = version]
                     /\ judged' = IF Kind[t] = "watch" THEN [judged EXCEPT ![t] = version] ELSE judged
                     /\ UNCHANGED vlock
    /\ UNCHANGED <<value, version, wlock, listVars, value_tag, waiter, woken, wakeVars>>

\* Mutant of Park: the version is read here, after the lock was let go, and not with the
\* value the predicate judged.
Park_late_version(t) ==
    /\ pc[t] = "park"
    /\ seen' = [seen EXCEPT ![t] = version]
    /\ Goto(t, IF holds(t, value_tag) THEN "parkver" ELSE "register")
    /\ UNCHANGED <<value, version, lockVars, listVars, value_tag, waiter, woken, judged, wakeVars>>

\* Channel::park_value, first the lock-free test: still on the list ...
Park(t) ==
    /\ pc[t] = "park"
    /\ Goto(t, IF holds(t, value_tag) THEN "parkver" ELSE "register")
    /\ UNCHANGED <<value, version, lockVars, listVars, value_tag, taskVars, wakeVars>>

\* ... and nothing published since the predicate judged the value.
ParkVersion(t) ==
    /\ pc[t] = "parkver"
    /\ Goto(t, IF version = seen[t] THEN "idle" ELSE "register")
    /\ UNCHANGED <<value, version, lockVars, listVars, value_tag, taskVars, wakeVars>>

\* WaiterList::register on the value list, under the waiter lock.  A waiter whose records
\* are all taken by other lists joins the list unrecorded.
Register(t) ==
    /\ pc[t] = "register"
    /\ wlock = Nobody
    /\ wlock' = t
    /\ tag' = IF tag = NoTag THEN [serial |-> serials + 1, round |-> 0] ELSE tag
    /\ serials' = IF tag = NoTag THEN serials + 1 ELSE serials
    /\ IF record[waiter[t]] = tag'
         THEN UNCHANGED <<list, record>>
         ELSE /\ \E gone \in SUBSET list["value"] :
                    /\ Reclaim("value", gone)
                    /\ list' = [list EXCEPT !["value"] = (@ \ gone) \cup {waiter[t]}]
              /\ \/ record' = [record EXCEPT ![waiter[t]] = tag']
                 \/ record[waiter[t]].serial # tag'.serial /\ UNCHANGED record
    /\ Goto(t, "sync")
    /\ UNCHANGED <<value, version, vlock, value_tag, taskVars, wakeVars>>

\* Channel::sync_tag.
Sync(t) ==
    /\ pc[t] = "sync"
    /\ value_tag' = tag
    /\ Goto(t, "check")
    /\ UNCHANGED <<value, version, lockVars, listVars, taskVars, wakeVars>>

\* Mutant of Check: the version is not looked at again.
Check_no_recheck(t) ==
    /\ pc[t] = "check"
    /\ wlock' = Nobody
    /\ Goto(t, "idle")
    /\ UNCHANGED <<value, version, vlock, listVars, value_tag, taskVars, wakeVars>>

\* The version again, now that the waiter is on the list: the task wakes itself when a
\* publish got in between.
Check(t) ==
    /\ pc[t] = "check"
    /\ wlock' = Nobody
    /\ woken' = [woken EXCEPT ![t] = @ \/ version # seen[t]]
    /\ Goto(t, "idle")
    /\ UNCHANGED <<value, version, vlock, listVars, value_tag, waiter, seen, judged, wakeVars>>

\* Watch::reset, by the owner of the watch between two polls.
Reset(t) ==
    /\ Kind[t] = "watch"
    /\ pc[t] = "ready"
    /\ judged[t] # UNJUDGED
    /\ judged' = [judged EXCEPT ![t] = UNJUDGED]
    /\ UNCHANGED <<value, version, lockVars, listVars, value_tag, waiter, woken, seen, wakeVars, pc>>

\* A task whose poll was ready goes on and polls again.
Again(t) ==
    /\ pc[t] = "ready"
    /\ woken' = [woken EXCEPT ![t] = TRUE]
    /\ Goto(t, "idle")
    /\ UNCHANGED <<value, version, lockVars, listVars, value_tag, waiter, seen, judged, wakeVars>>

-----------------------------------------------------------------------------
(* Channel::poll_closed, and the channel's part of poll_wanted_changed.    *)

\* Registration on the list of a channel that outlives rounds of polls; only the value
\* list has a mirrored tag, so the tags of the two others are left out.
Join(t, l) ==
    /\ wlock = Nobody
    /\ \E gone \in SUBSET list[l] :
          /\ Reclaim(l, gone)
          /\ list' = [list EXCEPT ![l] = (@ \ gone) \cup {waiter[t]}]

PollClosed(t) ==
    /\ pc[t] = "closed1"
    /\ Goto(t, IF is_closed THEN "ready" ELSE "closedreg")
    /\ UNCHANGED <<value, version, lockVars, listVars, value_tag, taskVars, wakeVars>>

PollClosedRegister(t) ==
    /\ pc[t] = "closedreg"
    /\ Join(t, "closed")
    /\ wlock' = t
    /\ Goto(t, "closed2")
    /\ UNCHANGED <<value, version, vlock, tag, serials, record, value_tag, taskVars, wakeVars>>

\* Mutant of PollClosedRecheck: the closed flag is not looked at again.
PollClosedRecheck_skipped(t) ==
    /\ pc[t] = "closed2"
    /\ wlock' = Nobody
    /\ Goto(t, "idle")
    /\ UNCHANGED <<value, version, vlock, listVars, value_tag, taskVars, wakeVars>>

PollClosedRecheck(t) ==
    /\ pc[t] = "closed2"
    /\ wlock' = Nobody
    /\ Goto(t, IF is_closed THEN "ready" ELSE "idle")
    /\ UNCHANGED <<value, version, vlock, listVars, value_tag, taskVars, wakeVars>>

\* The check of poll_wanted_changed loads the closed flag, then the consumer count.
WantedClosed(t) ==
    /\ pc[t] \in {"wanted1", "wanted2"}
    /\ Goto(t, IF is_closed THEN "ready" ELSE IF pc[t] = "wanted1" THEN "wanted1count" ELSE "wanted2count")
    /\ UNCHANGED <<value, version, lockVars, listVars, value_tag, taskVars, wakeVars>>

\* changed: the demand differs from what the caller last saw (Handles.tla).
WantedCount(t, changed) ==
    /\ pc[t] \in {"wanted1count", "wanted2count"}
    /\ Goto(t, IF changed THEN "ready" ELSE IF pc[t] = "wanted1count" THEN "wantedreg" ELSE "idle")
    /\ UNCHANGED <<value, version, lockVars, listVars, value_tag, taskVars, wakeVars>>

WantedRegister(t) ==
    /\ pc[t] = "wantedreg"
    /\ Join(t, "consumer")
    /\ Goto(t, "wanted2")
    /\ UNCHANGED <<value, version, lockVars, tag, serials, record, value_tag, taskVars, wakeVars>>

-----------------------------------------------------------------------------
(* A write: Mut and its drop, and Channel::wake.                           *)

\* Channel::read: a Ref, on an open or a closed channel.
Read(p) ==
    /\ pc[p] = "idle"
    /\ Kind[p] = "write"
    /\ vlock = Nobody
    /\ vlock' = p
    /\ Goto(p, "reading")
    /\ UNCHANGED <<value, version, wlock, listVars, value_tag, taskVars, wakeVars>>

\* Mutant of Write: the closed flag is not looked at.
Write_unchecked(p) ==
    /\ pc[p] = "reading"
    /\ Goto(p, "locked")
    /\ UNCHANGED <<value, version, lockVars, listVars, value_tag, taskVars, wakeVars>>

\* Producer::write turns the Ref of an open channel into a Mut.
Write(p) ==
    /\ pc[p] = "reading"
    /\ ~is_closed
    /\ Goto(p, "locked")
    /\ UNCHANGED <<value, version, lockVars, listVars, value_tag, taskVars, wakeVars>>

\* What a process does after its guard or its drain: a writer is free again, a task that
\* got a Mut from its poll returns from that poll.
Leave(p) == Goto(p, IF Kind[p] = "write" THEN "idle" ELSE "ready")

\* A guard that was only read from publishes nothing.
DropGuard(p) ==
    /\ pc[p] \in {"reading", "locked"}
    /\ vlock' = Nobody
    /\ Leave(p)
    /\ UNCHANGED <<value, version, wlock, listVars, value_tag, taskVars, wakeVars>>

\* Channel::publish.
publish(close) == version' = version + STEP + (IF close THEN CLOSED ELSE 0)

\* DerefMut, and Drop for Mut up to Channel::publish: the version moves under the lock.
Publish(p, v, close) ==
    /\ pc[p] = "locked"
    /\ version + STEP + CLOSED + (IF close THEN 0 ELSE STEP) <= MaxVersion
    /\ value' = v
    /\ publish(close)
    /\ closing' = [closing EXCEPT ![p] = close]
    /\ Goto(p, "published")
    /\ UNCHANGED <<lockVars, listVars, value_tag, taskVars, taken>>

\* Channel::close, with the Ref of an open channel.
Close(p) ==
    /\ pc[p] = "reading"
    /\ ~is_closed
    /\ version + STEP + CLOSED <= MaxVersion
    /\ publish(TRUE)
    /\ closing' = [closing EXCEPT ![p] = TRUE]
    /\ Goto(p, "published")
    /\ UNCHANGED <<value, lockVars, listVars, value_tag, taskVars, taken>>

Unlock(p) ==
    /\ pc[p] = "published"
    /\ vlock' = Nobody
    /\ Goto(p, "unlocked")
    /\ UNCHANGED <<value, version, wlock, listVars, value_tag, taskVars, wakeVars>>

\* Mutant of WakeTake: every write drains every list.
WakeTake_all(p) ==
    /\ pc[p] = "unlocked"
    /\ wlock = Nobody
    /\ wlock' = p
    /\ tag' = drained
    /\ list' = [l \in Lists |-> {}]
    /\ taken' = [taken EXCEPT ![p] = UNION {list[l] : l \in Lists}]
    /\ Goto(p, "wakesync")
    /\ UNCHANGED <<value, version, vlock, serials, record, value_tag, taskVars, closing>>

\* Channel::wake takes the lists under the waiter lock.  With no live value waiter a
\* plain write drops the dead entries in place.
WakeTake(p) ==
    /\ pc[p] = "unlocked"
    /\ wlock = Nobody
    /\ wlock' = p
    /\ tag' = drained
    /\ IF ~closing[p] /\ \A w \in list["value"] : ~Live(w)
         THEN /\ list' = [list EXCEPT !["value"] = {}]
              /\ UNCHANGED taken
         ELSE LET took == IF closing[p] THEN Lists ELSE {"value"} IN
              /\ list' = [l \in Lists |-> IF l \in took THEN {} ELSE list[l]]
              /\ taken' = [taken EXCEPT ![p] = UNION {list[l] : l \in took}]
    /\ Goto(p, "wakesync")
    /\ UNCHANGED <<value, version, vlock, serials, record, value_tag, taskVars, closing>>

WakeSync(p) ==
    /\ pc[p] = "wakesync"
    /\ value_tag' = tag
    /\ wlock' = Nobody
    /\ Goto(p, "waking")
    /\ UNCHANGED <<value, version, vlock, listVars, taskVars, wakeVars>>

\* Mutant of WakeOne: a waiter stays in the snapshot when it is woken.
WakeOne_stuck(p) ==
    /\ pc[p] = "waking"
    /\ \E w \in taken[p] : woken' = [t \in Procs |-> woken[t] \/ waiter[t] = w]
    /\ UNCHANGED <<value, version, lockVars, listVars, value_tag, waiter, seen, judged, wakeVars, pc>>

\* WaiterList::wake on the snapshot, one entry at a time; a dead one wakes nobody.
WakeOne(p) ==
    /\ pc[p] = "waking"
    /\ \E w \in taken[p] :
          /\ taken' = [taken EXCEPT ![p] = @ \ {w}]
          /\ woken' = [t \in Procs |-> woken[t] \/ waiter[t] = w]
    /\ UNCHANGED <<value, version, lockVars, listVars, value_tag, waiter, seen, judged, closing, pc>>

WakeDone(p) ==
    /\ pc[p] = "waking"
    /\ taken[p] = {}
    /\ closing' = [closing EXCEPT ![p] = FALSE]
    /\ Leave(p)
    /\ UNCHANGED <<value, version, lockVars, listVars, value_tag, taskVars, taken>>

\* Channel::wake_consumer.
WakeConsumer(p) ==
    /\ pc[p] = "idle"
    /\ Kind[p] = "write"
    /\ wlock = Nobody
    /\ list' = [list EXCEPT !["consumer"] = {}]
    /\ taken' = [taken EXCEPT ![p] = list["consumer"]]
    /\ Goto(p, "waking")
    /\ UNCHANGED <<value, version, lockVars, tag, serials, record, value_tag, taskVars, closing>>

-----------------------------------------------------------------------------
Poll(t) ==
    \/ Start(t) \/ Repoll(t) \/ RepollTag(t) \/ Judge(t)
    \/ Park(t) \/ ParkVersion(t) \/ Register(t) \/ Sync(t) \/ Check(t)
    \/ PollClosed(t) \/ PollClosedRegister(t) \/ PollClosedRecheck(t)

\* What a process that published owes: none of it waits on anything but the waiter lock.
Wake(p) == Unlock(p) \/ WakeTake(p) \/ WakeSync(p) \/ WakeOne(p) \/ WakeDone(p)

\* A step on the value or the closure.
ValueStep(p) ==
    \/ Poll(p) \/ PollAgain(p) \/ Reset(p) \/ Again(p)
    \/ Read(p) \/ Write(p) \/ DropGuard(p) \/ Close(p)
    \/ \E v \in Values, close \in BOOLEAN : Publish(p, v, close)
    \/ Wake(p)

\* A step on the demand; Handles.tla has the count of consumers it is about.
DemandStep(p) ==
    \/ WantedClosed(p) \/ WantedRegister(p) \/ WakeConsumer(p)
    \/ \E changed \in BOOLEAN : WantedCount(p, changed)

ValueNext == \E p \in Procs : ValueStep(p)
Next == \E p \in Procs : ValueStep(p) \/ DemandStep(p)

Spec == Init /\ [][Next]_vars

\* Every process in the middle of a call finishes it, and the executor polls a woken task.
\* The mutexes are taken and freed by others without end, so whoever waits for one needs
\* that finding it free again and again is enough.
TakesLock(p) == Judge(p) \/ Register(p) \/ PollClosedRegister(p)

Fairness ==
    /\ \A t \in Tasks : WF_vars(Poll(t)) /\ SF_vars(TakesLock(t))
    /\ \A p \in Procs : Kind[p] \in {"write", "produce"} =>
          WF_vars(Wake(p)) /\ SF_vars(WakeTake(p)) /\ WF_vars(DropGuard(p))

\* The channel while nobody watches the demand.
FairSpec == Init /\ [][ValueNext]_vars /\ Fairness

-----------------------------------------------------------------------------
(* Properties.                                                             *)

ValueTasks == {t \in Tasks : Kind[t] \in {"poll", "watch", "produce"}}
ClosedTasks == {t \in Tasks : Kind[t] = "closed"}

\* The task's last poll was pending and nothing has woken it since.
Asleep(t) == t \in Tasks /\ pc[t] = "idle" /\ ~woken[t]

\* A drain took the task's waiter and is about to wake it.
Taken(t) == \E p \in Procs : waiter[t] \in taken[p]

\* A publish moved the version and has yet to drain the lists.
Draining(closed) == \E p \in Procs : pc[p] \in {"published", "unlocked"} /\ (closed => closing[p])

\* No lost wakeup (channel.rs park_value, repoll and wake): a task asleep on the value is
\* on the value list or being woken, and once the version has moved past the one its
\* predicate was judged at, a drain that reaches it is under way.
NoLostWakeup ==
    \A t \in ValueTasks : Asleep(t) =>
        \/ Taken(t)
        \/ /\ waiter[t] \in list["value"]
           /\ version = seen[t] \/ Draining(FALSE)

\* Nobody sleeps through what it waits for (Consumer::poll, Watch::poll, Producer::poll):
\* a task asleep although the value satisfies its predicate, or although the channel
\* closed, is about to be woken.  For a watch this is the soundness of skipping the
\* predicate while the version stands.
NoSleepWhileReady ==
    \A t \in ValueTasks : Asleep(t) /\ (value \in Target[t] \/ is_closed) =>
        Taken(t) \/ (waiter[t] \in list["value"] /\ Draining(FALSE))

\* The lock-free test is sound (Waiter::holds on Channel::value_tag): a waiter whose
\* record matches the mirrored tag is on the value list, or in the snapshot of the drain
\* that is about to move the mirror and will wake it.
HoldsProvesParked ==
    \A t \in Tasks : holds(t, value_tag) =>
        \/ waiter[t] \in list["value"]
        \/ \E p \in Procs : pc[p] = "wakesync" /\ waiter[t] \in taken[p]

\* A closure reaches everyone waiting for it (channel.rs poll_closed): a task asleep on
\* the closed list of a closed channel is about to be woken.
NoLostClose ==
    \A t \in ClosedTasks : Asleep(t) =>
        \/ Taken(t)
        \/ waiter[t] \in list["closed"] /\ (is_closed => Draining(TRUE))

\* Closing is final (Mut is made on open channels only, channel.rs Mut::close): no step
\* writes the value or moves the version of a closed channel.
ClosedIsFinal == [][is_closed => UNCHANGED <<value, version>>]_vars

\* A plain write leaves the closed waiters alone (channel.rs Waiters): only a closure
\* wakes a task parked on the closed list.
OnlyCloseWakesClosed ==
    [][\A t \in ClosedTasks : Asleep(t) /\ woken'[t] => is_closed]_vars

\* Whoever waits for what the channel comes to hold for good resolves (Consumer::poll,
\* Watch::poll), and so does whoever waits for the closure.
Delivered ==
    \A t \in Tasks :
        /\ Kind[t] \in {"poll", "watch"} =>
             (<>[](value \in Target[t] \/ is_closed) => []<>(pc[t] = "ready"))
        /\ Kind[t] = "closed" => (<>[]is_closed => []<>(pc[t] = "ready"))

=============================================================================
