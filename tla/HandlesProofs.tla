--------------------------- MODULE HandlesProofs ---------------------------
(***************************************************************************)
(* The handles of a channel, for any number of processes and handles: the  *)
(* counts are of the handles held, the last producer closes the channel,   *)
(* an idle teardown and a consumer exclude each other, and no change of    *)
(* the demand is lost.  Every step of Handles is a step of Channel or      *)
(* leaves the channel alone, so that what ChannelProofs proves of the      *)
(* channel can be used here.                                               *)
(***************************************************************************)
EXTENDS Handles, ChannelProofs

\* What a poll of the demand does to the channel, whatever the counts say.
LEMMA PollWantedStep ==
    ASSUME NEW p \in Procs, PollWanted(p)
    PROVE  Next
<1>1. (wanted # last[p]) \in BOOLEAN
  BY Zenon
<1>2. \E changed \in BOOLEAN : WantedCount(p, changed)
  BY Zenon, <1>1, Zenon DEF PollWanted
<1>. QED
  BY Zenon, <1>2, Zenon DEF Next, ValueStep, DemandStep

\* The producer's operations (producer.rs) on the channel.
LEMMA ProducingStep ==
    ASSUME NEW p \in Procs, Producing(p)
    PROVE  Next \/ UNCHANGED vars
<1>1. CASE WriteLock(p) \/ UnwantedLock(p) \/ DropProducer(p) \/ Produce(p)
  <2>1. Read(p)
    BY Zenon, <1>1, Zenon DEF WriteLock, UnwantedLock, DropProducer, Produce
  <2>. QED
    BY Zenon, <2>1, Zenon DEF Next, ValueStep, DemandStep
<1>2. CASE WriteOpen(p) \/ UnwantedIdle(p)
  <2>1. Write(p)
    BY Zenon, <1>2, Zenon DEF WriteOpen, UnwantedIdle
  <2>. QED
    BY Zenon, <2>1, Zenon DEF Next, ValueStep, DemandStep
<1>3. CASE WriteDrop(p) \/ UnwantedDecline(p)
  <2>1. DropGuard(p)
    BY Zenon, <1>3, Zenon DEF WriteDrop, UnwantedDecline
  <2>. QED
    BY Zenon, <2>1, Zenon DEF Next, ValueStep, DemandStep
<1>4. CASE \E v \in Values, close \in BOOLEAN : WritePublish(p, v, close)
  <2>1. \E v \in Values, close \in BOOLEAN : Publish(p, v, close)
    BY Zenon, <1>4, Zenon DEF WritePublish
  <2>. QED
    BY Zenon, <2>1, Zenon DEF Next, ValueStep, DemandStep
<1>5. CASE DropLast(p)
  BY Zenon, <1>5, Zenon DEF DropLast, Next, ValueStep, DemandStep
<1>6. CASE CloneProducer(p) \/ DropCount(p) \/ ProduceCount(p)
  BY Zenon, <1>6, Zenon DEF CloneProducer, DropCount, ProduceCount
<1>. QED
  BY Zenon, <1>1, <1>2, <1>3, <1>4, <1>5, <1>6, Zenon DEF Producing

\* The consumer's operations (consumer.rs) on the channel.
LEMMA ConsumingStep ==
    ASSUME NEW p \in Procs, Consuming(p)
    PROVE  Next \/ UNCHANGED vars
<1>1. CASE \E only_open \in BOOLEAN : MintLock(p, only_open)
  <2>1. Read(p)
    BY Zenon, <1>1, Zenon DEF MintLock
  <2>. QED
    BY Zenon, <2>1, Zenon DEF Next, ValueStep, DemandStep
<1>2. CASE MintUnlock(p)
  BY Zenon, <1>2, Zenon DEF MintUnlock, Next, ValueStep, DemandStep
<1>3. CASE Notify(p)
  BY Zenon, <1>3, Zenon DEF Notify, Next, ValueStep, DemandStep
<1>4. CASE MintMore(p) \/ MintMiss(p) \/ MintCount(p) \/ CloneConsumer(p) \/ DropConsumer(p)
  BY Zenon, <1>4, Zenon DEF MintMore, MintMiss, MintCount, CloneConsumer, DropConsumer
<1>. QED
  BY Zenon, <1>1, <1>2, <1>3, <1>4, Zenon DEF Consuming

\* Every operation on a handle is a step of the channel or leaves it alone.
LEMMA HandlesStep == HNext => Next \/ UNCHANGED vars
<1>. SUFFICES ASSUME HNext PROVE Next \/ UNCHANGED vars
  OBVIOUS
<1>. PICK p \in Procs : \/ PollWanted(p) \/ PollChannel(p) \/ Drain(p) \/ Drained(p)
                        \/ Producing(p) \/ Consuming(p)
  BY Zenon DEF HNext
<1>1. CASE PollWanted(p)
  BY Zenon, <1>1, PollWantedStep, Zenon
<1>2. CASE PollChannel(p)
  <2>1. Poll(p) \/ WantedClosed(p) \/ WantedRegister(p) \/ PollAgain(p) \/ Reset(p) \/ Again(p)
    BY Zenon, <1>2, Zenon DEF PollChannel
  <2>. QED
    BY Zenon, <2>1, Zenon DEF Next, ValueStep, DemandStep
<1>3. CASE Drain(p) \/ Drained(p)
  <2>1. Wake(p)
    BY Zenon, <1>3, Zenon DEF Drain, Drained, Wake
  <2>. QED
    BY Zenon, <2>1, Zenon DEF Next, ValueStep, DemandStep
<1>4. CASE Producing(p)
  BY Zenon, <1>4, ProducingStep, Zenon
<1>5. CASE Consuming(p)
  BY Zenon, <1>5, ConsumingStep, Zenon
<1>. QED
  BY Zenon, <1>1, <1>2, <1>3, <1>4, <1>5, Zenon

\* A behaviour of the handles (producer.rs, consumer.rs, weak.rs) is one of the channel.
LEMMA HandlesAreChannel == HSpec => Spec
<1>1. HInit => Init
  BY DEF HInit
<1>2. [HNext]_allVars => [Next]_vars
  BY Zenon, HandlesStep, Zenon DEF allVars
<1>. QED
  BY <1>1, <1>2, PTL DEF HSpec, Spec

\* So no wakeup is lost while handles come and go, and nobody sleeps through what it waits
\* for (Consumer::poll, Watch::poll, poll_closed).
COROLLARY HandlesNoLostWakeup == HSpec => [](NoLostWakeup /\ NoSleepWhileReady)
  BY HandlesAreChannel, WakeupSafety, SleepSafety, PTL

-----------------------------------------------------------------------------
(* The counts.  A count is the number of handles the processes hold, each  *)
(* one a pair of a process and a number, and a producer being dropped is   *)
(* still counted until its process has the lock.                           *)

Held(f) == {h \in Procs \X (1 .. MaxHandles) : h[2] <= f[h[1]]}
Dropping == \E p \in Procs : op[p] = "drop"

CountInv ==
    /\ producers = Cardinality(Held(prod)) + (IF Dropping THEN 1 ELSE 0)
    /\ consumers = Cardinality(Held(cons))

Holdings == [Procs -> 0 .. MaxHandles]

-----------------------------------------------------------------------------
(* The inductive invariant.                                                *)

\* Where a process is in the channel, in each handle operation, and the handle it is about to
\* be given fits.
OpInv ==
    \A p \in Procs :
        /\ op[p] = "none" => pc[p] \notin WritePCs
        /\ op[p] = "write" => pc[p] \in WritePCs
        /\ op[p] = "idle" => pc[p] \in WritePCs \ {"reading"}
        /\ op[p] = "last" => pc[p] \in WritePCs \ {"locked"}
        /\ op[p] = "notify" => pc[p] \in {"idle", "waking"}
        /\ op[p] = "missed" => pc[p] = "idle"
        /\ op[p] \in {"unwanted", "drop", "release", "produce", "mint", "try_mint", "minted"}
              => pc[p] = "reading"
        /\ op[p] = "produce" => prod[p] < MaxHandles
        /\ op[p] \in {"missed", "mint", "try_mint"} => cons[p] < MaxHandles
        /\ op[p] # "none" => Kind[p] = "write"

\* The producer that found itself the last one finds the channel open and without
\* producers until it has closed it, and nobody else leaves a channel without one open.
LastInv ==
    /\ \A p \in Procs : op[p] = "last" =>
          IF pc[p] = "reading" THEN producers = 0 /\ ~is_closed ELSE is_closed
    /\ producers = 0 => is_closed \/ \E p \in Procs : op[p] = "last"

\* The change of demand is to be announced.
Due == \E p \in Procs : op[p] = "minted" \/ (op[p] = "notify" /\ pc[p] = "idle")

\* A demand that a task parked on the consumer list was not told of is to be announced.
DemandInv ==
    \A t \in Tasks : Kind[t] = "wanted" /\ Asleep(t) /\ waiter[t] \in list["consumer"] =>
        wanted = last[t] \/ Due

\* What the counts say about who holds a handle.
Counted ==
    /\ \A p \in Procs : prod[p] > 0 \/ op[p] = "drop" => producers > 0
    /\ \A p \in Procs : cons[p] > 0 => consumers > 0
    /\ (\A p \in Procs : prod[p] = 0 /\ op[p] # "drop") => producers = 0

\* A channel torn down is closed, nobody has a consumer it was sure to keep, and a process
\* that try_consume gave one still has one.
TornInv ==
    /\ torn => is_closed
    /\ \A p \in Procs : sure[p] => ~torn /\ cons[p] > 0

HInv ==
    /\ HTypeOK /\ OpInv /\ CountInv /\ LastInv
    /\ OpenWhileProduced /\ IdleStaysUnwanted /\ TornInv /\ ParkInv /\ DemandInv

-----------------------------------------------------------------------------
(* What the channel's steps do to the handles' invariants.                 *)

\* A Mut is of an open channel, and closes it only when asked to (channel.rs Mut).
LEMMA PublishCloses ==
    ASSUME TypeOK, VersionInv, NEW p \in Procs, NEW v \in Values, NEW close \in BOOLEAN, Publish(p, v, close)
    PROVE  ~is_closed /\ (is_closed' <=> close)
<1>1. version \in Nat /\ version % 2 # 1
  BY DEF TypeOK, VersionInv, Publish, publish, is_closed, STEP, CLOSED
<1>2. version' = IF close THEN version + 3 ELSE version + 2
  BY <1>1 DEF Publish, publish, STEP, CLOSED
<1>. QED
  BY <1>1, <1>2 DEF is_closed, STEP, CLOSED

\* Channel::close closes an open channel.
LEMMA CloseCloses ==
    ASSUME TypeOK, NEW p \in Procs, Close(p)
    PROVE  ~is_closed /\ is_closed'
<1>1. version \in Nat /\ version % 2 # 1 /\ version' = version + 3
  BY DEF TypeOK, Close, publish, is_closed, STEP, CLOSED
<1>. QED
  BY <1>1 DEF is_closed, STEP, CLOSED

\* A poll keeps out of the value's lock, the version and the counts.
Aside(p) ==
    /\ Kind[p] # "write"
    /\ pc[p] \notin WritePCs /\ pc'[p] \notin WritePCs
    /\ \A q \in Procs \ {p} : pc'[q] = pc[q]
    /\ UNCHANGED <<version, countVars, op, ghostVars>>

\* The polls of a channel by a task, but for the write access, are of that kind.
LEMMA PollAside ==
    ASSUME TypeOK, KindInv, NEW p \in Procs, PollChannel(p) \/ PollWanted(p)
    PROVE  Aside(p)
<1>. USE ChannelAssumption DEF Aside, Goto, WritePCs, Tasks, ValueTasks, ClosedTasks
<1>0. pc \in [Procs -> PCs]
  BY DEF TypeOK
<1>1. CASE PollWanted(p)
  BY <1>0, <1>1 DEF PollWanted, WantedCount, KindInv
<1>2. ASSUME Begin(p) PROVE Kind[p] # "write" /\ pc[p] = "idle" /\ UNCHANGED version
                            /\ pc' = [pc EXCEPT ![p] = FirstStep[Kind[p]]] /\ p \in Tasks
  BY <1>2 DEF Begin
<1>3. CASE PollChannel(p)
  <2>0. Kind[p] # "produce" /\ UNCHANGED handleVars
    BY Zenon, <1>3 DEF PollChannel
  <2>1. CASE Begin(p)
    BY <1>0, <1>2, <2>0, <2>1, FirstSteps DEF handleVars
  <2>2. CASE Repoll(p) \/ RepollTag(p) \/ Park(p) \/ ParkVersion(p)
    BY <1>0, <2>0, <2>2 DEF Repoll, RepollTag, Park, ParkVersion, KindInv, handleVars
  <2>3. CASE Judge(p)
    BY <1>0, <2>0, <2>3 DEF Judge, KindInv, handleVars
  <2>4. CASE Register(p) \/ Sync(p) \/ Check(p)
    BY <1>0, <2>0, <2>4 DEF Register, Sync, Check, KindInv, handleVars
  <2>5. CASE PollClosed(p) \/ PollClosedRegister(p) \/ PollClosedRecheck(p)
    BY <1>0, <2>0, <2>5 DEF PollClosed, PollClosedRegister, PollClosedRecheck, KindInv, handleVars
  <2>6. CASE WantedClosed(p) \/ WantedRegister(p)
    BY <1>0, <2>0, <2>6 DEF WantedClosed, WantedRegister, KindInv, handleVars
  <2>7. CASE Reset(p) \/ Again(p)
    BY <1>0, <2>0, <2>7 DEF Reset, Again, KindInv, handleVars
  <2>. QED
    BY Zenon, <1>3, <2>1, <2>2, <2>3, <2>4, <2>5, <2>6, <2>7 DEF PollChannel, Poll, Start, PollAgain
<1>. QED
  BY <1>1, <1>3

\* Every operation keeps the types and its place in the channel.
LEMMA OpStep ==
    ASSUME HTypeOK, OpInv, Counted, TypeOK, KindInv, [HNext]_allVars
    PROVE  HTypeOK' /\ OpInv'
<1>0. /\ pc \in [Procs -> PCs]
      /\ \A p \in Procs : /\ prod[p] > 0 \/ op[p] = "drop" => producers > 0
                          /\ cons[p] > 0 => consumers > 0
  BY DEF Counted, TypeOK
<1>. USE ChannelAssumption, HandlesAssumption, <1>0 DEF HTypeOK, OpInv, Ops, WritePCs, Do, Free, Goto, wanted,
        handleVars, countVars, ghostVars, closeVars
<1>1. ASSUME NEW p \in Procs, PollChannel(p) \/ PollWanted(p) PROVE HTypeOK' /\ OpInv'
  <2>0. wanted \in BOOLEAN
    OBVIOUS
  <2>1. last' \in [Procs -> BOOLEAN]
    <3>. HIDE DEF wanted
    <3>. QED
      BY <1>1, <2>0 DEF PollChannel, PollWanted
  <2>2. Aside(p)
    BY Zenon, <1>1, PollAside
  <2>. QED
    BY <2>1, <2>2 DEF Aside
<1>2. ASSUME NEW p \in Procs, Drain(p) PROVE HTypeOK' /\ OpInv'
  BY <1>2 DEF Drain, Unlock, WakeTake, WakeSync, WakeOne
<1>3. ASSUME NEW p \in Procs, Drained(p) PROVE HTypeOK' /\ OpInv'
  BY <1>3 DEF Drained, WakeDone, Leave
<1>4. ASSUME NEW p \in Procs, WriteLock(p) PROVE HTypeOK' /\ OpInv'
  BY <1>4 DEF WriteLock, Read
<1>5. ASSUME NEW p \in Procs, WriteOpen(p) PROVE HTypeOK' /\ OpInv'
  BY <1>5 DEF WriteOpen, Write
<1>6. ASSUME NEW p \in Procs, WriteDrop(p) PROVE HTypeOK' /\ OpInv'
  BY <1>6 DEF WriteDrop, DropGuard, Leave
<1>7. ASSUME NEW p \in Procs, UnwantedLock(p) PROVE HTypeOK' /\ OpInv'
  BY <1>7 DEF UnwantedLock, Read
<1>8. ASSUME NEW p \in Procs, UnwantedDecline(p) PROVE HTypeOK' /\ OpInv'
  BY <1>8 DEF UnwantedDecline, DropGuard, Leave
<1>9. ASSUME NEW p \in Procs, UnwantedIdle(p) PROVE HTypeOK' /\ OpInv'
  BY <1>9 DEF UnwantedIdle, Write
<1>10. ASSUME NEW p \in Procs, CloneProducer(p) PROVE HTypeOK' /\ OpInv'
  BY <1>10 DEF CloneProducer, vars
<1>11. ASSUME NEW p \in Procs, DropProducer(p) PROVE HTypeOK' /\ OpInv'
  BY <1>11 DEF DropProducer, Read
<1>12. ASSUME NEW p \in Procs, DropCount(p) PROVE HTypeOK' /\ OpInv'
  BY <1>12 DEF DropCount, vars
<1>13. ASSUME NEW p \in Procs, DropLast(p) PROVE HTypeOK' /\ OpInv'
  BY <1>13 DEF DropLast, Close
<1>14. ASSUME NEW p \in Procs, Produce(p) PROVE HTypeOK' /\ OpInv'
  BY <1>14 DEF Produce, Read
<1>15. ASSUME NEW p \in Procs, ProduceCount(p) PROVE HTypeOK' /\ OpInv'
  BY <1>15 DEF ProduceCount, vars
<1>16. ASSUME NEW p \in Procs, MintMore(p) PROVE HTypeOK' /\ OpInv'
  BY <1>16 DEF MintMore, vars
<1>17. ASSUME NEW p \in Procs, MintCount(p) PROVE HTypeOK' /\ OpInv'
  <2>1. sure' \in [Procs -> BOOLEAN]
    <3>1. (sure[p] \/ op[p] = "try_mint") \in BOOLEAN
      BY Zenon
    <3>2. UNCHANGED sure \/ sure' = [sure EXCEPT ![p] = sure[p] \/ op[p] = "try_mint"]
      BY Zenon, <1>17 DEF MintCount
    <3>. QED
      BY ZenonT(60), <3>1, <3>2
  <2>. QED
    BY <1>17, <2>1 DEF MintCount, vars
<1>18. ASSUME NEW p \in Procs, MintUnlock(p) PROVE HTypeOK' /\ OpInv'
  BY <1>18 DEF MintUnlock, DropGuard, Leave
<1>19. ASSUME NEW p \in Procs, CloneConsumer(p) PROVE HTypeOK' /\ OpInv'
  BY <1>19 DEF CloneConsumer, vars
<1>20. ASSUME NEW p \in Procs, DropConsumer(p) PROVE HTypeOK' /\ OpInv'
  <2>1. sure' \in [Procs -> BOOLEAN]
    <3>1. (sure[p] /\ cons[p] > 1) \in BOOLEAN
      BY Zenon
    <3>2. sure' = [sure EXCEPT ![p] = sure[p] /\ cons[p] > 1]
      BY Zenon, <1>20 DEF DropConsumer
    <3>. QED
      BY <3>1, <3>2
  <2>. QED
    BY <1>20, <2>1 DEF DropConsumer, vars
<1>21. ASSUME NEW p \in Procs, Notify(p) PROVE HTypeOK' /\ OpInv'
  BY <1>21 DEF Notify, WakeConsumer
<1>22. ASSUME NEW p \in Procs, NEW v \in Values, NEW close \in BOOLEAN, WritePublish(p, v, close)
       PROVE  HTypeOK' /\ OpInv'
  <2>0. wanted \in BOOLEAN
    OBVIOUS
  <2>3. (aborted \/ close) \in BOOLEAN /\ (torn \/ (close /\ op[p] = "idle")) \in BOOLEAN
    BY Zenon
  <2>1. aborted' \in BOOLEAN /\ atClose' \in BOOLEAN /\ torn' \in BOOLEAN
    <3>. HIDE DEF wanted
    <3>. QED
      BY SMTT(60), <1>22, <2>0, <2>3 DEF WritePublish
  <2>. QED
    BY <1>22, <2>1 DEF WritePublish, Publish
<1>23. ASSUME NEW p \in Procs, NEW only_open \in BOOLEAN, MintLock(p, only_open) PROVE HTypeOK' /\ OpInv'
  BY <1>23 DEF MintLock, Read
<1>25. ASSUME NEW p \in Procs, MintMiss(p) PROVE HTypeOK' /\ OpInv'
  BY <1>25 DEF MintMiss, vars
<1>24. CASE UNCHANGED allVars
  BY <1>24 DEF allVars, vars
<1>. HIDE ChannelAssumption, HandlesAssumption, <1>0 DEF HTypeOK, OpInv, Ops, WritePCs, Do, Free, Goto, wanted,
        handleVars, countVars, ghostVars, closeVars
<1>. QED
  BY Zenon, <1>1, <1>2, <1>3, <1>4, <1>5, <1>6, <1>7, <1>8, <1>9, <1>10, <1>11, <1>12, <1>13,
     <1>14, <1>15, <1>16, <1>17, <1>18, <1>19, <1>20, <1>21, <1>22, <1>23, <1>24, <1>25 DEF HNext, Producing, Consuming

-----------------------------------------------------------------------------
(* Steps that leave a part of the invariant alone.                         *)

\* The step is p's, and nobody else's operation moves.
Own(p) == \A q \in Procs \ {p} : op'[q] = op[q] /\ pc'[q] = pc[q]

\* Nothing moves that says who closes the channel.
LastQuiet(p) ==
    /\ Own(p) /\ UNCHANGED <<version, producers, prod, aborted>>
    /\ op'[p] = "last" => op[p] = "last" /\ (pc'[p] = "reading" <=> pc[p] = "reading")
    /\ op[p] = "last" => op'[p] = "last" \/ pc[p] # "reading"

\* No guard of write_unwanted is taken, and no demand arises.
IdleQuiet(p) ==
    /\ Own(p) /\ (consumers' > 0 => consumers > 0)
    /\ op'[p] = "idle" /\ pc'[p] \in {"locked", "published"} => op[p] = "idle" /\ pc[p] \in {"locked", "published"}

\* The demand and what is to be announced of it stay.
DemandQuiet(p) ==
    /\ Own(p) /\ UNCHANGED last /\ (consumers' > 0 <=> consumers > 0)
    /\ op[p] = "minted" \/ (op[p] = "notify" /\ pc[p] = "idle")
          => op'[p] = "minted" \/ (op'[p] = "notify" /\ pc'[p] = "idle")
    /\ pc[p] = "wanted2count" => pc'[p] # "idle"

Quiet(p) == LastQuiet(p) /\ IdleQuiet(p) /\ DemandQuiet(p)

\* A step between the start and the effect of an operation, or after it, is quiet.
LEMMA QuietStep ==
    ASSUME HTypeOK, TypeOK, KindInv, OpInv, NEW p \in Procs,
           \/ PollChannel(p) \/ Drain(p) \/ Drained(p) \/ WriteLock(p) \/ WriteOpen(p) \/ WriteDrop(p)
           \/ UnwantedLock(p) \/ UnwantedDecline(p) \/ Produce(p) \/ MintMiss(p) \/ MintUnlock(p)
           \/ \E only_open \in BOOLEAN : MintLock(p, only_open)
    PROVE  Quiet(p)
<1>0. pc \in [Procs -> PCs] /\ op \in [Procs -> Ops]
  BY Zenon DEF TypeOK, HTypeOK
<1>1. ASSUME UNCHANGED <<version, countVars, last, ghostVars>>, Own(p),
             op[p] \in {"last", "idle"} \/ op'[p] \in {"last", "idle"} \/ pc[p] = "wanted2count"
                => op'[p] = op[p] /\ pc'[p] = pc[p],
             op[p] \in {"minted", "notify"} => op'[p] = op[p] /\ pc'[p] = pc[p]
      PROVE  Quiet(p)
  <2>1. UNCHANGED <<version, producers, consumers, prod, aborted, last>>
    BY Zenon, <1>1 DEF countVars, ghostVars, closeVars
  <2>. QED
    BY <1>1, <2>1 DEF Quiet, LastQuiet, IdleQuiet, DemandQuiet
<1>2. ASSUME NEW c, pc' = [pc EXCEPT ![p] = c] PROVE pc'[p] = c /\ \A q \in Procs \ {p} : pc'[q] = pc[q]
  BY <1>0, <1>2
<1>3. ASSUME NEW o, op' = [op EXCEPT ![p] = o] PROVE op'[p] = o /\ \A q \in Procs \ {p} : op'[q] = op[q]
  BY <1>0, <1>3
<1>4. CASE PollChannel(p)
  <2>1. Aside(p) /\ UNCHANGED handleVars
    BY Zenon, <1>4, PollAside DEF PollChannel
  <2>2. pc[p] # "wanted2count" \/ UNCHANGED pc
    BY Zenon, <1>4, Zenon DEF PollChannel, Poll, Start, PollAgain, Begin, Repoll, RepollTag, Judge, Park, ParkVersion,
       Register, Sync, Check, PollClosed, PollClosedRegister, PollClosedRecheck, Reset, Again, WantedClosed, WantedRegister
  <2>3. op[p] = "none" /\ op' = op
    BY Zenon, <2>1 DEF Aside, OpInv
  <2>4. UNCHANGED <<version, countVars, last, ghostVars>> /\ Own(p)
    BY Zenon, <2>1 DEF Aside, Own, handleVars
  <2>. QED
    BY <1>1, <2>2, <2>3, <2>4
<1>5. CASE Drain(p)
  <2>1. /\ pc[p] \in {"published", "unlocked", "wakesync", "waking"} /\ UNCHANGED <<version, op>>
        /\ pc' = pc \/ \E c \in {"unlocked", "wakesync", "waking"} : pc' = [pc EXCEPT ![p] = c]
    BY Zenon, <1>5 DEF Drain, Unlock, WakeTake, WakeSync, WakeOne, Goto, handleVars
  <2>2. UNCHANGED <<version, producers, consumers, prod, aborted, last>> /\ Own(p)
    BY Zenon, <1>2, <1>5, <2>1 DEF Drain, handleVars, countVars, ghostVars, closeVars, Own
  <2>3. pc'[p] \in {"unlocked", "wakesync", "waking"} \/ pc' = pc
    BY Zenon, <1>2, <2>1
  <2>. QED
    BY <2>1, <2>2, <2>3 DEF Quiet, LastQuiet, IdleQuiet, DemandQuiet
<1>6. CASE Drained(p)
  <2>1. /\ pc[p] = "waking" /\ UNCHANGED <<version, countVars, last, ghostVars>>
        /\ \E c : pc' = [pc EXCEPT ![p] = c]
        /\ op' = [op EXCEPT ![p] = "none"]
    BY Zenon, <1>6 DEF Drained, WakeDone, Leave, Goto, Do
  <2>2. op[p] # "minted"
    BY <2>1 DEF OpInv
  <2>3. UNCHANGED <<version, producers, consumers, prod, aborted, last>> /\ Own(p) /\ op'[p] = "none"
    BY Zenon, <1>2, <1>3, <2>1 DEF countVars, ghostVars, closeVars, Own
  <2>. QED
    BY <2>1, <2>2, <2>3 DEF Quiet, LastQuiet, IdleQuiet, DemandQuiet
<1>7. CASE WriteLock(p) \/ UnwantedLock(p) \/ Produce(p) \/ \E only_open \in BOOLEAN : MintLock(p, only_open)
  <2>1. /\ op[p] \in {"none", "missed"} /\ pc[p] = "idle" /\ UNCHANGED <<version, countVars, last, ghostVars>>
        /\ pc' = [pc EXCEPT ![p] = "reading"]
        /\ \E what \in {"write", "unwanted", "produce", "mint", "try_mint"} : op' = [op EXCEPT ![p] = what]
    BY Zenon, <1>7 DEF WriteLock, UnwantedLock, Produce, MintLock, Free, Read, Goto, Do
  <2>2. Own(p) /\ op'[p] \in {"write", "unwanted", "produce", "mint", "try_mint"}
    BY Zenon, <1>2, <1>3, <2>1 DEF Own
  <2>. QED
    BY <1>1, <2>1, <2>2
<1>8. CASE WriteOpen(p)
  <2>1. /\ op[p] = "write" /\ pc[p] = "reading" /\ op' = op /\ UNCHANGED <<version, countVars, last, ghostVars>>
        /\ pc' = [pc EXCEPT ![p] = "locked"]
    BY Zenon, <1>8 DEF WriteOpen, Write, Goto, handleVars
  <2>2. Own(p)
    BY Zenon, <1>2, <2>1 DEF Own
  <2>. QED
    BY <1>1, <2>1, <2>2
<1>9. CASE WriteDrop(p) \/ UnwantedDecline(p)
  <2>1. /\ op[p] \in {"write", "idle", "release", "unwanted"} /\ pc[p] \in {"reading", "locked"}
        /\ UNCHANGED <<version, countVars, last, ghostVars>>
        /\ \E c : pc' = [pc EXCEPT ![p] = c]
        /\ op' = [op EXCEPT ![p] = "none"]
    BY Zenon, <1>9 DEF WriteDrop, UnwantedDecline, DropGuard, Leave, Goto, Do
  <2>2. UNCHANGED <<version, producers, consumers, prod, aborted, last>> /\ Own(p) /\ op'[p] = "none"
    BY Zenon, <1>2, <1>3, <2>1 DEF countVars, ghostVars, closeVars, Own
  <2>. QED
    BY <2>1, <2>2 DEF Quiet, LastQuiet, IdleQuiet, DemandQuiet
<1>10. CASE MintUnlock(p)
  <2>1. op[p] = "minted" /\ Kind[p] = "write"
    BY <1>10 DEF MintUnlock, OpInv
  <2>2. /\ pc[p] \in {"reading", "locked"} /\ UNCHANGED <<version, countVars, last, ghostVars>>
        /\ pc' = [pc EXCEPT ![p] = "idle"]
        /\ op' = [op EXCEPT ![p] = "notify"]
    BY Zenon, <1>10, <2>1 DEF MintUnlock, DropGuard, Leave, Goto, Do
  <2>3. UNCHANGED <<version, producers, consumers, prod, aborted, last>> /\ Own(p)
        /\ op'[p] = "notify" /\ pc'[p] = "idle"
    BY Zenon, <1>2, <1>3, <2>2 DEF countVars, ghostVars, closeVars, Own
  <2>. QED
    BY <2>1, <2>2, <2>3 DEF Quiet, LastQuiet, IdleQuiet, DemandQuiet
<1>11. CASE MintMiss(p)
  <2>1. /\ op[p] = "none" /\ pc[p] = "idle" /\ UNCHANGED <<version, pc, countVars, last, ghostVars>>
        /\ op' = [op EXCEPT ![p] = "missed"]
    BY Zenon, <1>11 DEF MintMiss, Free, Do, vars
  <2>2. Own(p) /\ op'[p] = "missed"
    BY Zenon, <1>3, <2>1 DEF Own
  <2>. QED
    BY <1>1, <2>1, <2>2
<1>. QED
  BY Zenon, <1>4, <1>5, <1>6, <1>7, <1>8, <1>9, <1>10, <1>11

\* The producers' steps leave the demand alone, and only write_unwanted takes its guard.
LEMMA ProducerQuiet ==
    ASSUME HTypeOK, TypeOK, NEW p \in Procs
    PROVE  /\ UnwantedIdle(p) => LastQuiet(p) /\ DemandQuiet(p)
           /\ \/ CloneProducer(p) \/ DropProducer(p) \/ DropCount(p) \/ DropLast(p) \/ ProduceCount(p)
              \/ \E v \in Values, close \in BOOLEAN : WritePublish(p, v, close)
              => IdleQuiet(p) /\ DemandQuiet(p)
<1>0. pc \in [Procs -> PCs] /\ op \in [Procs -> Ops]
  BY Zenon DEF TypeOK, HTypeOK
<1>1. ASSUME NEW c, pc' = [pc EXCEPT ![p] = c] PROVE pc'[p] = c /\ \A q \in Procs \ {p} : pc'[q] = pc[q]
  BY <1>0, <1>1
<1>2. ASSUME NEW o, op' = [op EXCEPT ![p] = o] PROVE op'[p] = o /\ \A q \in Procs \ {p} : op'[q] = op[q]
  BY <1>0, <1>2
<1>3. ASSUME UnwantedIdle(p) PROVE LastQuiet(p) /\ DemandQuiet(p)
  <2>1. /\ op[p] = "unwanted" /\ op' = [op EXCEPT ![p] = "idle"]
        /\ pc[p] = "reading" /\ pc' = [pc EXCEPT ![p] = "locked"]
        /\ UNCHANGED <<version, producers, consumers, prod, aborted, last>>
    BY Zenon, <1>3 DEF UnwantedIdle, Write, Goto, Do, countVars, ghostVars, closeVars
  <2>2. Own(p) /\ op'[p] = "idle" /\ pc'[p] = "locked"
    BY Zenon, <1>1, <1>2, <2>1 DEF Own
  <2>. QED
    BY <2>1, <2>2 DEF LastQuiet, DemandQuiet
<1>4. ASSUME CloneProducer(p) PROVE IdleQuiet(p) /\ DemandQuiet(p)
  <2>1. UNCHANGED <<pc, op, consumers, last>> /\ pc[p] = "idle"
    BY Zenon, <1>4 DEF CloneProducer, vars, Free
  <2>. QED
    BY <2>1 DEF IdleQuiet, DemandQuiet, Own
<1>5. ASSUME DropCount(p) \/ ProduceCount(p) PROVE IdleQuiet(p) /\ DemandQuiet(p)
  <2>1. /\ UNCHANGED <<pc, consumers, last>> /\ op[p] \in {"drop", "produce"}
        /\ \E what \in {"release", "last"} : op' = [op EXCEPT ![p] = what]
    BY Zenon, <1>5 DEF DropCount, ProduceCount, vars, Do
  <2>2. Own(p) /\ op'[p] \in {"release", "last"}
    BY Zenon, <1>2, <2>1 DEF Own
  <2>3. pc[p] = "wanted2count" => pc'[p] # "idle"
    BY <2>1
  <2>. QED
    BY <2>1, <2>2, <2>3 DEF IdleQuiet, DemandQuiet
<1>6. ASSUME DropProducer(p) PROVE IdleQuiet(p) /\ DemandQuiet(p)
  <2>1. /\ op[p] = "none" /\ op' = [op EXCEPT ![p] = "drop"]
        /\ pc' = [pc EXCEPT ![p] = "reading"] /\ UNCHANGED <<consumers, last>>
    BY Zenon, <1>6 DEF DropProducer, Free, Read, Goto, Do
  <2>2. Own(p) /\ op'[p] = "drop" /\ pc'[p] = "reading"
    BY Zenon, <1>1, <1>2, <2>1 DEF Own
  <2>. QED
    BY <2>1, <2>2 DEF IdleQuiet, DemandQuiet
<1>7. ASSUME DropLast(p) \/ \E v \in Values, close \in BOOLEAN : WritePublish(p, v, close)
      PROVE  IdleQuiet(p) /\ DemandQuiet(p)
  <2>1. /\ op[p] = "last" \/ (op[p] \in {"write", "idle"} /\ pc[p] = "locked")
        /\ pc' = [pc EXCEPT ![p] = "published"] /\ UNCHANGED <<op, consumers, last>>
    BY Zenon, <1>7 DEF DropLast, Close, WritePublish, Publish, Goto, countVars
  <2>2. Own(p) /\ pc'[p] = "published"
    BY Zenon, <1>1, <2>1 DEF Own
  <2>. QED
    BY <2>1, <2>2 DEF IdleQuiet, DemandQuiet
<1>. QED
  BY Zenon, <1>3, <1>4, <1>5, <1>6, <1>7

\* The consumers' steps leave the closing of the channel alone, and only the one that mints
\* under the lock raises the demand.
LEMMA ConsumerQuiet ==
    ASSUME HTypeOK, TypeOK, KindInv, OpInv, Counted, NEW p \in Procs
    PROVE  /\ MintCount(p) => LastQuiet(p)
           /\ PollWanted(p) \/ DropConsumer(p) \/ Notify(p) => LastQuiet(p) /\ IdleQuiet(p)
           /\ MintMore(p) \/ CloneConsumer(p) => Quiet(p)
<1>0. pc \in [Procs -> PCs] /\ op \in [Procs -> Ops] /\ consumers \in Nat
  BY Zenon DEF TypeOK, HTypeOK
<1>1. ASSUME NEW c, pc' = [pc EXCEPT ![p] = c] PROVE pc'[p] = c /\ \A q \in Procs \ {p} : pc'[q] = pc[q]
  BY <1>0, <1>1
<1>2. ASSUME NEW o, op' = [op EXCEPT ![p] = o] PROVE op'[p] = o /\ \A q \in Procs \ {p} : op'[q] = op[q]
  BY <1>0, <1>2
<1>3. ASSUME MintCount(p) PROVE LastQuiet(p)
  <2>1. /\ op[p] \in {"mint", "try_mint"} /\ UNCHANGED <<version, producers, prod, aborted, pc>>
        /\ \E what \in {"release", "minted"} : op' = [op EXCEPT ![p] = what]
    BY Zenon, <1>3 DEF MintCount, vars, ghostVars, closeVars, Do
  <2>2. Own(p) /\ op'[p] \in {"release", "minted"}
    BY Zenon, <1>2, <2>1 DEF Own
  <2>. QED
    BY <2>1, <2>2 DEF LastQuiet
<1>4. ASSUME PollWanted(p) PROVE LastQuiet(p) /\ IdleQuiet(p)
  <2>1. Aside(p)
    BY Zenon, <1>4, PollAside
  <2>2. op[p] = "none" /\ op' = op
    BY Zenon, <2>1 DEF Aside, OpInv
  <2>3. Own(p) /\ UNCHANGED <<version, producers, consumers, prod, aborted>>
    BY Zenon, <2>1 DEF Aside, Own, countVars, ghostVars, closeVars
  <2>. QED
    BY <2>2, <2>3 DEF LastQuiet, IdleQuiet
<1>5. ASSUME DropConsumer(p) PROVE LastQuiet(p) /\ IdleQuiet(p)
  <2>1. /\ op[p] = "none" /\ UNCHANGED <<version, producers, prod, aborted, pc>> /\ consumers' = consumers - 1
        /\ \E what \in {"none", "notify"} : op' = [op EXCEPT ![p] = what]
    BY Zenon, <1>5 DEF DropConsumer, Free, vars, ghostVars, closeVars, Do
  <2>2. Own(p) /\ op'[p] \in {"none", "notify"}
    BY Zenon, <1>2, <2>1 DEF Own
  <2>. QED
    BY <1>0, <2>1, <2>2 DEF LastQuiet, IdleQuiet
<1>6. ASSUME Notify(p) PROVE LastQuiet(p) /\ IdleQuiet(p)
  <2>1. /\ op[p] = "notify" /\ UNCHANGED <<version, producers, consumers, prod, aborted, op>>
        /\ pc' = [pc EXCEPT ![p] = "waking"]
    BY Zenon, <1>6 DEF Notify, WakeConsumer, Goto, handleVars, countVars, ghostVars, closeVars
  <2>2. Own(p)
    BY Zenon, <1>1, <2>1 DEF Own
  <2>. QED
    BY <2>1, <2>2 DEF LastQuiet, IdleQuiet
<1>7. ASSUME MintMore(p) \/ CloneConsumer(p) PROVE Quiet(p)
  <2>1. UNCHANGED <<version, producers, prod, aborted, pc, op, last>> /\ consumers' = consumers + 1
    BY Zenon, <1>7 DEF MintMore, CloneConsumer, vars, ghostVars, closeVars
  <2>2. consumers > 0 /\ pc[p] = "idle"
    BY <1>7 DEF MintMore, CloneConsumer, wanted, Counted, Free
  <2>. QED
    BY <1>0, <2>1, <2>2 DEF Quiet, LastQuiet, IdleQuiet, DemandQuiet, Own
<1>. QED
  BY Zenon, <1>3, <1>4, <1>5, <1>6, <1>7

\* The last producer closes, and no producer outlives that.
LEMMA LastStep ==
    ASSUME HTypeOK, OpInv, Counted, LastInv, OpenWhileProduced, TypeOK, LockInv, VersionInv, KindInv, [HNext]_allVars
    PROVE  LastInv' /\ OpenWhileProduced'
<1>0. /\ pc \in [Procs -> PCs] /\ op \in [Procs -> Ops] /\ producers \in Nat
      /\ prod \in [Procs -> 0 .. MaxHandles]
      /\ \A p \in Procs : prod[p] \in Nat
  BY HandlesAssumption DEF TypeOK, HTypeOK
<1>c. \A p \in Procs : prod[p] > 0 \/ op[p] = "drop" => producers > 0
  BY Zenon DEF Counted
<1>v. UNCHANGED version => (is_closed' <=> is_closed)
  BY DEF is_closed
<1>1. ASSUME NEW p \in Procs, LastQuiet(p) PROVE LastInv' /\ OpenWhileProduced'
  <2>1. OpenWhileProduced'
    BY <1>1, <1>v DEF LastQuiet, OpenWhileProduced
  <2>2. ASSUME op[p] = "last", op'[p] # "last" PROVE is_closed
    BY Zenon, <1>1, <2>2 DEF LastQuiet, LastInv
  <2>3. LastInv'
    BY <1>1, <1>v, <2>2 DEF LastQuiet, LastInv, Own
  <2>. QED
    BY <2>1, <2>3
<1>2. ASSUME NEW p \in Procs, CloneProducer(p) PROVE LastInv' /\ OpenWhileProduced'
  <2>1. /\ prod[p] > 0 /\ producers' = producers + 1 /\ UNCHANGED <<version, pc, op, aborted>>
    BY <1>2, HandlesAssumption DEF CloneProducer, vars, ghostVars, closeVars
  <2>2. ~(is_closed /\ ~aborted) /\ producers > 0
    BY <1>c, <2>1 DEF OpenWhileProduced
  <2>. QED
    BY <1>0, <1>v, <2>1, <2>2 DEF LastInv, OpenWhileProduced
<1>3. ASSUME NEW p \in Procs, DropProducer(p) PROVE LastInv' /\ OpenWhileProduced'
  <2>1. /\ op[p] = "none" /\ op' = [op EXCEPT ![p] = "drop"] /\ pc' = [pc EXCEPT ![p] = "reading"]
        /\ prod[p] > 0 /\ UNCHANGED <<version, producers, aborted>>
    BY Zenon, <1>3 DEF DropProducer, Free, Read, Do, Goto, ghostVars, closeVars
  <2>2. ~(is_closed /\ ~aborted) /\ producers > 0
    BY <1>c, <2>1 DEF OpenWhileProduced
  <2>. QED
    BY <1>0, <1>v, <2>1, <2>2 DEF LastInv, OpenWhileProduced
<1>4. ASSUME NEW p \in Procs, DropCount(p) PROVE LastInv' /\ OpenWhileProduced'
  <2>1. /\ op[p] = "drop" /\ op' = [op EXCEPT ![p] = IF producers > 1 \/ is_closed THEN "release" ELSE "last"]
        /\ producers' = producers - 1 /\ UNCHANGED <<version, pc, prod, aborted>>
    BY Zenon, <1>4 DEF DropCount, Do, vars, ghostVars, closeVars
  <2>2. pc[p] = "reading" /\ \A q \in Procs \ {p} : op[q] = "last" => pc[q] # "reading"
    BY <2>1 DEF OpInv, LockInv
  <2>3. OpenWhileProduced'
    BY <1>v, <2>1 DEF OpenWhileProduced
  <2>4. producers > 0
    BY <1>c, <2>1
  <2>5. \A q \in Procs \ {p} : op'[q] = op[q]
    BY <1>0, <2>1
  <2>6. ASSUME producers > 1 \/ is_closed PROVE LastInv'
    <3>1. op'[p] = "release"
      BY <1>0, <2>1, <2>6
    <3>. QED
      BY <1>0, <1>v, <2>1, <2>2, <2>4, <2>5, <2>6, <3>1 DEF LastInv
  <2>7. ASSUME ~(producers > 1 \/ is_closed) PROVE LastInv'
    <3>1. op'[p] = "last" /\ producers' = 0
      BY <1>0, <2>1, <2>4, <2>7
    <3>. QED
      BY <1>0, <1>v, <2>1, <2>2, <2>5, <2>7, <3>1 DEF LastInv
  <2>. QED
    BY Zenon, <2>3, <2>6, <2>7
<1>5. ASSUME NEW p \in Procs, DropLast(p) PROVE LastInv' /\ OpenWhileProduced'
  <2>1. ~is_closed /\ is_closed'
    BY Zenon, <1>5, CloseCloses DEF DropLast
  <2>2. op[p] = "last" /\ pc[p] = "reading" /\ UNCHANGED <<producers, prod, op, aborted>>
        /\ pc' = [pc EXCEPT ![p] = "published"]
    BY Zenon, <1>5 DEF DropLast, Close, Goto, countVars
  <2>3. producers = 0 /\ \A q \in Procs : prod[q] = 0
    BY <1>0, <1>c, <2>2 DEF LastInv
  <2>4. \A q \in Procs \ {p} : op[q] # "last"
    <3>1. \A q \in Procs \ {p} : pc[q] # "reading"
      BY <2>2 DEF LockInv
    <3>. QED
      BY Zenon, <2>1, <3>1 DEF LastInv
  <2>. QED
    BY <1>0, <2>1, <2>2, <2>3, <2>4 DEF LastInv, OpenWhileProduced
<1>6. ASSUME NEW p \in Procs, ProduceCount(p) PROVE LastInv' /\ OpenWhileProduced'
  <2>1. /\ op[p] = "produce" /\ op' = [op EXCEPT ![p] = "release"] /\ UNCHANGED <<version, pc, aborted>>
    BY Zenon, <1>6 DEF ProduceCount, Do, vars, ghostVars, closeVars
  <2>2. CASE is_closed
    <3>1. UNCHANGED <<producers, prod>>
      BY Zenon, <1>6, <2>2 DEF ProduceCount
    <3>2. Own(p) /\ op'[p] = "release"
      BY <1>0, <2>1 DEF Own
    <3>. QED
      BY <1>1, <2>1, <3>1, <3>2 DEF LastQuiet
  <2>3. CASE ~is_closed
    <3>1. producers' = producers + 1
      BY Zenon, <1>6, <2>3 DEF ProduceCount
    <3>2. \A q \in Procs : op[q] # "last"
      <4>1. pc[p] = "reading"
        BY <2>1 DEF OpInv
      <4>2. \A q \in Procs \ {p} : pc[q] # "reading"
        BY <4>1 DEF LockInv
      <4>. QED
        BY <2>1, <2>3, <4>2 DEF LastInv
    <3>. QED
      BY <1>0, <1>v, <2>1, <2>3, <3>1, <3>2 DEF LastInv, OpenWhileProduced
  <2>. QED
    BY <2>2, <2>3
<1>7. ASSUME NEW p \in Procs, NEW v \in Values, NEW close \in BOOLEAN, WritePublish(p, v, close)
      PROVE  LastInv' /\ OpenWhileProduced'
  <2>1. ~is_closed /\ (is_closed' <=> close)
    BY Zenon, <1>7, PublishCloses DEF WritePublish
  <2>2. /\ op[p] \in {"write", "idle"} /\ pc[p] = "locked" /\ pc' = [pc EXCEPT ![p] = "published"]
        /\ (aborted' <=> aborted \/ close) /\ UNCHANGED <<producers, prod, op>>
    BY Zenon, <1>7 DEF WritePublish, Publish, Goto, countVars
  <2>3. OpenWhileProduced'
    BY Zenon, <2>1, <2>2 DEF OpenWhileProduced
  <2>4. \A q \in Procs : op[q] # "last"
    <3>1. \A q \in Procs \ {p} : pc[q] # "reading"
      BY <2>2 DEF LockInv
    <3>. QED
      BY <2>1, <2>2, <3>1 DEF LastInv
  <2>5. LastInv'
    BY <2>1, <2>2, <2>4 DEF LastInv
  <2>. QED
    BY <2>3, <2>5
<1>8. CASE UNCHANGED allVars
  <2>1. UNCHANGED <<version, producers, prod, op, pc, aborted>>
    BY Zenon, <1>8 DEF allVars, vars, handleVars, countVars, ghostVars, closeVars
  <2>. QED
    BY <1>v, <2>1 DEF LastInv, OpenWhileProduced
<1>9. ASSUME HNext PROVE LastInv' /\ OpenWhileProduced'
  <2>1. PICK p \in Procs : PollWanted(p) \/ PollChannel(p) \/ Drain(p) \/ Drained(p) \/ Producing(p) \/ Consuming(p)
    BY Zenon, <1>9 DEF HNext
  <2>2. \/ LastQuiet(p) \/ CloneProducer(p) \/ DropProducer(p) \/ DropCount(p) \/ DropLast(p) \/ ProduceCount(p)
        \/ \E v \in Values, close \in BOOLEAN : WritePublish(p, v, close)
    BY Zenon, <2>1, QuietStep, ProducerQuiet, ConsumerQuiet DEF Producing, Consuming, Quiet
  <2>. QED
    BY Zenon, <1>1, <1>2, <1>3, <1>4, <1>5, <1>6, <1>7, <2>2
<1>. QED
  BY Zenon, <1>8, <1>9

\* The guard of write_unwanted has the lock that a first consumer needs.
LEMMA IdleStep ==
    ASSUME HTypeOK, OpInv, Counted, IdleStaysUnwanted, TypeOK, LockInv, KindInv, [HNext]_allVars
    PROVE  IdleStaysUnwanted'
<1>0. pc \in [Procs -> PCs] /\ op \in [Procs -> Ops]
  BY Zenon DEF TypeOK, HTypeOK
<1>1. ASSUME NEW p \in Procs, IdleQuiet(p) PROVE IdleStaysUnwanted'
  BY <1>1 DEF IdleQuiet, IdleStaysUnwanted, Own, wanted
<1>2. ASSUME NEW p \in Procs, UnwantedIdle(p) PROVE IdleStaysUnwanted'
  <2>1. ~wanted /\ UNCHANGED consumers
    BY Zenon, <1>2 DEF UnwantedIdle, countVars
  <2>. QED
    BY <2>1 DEF IdleStaysUnwanted, wanted
<1>3. ASSUME NEW p \in Procs, MintCount(p) PROVE IdleStaysUnwanted'
  <2>1. /\ op[p] \in {"mint", "try_mint"} /\ UNCHANGED pc
        /\ \E what \in {"release", "minted"} : op' = [op EXCEPT ![p] = what]
    BY Zenon, <1>3 DEF MintCount, vars, Do
  <2>2. pc[p] = "reading"
    BY <2>1 DEF OpInv
  <2>3. \A q \in Procs \ {p} : pc[q] \notin {"locked", "published"}
    BY <2>2 DEF LockInv
  <2>. QED
    BY <1>0, <2>1, <2>2, <2>3 DEF IdleStaysUnwanted
<1>4. CASE UNCHANGED allVars
  <2>1. UNCHANGED <<consumers, op, pc>>
    BY Zenon, <1>4 DEF allVars, vars, handleVars, countVars
  <2>. QED
    BY <2>1 DEF IdleStaysUnwanted, wanted
<1>5. ASSUME HNext PROVE IdleStaysUnwanted'
  <2>1. PICK p \in Procs : PollWanted(p) \/ PollChannel(p) \/ Drain(p) \/ Drained(p) \/ Producing(p) \/ Consuming(p)
    BY Zenon, <1>5 DEF HNext
  <2>2. IdleQuiet(p) \/ UnwantedIdle(p) \/ MintCount(p)
    BY Zenon, <2>1, QuietStep, ProducerQuiet, ConsumerQuiet DEF Producing, Consuming, Quiet
  <2>. QED
    BY Zenon, <1>1, <1>2, <1>3, <2>2
<1>. QED
  BY Zenon, <1>4, <1>5

\* A teardown finds nobody with a consumer, and a closed channel makes nobody sure of one.
LEMMA TornStep ==
    ASSUME HTypeOK, OpInv, Counted, IdleStaysUnwanted, TornInv, TypeOK, VersionInv, KindInv, [HNext]_allVars
    PROVE  TornInv'
<1>0. /\ cons \in [Procs -> 0 .. MaxHandles] /\ sure \in [Procs -> BOOLEAN]
      /\ \A p \in Procs : cons[p] \in Nat /\ (cons[p] > 0 => consumers > 0)
  BY HandlesAssumption DEF HTypeOK, Counted
<1>v. UNCHANGED version => (is_closed' <=> is_closed)
  BY DEF is_closed
<1>1. ASSUME UNCHANGED <<version, torn, sure, cons>> PROVE TornInv'
  BY <1>1, <1>v DEF TornInv
<1>2. ASSUME NEW p \in Procs, MintMore(p) \/ CloneConsumer(p) PROVE TornInv'
  <2>1. UNCHANGED <<version, torn, sure>> /\ cons' = [cons EXCEPT ![p] = @ + 1]
    BY Zenon, <1>2 DEF MintMore, CloneConsumer, vars, ghostVars, closeVars
  <2>2. \A q \in Procs : cons[q] > 0 => cons'[q] > 0
    BY <1>0, <2>1
  <2>. QED
    BY Zenon, <1>v, <2>1, <2>2 DEF TornInv
<1>3. ASSUME NEW p \in Procs, MintCount(p) PROVE TornInv'
  <2>1. UNCHANGED <<version, torn>>
    BY Zenon, <1>3 DEF MintCount, vars, closeVars
  <2>2. CASE UNCHANGED <<cons, sure>>
    BY Zenon, <1>1, <2>1, <2>2
  <2>3. CASE ~UNCHANGED <<cons, sure>>
    <3>1. /\ op[p] = "try_mint" => ~is_closed
          /\ cons' = [cons EXCEPT ![p] = @ + 1]
          /\ sure' = [sure EXCEPT ![p] = @ \/ op[p] = "try_mint"]
      BY Zenon, <1>3, <2>3 DEF MintCount
    <3>2. \A q \in Procs : cons[q] > 0 \/ q = p => cons'[q] > 0
      BY <1>0, <3>1
    <3>3. \A q \in Procs : sure'[q] <=> sure[q] \/ (q = p /\ op[p] = "try_mint")
      BY Zenon, <1>0, <3>1
    <3>. QED
      BY Zenon, <1>v, <2>1, <3>1, <3>2, <3>3 DEF TornInv
  <2>. QED
    BY Zenon, <2>2, <2>3
<1>4. ASSUME NEW p \in Procs, DropConsumer(p) PROVE TornInv'
  <2>1. /\ UNCHANGED <<version, torn>> /\ cons' = [cons EXCEPT ![p] = @ - 1]
        /\ sure' = [sure EXCEPT ![p] = @ /\ cons[p] > 1]
    BY Zenon, <1>4 DEF DropConsumer, vars, closeVars
  <2>2. \A q \in Procs : cons[q] > 0 /\ (q = p => cons[p] > 1) => cons'[q] > 0
    BY <1>0, <2>1
  <2>3. \A q \in Procs : sure'[q] => sure[q] /\ (q = p => cons[p] > 1)
    BY Zenon, <1>0, <2>1
  <2>. QED
    BY Zenon, <1>v, <2>1, <2>2, <2>3 DEF TornInv
<1>5. ASSUME NEW p \in Procs, DropLast(p) PROVE TornInv'
  <2>1. is_closed'
    BY Zenon, <1>5, CloseCloses DEF DropLast
  <2>2. UNCHANGED <<torn, sure, cons>>
    BY Zenon, <1>5 DEF DropLast, countVars
  <2>. QED
    BY Zenon, <2>1, <2>2 DEF TornInv
<1>6. ASSUME NEW p \in Procs, NEW v \in Values, NEW close \in BOOLEAN, WritePublish(p, v, close)
      PROVE  TornInv'
  <2>1. ~is_closed /\ (is_closed' <=> close)
    BY Zenon, <1>6, PublishCloses DEF WritePublish
  <2>2. /\ UNCHANGED <<sure, cons>> /\ pc[p] = "locked"
        /\ (torn' <=> torn \/ (close /\ op[p] = "idle"))
    BY Zenon, <1>6 DEF WritePublish, Publish, countVars
  <2>3. op[p] = "idle" => \A q \in Procs : ~(cons[q] > 0)
    BY Zenon, <1>0, <2>2 DEF IdleStaysUnwanted, wanted
  <2>. QED
    BY Zenon, <2>1, <2>2, <2>3 DEF TornInv
<1>7. CASE UNCHANGED allVars
  BY Zenon, <1>1, <1>7 DEF allVars, vars, handleVars, countVars, ghostVars, closeVars
<1>8. ASSUME NEW p \in Procs, PollWanted(p) \/ PollChannel(p) PROVE TornInv'
  <2>1. Aside(p)
    BY Zenon, <1>8, PollAside
  <2>. QED
    BY Zenon, <1>1, <2>1 DEF Aside, countVars, ghostVars, closeVars
<1>9. ASSUME NEW p \in Procs, \/ Drain(p) \/ Drained(p) \/ WriteLock(p) \/ WriteOpen(p) \/ WriteDrop(p)
                              \/ UnwantedLock(p) \/ UnwantedDecline(p) \/ UnwantedIdle(p)
      PROVE  TornInv'
  <2>1. UNCHANGED <<version, countVars, ghostVars>>
    BY ZenonT(60), <1>9 DEF Drain, Unlock, WakeTake, WakeSync, WakeOne, Drained, WakeDone, WriteLock, WriteOpen, WriteDrop,
       UnwantedLock, UnwantedDecline, UnwantedIdle, Read, Write, DropGuard, handleVars
  <2>. QED
    BY Zenon, <1>1, <2>1 DEF countVars, ghostVars, closeVars
<1>10. ASSUME NEW p \in Procs, \/ CloneProducer(p) \/ DropProducer(p) \/ DropCount(p) \/ Produce(p) \/ ProduceCount(p)
                               \/ MintMiss(p) \/ MintUnlock(p) \/ Notify(p)
                               \/ \E only_open \in BOOLEAN : MintLock(p, only_open)
      PROVE  TornInv'
  <2>1. UNCHANGED <<version, cons, ghostVars>>
    BY ZenonT(60), <1>10 DEF CloneProducer, DropProducer, DropCount, Produce, ProduceCount, MintMiss, MintUnlock, Notify,
       MintLock, Read, DropGuard, WakeConsumer, vars, handleVars, countVars
  <2>. QED
    BY Zenon, <1>1, <2>1 DEF ghostVars, closeVars
<1>. QED
  BY Zenon, <1>2, <1>3, <1>4, <1>5, <1>6, <1>7, <1>8, <1>9, <1>10 DEF HNext, Producing, Consuming

\* A change of demand is announced by whoever made it, or the list it would be announced to
\* is taken by the announcement.
LEMMA AnnounceStep ==
    ASSUME DemandInv, Stays, HTypeOK, OpInv, Counted, TypeOK, LockInv, KindInv, [HNext]_allVars
    PROVE  DemandInv'
<1>0. /\ pc \in [Procs -> PCs] /\ op \in [Procs -> Ops] /\ consumers \in Nat
      /\ last \in [Procs -> BOOLEAN]
  BY Zenon DEF TypeOK, HTypeOK
<1>w. wanted \in BOOLEAN /\ wanted' \in BOOLEAN
  BY DEF wanted
<1>s. Tasks \subseteq Procs
  BY DEF Tasks
<1>. DEFINE Told == \/ (wanted' <=> wanted) /\ (Due => Due')
                    \/ Due'
                    \/ list'["consumer"] = {}
            Awake == \A t \in Tasks : pc[t] = "wanted2count" => pc'[t] # "idle"
<1>1. ASSUME UNCHANGED last, Told, Awake PROVE DemandInv'
  <2>. SUFFICES ASSUME NEW t \in Tasks, Kind[t] = "wanted", Asleep(t)', waiter'[t] \in list'["consumer"]
                PROVE  (wanted' = last'[t]) \/ Due'
    BY Zenon DEF DemandInv
  <2>1. pc'[t] = "idle"
    BY Zenon DEF Asleep
  <2>2. Asleep(t) /\ waiter[t] \in list["consumer"]
    BY Zenon, <1>1, <2>1 DEF Stays, StayOK
  <2>3. wanted = last[t] \/ Due
    BY Zenon, <2>2 DEF DemandInv
  <2>4. (wanted' <=> wanted) => wanted' = wanted
    BY DEF wanted
  <2>5. list'["consumer"] # {} /\ last'[t] = last[t]
    BY <1>1
  <2>. QED
    BY Zenon, <1>1, <2>3, <2>4, <2>5
<1>. HIDE DEF Told, Awake
<1>2. ASSUME NEW p \in Procs, DemandQuiet(p) PROVE DemandInv'
  <2>1. Due => Due'
    BY Zenon, <1>2 DEF Due, DemandQuiet, Own
  <2>2. wanted' <=> wanted
    BY <1>2 DEF DemandQuiet, wanted
  <2>3. Awake
    <3>. SUFFICES ASSUME NEW t \in Tasks, pc[t] = "wanted2count" PROVE pc'[t] # "idle"
      BY Zenon DEF Awake
    <3>. QED
      BY <1>2, <1>s DEF DemandQuiet, Own
  <2>. QED
    BY Zenon, <1>1, <1>2, <2>1, <2>2, <2>3 DEF DemandQuiet, Told
<1>3. ASSUME NEW p \in Procs, PollWanted(p) PROVE DemandInv'
  <2>1. Aside(p) /\ last' = [last EXCEPT ![p] = wanted]
    BY Zenon, <1>3, PollAside DEF PollWanted
  <2>2. UNCHANGED <<consumers, op>> /\ Own(p) /\ op[p] = "none"
    BY Zenon, <2>1 DEF Aside, countVars, Own, OpInv
  <2>3. wanted' = wanted
    BY <2>2 DEF wanted
  <2>4. Due => Due'
    BY <2>2 DEF Due, Own
  <2>. SUFFICES ASSUME NEW t \in Tasks, Kind[t] = "wanted", Asleep(t)', waiter'[t] \in list'["consumer"]
                PROVE  (wanted' = last'[t]) \/ Due'
    BY Zenon DEF DemandInv
  <2>5. CASE t = p
    <3>1. last'[t] = wanted
      BY <1>0, <2>1, <2>5
    <3>. QED
      BY Zenon, <2>3, <3>1
  <2>6. CASE t # p
    <3>1. t \in Procs \ {p}
      BY Zenon, <1>s, <2>6
    <3>2. last'[t] = last[t]
      BY <1>0, <2>1, <3>1
    <3>3. pc'[t] = pc[t] /\ pc'[t] = "idle"
      BY Zenon, <2>2, <3>1 DEF Own, Asleep
    <3>4. pc[t] # "wanted2count"
      BY <3>3
    <3>5. wanted = last[t] \/ Due
      BY Zenon, <3>4 DEF Stays, StayOK, DemandInv
    <3>. QED
      BY Zenon, <2>3, <2>4, <3>2, <3>5
  <2>. QED
    BY Zenon, <2>5, <2>6
<1>4. ASSUME NEW p \in Procs, MintCount(p) PROVE DemandInv'
  <2>1. UNCHANGED <<pc, last>> /\ op[p] \in {"mint", "try_mint"}
    BY Zenon, <1>4 DEF MintCount, vars
  <2>2. Awake
    BY <2>1 DEF Awake
  <2>3. CASE (op[p] = "try_mint" /\ is_closed) \/ consumers # 0
    <3>1. op' = [op EXCEPT ![p] = "release"] /\ (consumers' = consumers \/ (consumers # 0 /\ consumers' = consumers + 1))
      BY Zenon, <1>4, <2>3 DEF MintCount, Do
    <3>2. wanted' <=> wanted
      BY <1>0, <3>1 DEF wanted
    <3>3. Due => Due'
      BY <1>0, <2>1, <3>1 DEF Due
    <3>. QED
      BY Zenon, <1>1, <2>1, <2>2, <3>2, <3>3 DEF Told
  <2>4. CASE ~((op[p] = "try_mint" /\ is_closed) \/ consumers # 0)
    <3>1. op' = [op EXCEPT ![p] = "minted"]
      BY Zenon, <1>4, <2>4 DEF MintCount, Do
    <3>2. Due'
      BY <1>0, <3>1 DEF Due
    <3>. QED
      BY Zenon, <1>1, <2>1, <2>2, <3>2 DEF Told
  <2>. QED
    BY Zenon, <2>3, <2>4
<1>5. ASSUME NEW p \in Procs, DropConsumer(p) PROVE DemandInv'
  <2>1. /\ UNCHANGED <<pc, last>> /\ op[p] = "none" /\ pc[p] = "idle" /\ consumers' = consumers - 1
        /\ op' = [op EXCEPT ![p] = IF consumers > 1 THEN "none" ELSE "notify"]
    BY Zenon, <1>5 DEF DropConsumer, Free, Do, vars
  <2>2. Awake
    BY <2>1 DEF Awake
  <2>3. CASE consumers > 1
    <3>1. wanted' <=> wanted
      BY <1>0, <2>1, <2>3 DEF wanted
    <3>2. op' = op
      BY <1>0, <2>1, <2>3
    <3>3. Due => Due'
      BY Zenon, <2>1, <3>2 DEF Due
    <3>. QED
      BY Zenon, <1>1, <2>1, <2>2, <3>1, <3>3 DEF Told
  <2>4. CASE ~(consumers > 1)
    <3>1. op'[p] = "notify" /\ pc'[p] = "idle"
      BY <1>0, <2>1, <2>4
    <3>2. Due'
      BY Zenon, <3>1 DEF Due
    <3>. QED
      BY Zenon, <1>1, <2>1, <2>2, <3>2 DEF Told
  <2>. QED
    BY Zenon, <2>3, <2>4
<1>6. ASSUME NEW p \in Procs, Notify(p) PROVE DemandInv'
  <2>1. /\ pc[p] = "idle" /\ list' = [list EXCEPT !["consumer"] = {}] /\ UNCHANGED last
        /\ pc' = [pc EXCEPT ![p] = "waking"]
    BY Zenon, <1>6 DEF Notify, WakeConsumer, Goto, handleVars
  <2>2. list'["consumer"] = {}
    BY <2>1 DEF TypeOK, Lists
  <2>3. Awake
    BY <1>0, <1>s, <2>1 DEF Awake
  <2>. QED
    BY Zenon, <1>1, <2>1, <2>2, <2>3 DEF Told
<1>7. CASE UNCHANGED allVars
  <2>1. UNCHANGED <<consumers, op, pc, last>>
    BY Zenon, <1>7 DEF allVars, vars, handleVars, countVars
  <2>2. Awake
    BY <2>1 DEF Awake
  <2>3. (wanted' <=> wanted) /\ (Due => Due')
    BY <2>1 DEF wanted, Due
  <2>. QED
    BY Zenon, <1>1, <2>1, <2>2, <2>3 DEF Told
<1>8. ASSUME HNext PROVE DemandInv'
  <2>1. PICK p \in Procs : PollWanted(p) \/ PollChannel(p) \/ Drain(p) \/ Drained(p) \/ Producing(p) \/ Consuming(p)
    BY Zenon, <1>8 DEF HNext
  <2>2. DemandQuiet(p) \/ PollWanted(p) \/ MintCount(p) \/ DropConsumer(p) \/ Notify(p)
    BY Zenon, <2>1, QuietStep, ProducerQuiet, ConsumerQuiet DEF Producing, Consuming, Quiet
  <2>. QED
    BY Zenon, <1>2, <1>3, <1>4, <1>5, <1>6, <2>2
<1>. QED
  BY Zenon, <1>7, <1>8

-----------------------------------------------------------------------------
(* The counts.  Counts, below, proves Counting from the library.           *)

\* What the proofs use of the sizes of finite sets.
Counting ==
    /\ IsFiniteSet(Procs \X (1 .. MaxHandles))
    /\ \A S : IsFiniteSet(S) =>
          /\ Cardinality(S) \in Nat
          /\ Cardinality(S) = 0 <=> S = {}
          /\ \A T \in SUBSET S : IsFiniteSet(T)
          /\ \A x : x \notin S => Cardinality(S \cup {x}) = Cardinality(S) + 1

\* The handles held are finitely many.
LEMMA HeldFinite ==
    ASSUME Counting, NEW f \in Holdings
    PROVE  IsFiniteSet(Held(f)) /\ Cardinality(Held(f)) \in Nat
<1>1. Held(f) \in SUBSET (Procs \X (1 .. MaxHandles))
  BY DEF Held
<1>. QED
  BY Zenon, <1>1 DEF Counting

\* Nothing is held exactly when the count is zero.
LEMMA HeldNone ==
    ASSUME Counting, NEW f \in Holdings
    PROVE  Cardinality(Held(f)) = 0 <=> \A p \in Procs : f[p] = 0
<1>1. Cardinality(Held(f)) = 0 <=> Held(f) = {}
  BY Zenon, HeldFinite DEF Counting
<1>2. ASSUME Held(f) = {}, NEW p \in Procs PROVE f[p] = 0
  <2>1. <<p, 1>> \notin Held(f) /\ f[p] \in 0 .. MaxHandles
    BY <1>2 DEF Holdings
  <2>. QED
    BY <2>1, HandlesAssumption DEF Held
<1>3. ASSUME \A p \in Procs : f[p] = 0 PROVE Held(f) = {}
  BY <1>3 DEF Held
<1>. QED
  BY <1>1, <1>2, <1>3

\* One more handle is one more in the count.
LEMMA HeldMore ==
    ASSUME Counting, NEW f \in Holdings, NEW p \in Procs, f[p] < MaxHandles
    PROVE  /\ [f EXCEPT ![p] = @ + 1] \in Holdings
           /\ Cardinality(Held([f EXCEPT ![p] = @ + 1])) = Cardinality(Held(f)) + 1
<1>. DEFINE g == [f EXCEPT ![p] = @ + 1]
            h == <<p, f[p] + 1>>
<1>. USE HandlesAssumption DEF Holdings
<1>1. f[p] \in Nat /\ f[p] + 1 \in 1 .. MaxHandles
  OBVIOUS
<1>2. g \in Holdings
  BY <1>1
<1>3. \A q \in Procs : g[q] = IF q = p THEN f[p] + 1 ELSE f[q]
  OBVIOUS
<1>4. h \in Procs \X (1 .. MaxHandles) /\ h \notin Held(f)
  BY <1>1 DEF Held
<1>5. Held(g) = Held(f) \cup {h}
  <2>1. ASSUME NEW q \in Procs, NEW i \in 1 .. MaxHandles
        PROVE  <<q, i>> \in Held(g) <=> <<q, i>> \in Held(f) \/ <<q, i>> = h
    <3>1. f[q] \in Nat /\ i \in Nat
      OBVIOUS
    <3>2. CASE q = p
      BY SMTT(60), <1>1, <1>3, <3>1, <3>2 DEF Held
    <3>3. CASE q # p
      BY <1>3, <3>1, <3>3 DEF Held
    <3>. QED
      BY <3>2, <3>3
  <2>2. Held(g) \subseteq Procs \X (1 .. MaxHandles) /\ Held(f) \subseteq Procs \X (1 .. MaxHandles)
    BY DEF Held
  <2>3. \A x \in Procs \X (1 .. MaxHandles) : x \in Held(g) <=> x \in Held(f) \cup {h}
    <3>. SUFFICES ASSUME NEW x \in Procs \X (1 .. MaxHandles) PROVE x \in Held(g) <=> x \in Held(f) \cup {h}
      BY Zenon
    <3>1. x[1] \in Procs /\ x[2] \in 1 .. MaxHandles /\ x = <<x[1], x[2]>>
      OBVIOUS
    <3>. HIDE DEF g, h
    <3>. QED
      BY Zenon, <2>1, <3>1
  <2>. HIDE DEF g, h
  <2>. QED
    BY Zenon, <1>4, <2>2, <2>3
<1>6. Cardinality(Held(f) \cup {h}) = Cardinality(Held(f)) + 1
  BY Zenon, <1>4, HeldFinite DEF Counting
<1>. QED
  BY Zenon, <1>2, <1>5, <1>6

\* One handle less is one less in the count.
LEMMA HeldLess ==
    ASSUME Counting, NEW f \in Holdings, NEW p \in Procs, f[p] > 0
    PROVE  /\ [f EXCEPT ![p] = @ - 1] \in Holdings
           /\ Cardinality(Held(f)) = Cardinality(Held([f EXCEPT ![p] = @ - 1])) + 1
<1>. DEFINE g == [f EXCEPT ![p] = @ - 1]
<1>. USE HandlesAssumption DEF Holdings
<1>1. f[p] \in 1 .. MaxHandles
  OBVIOUS
<1>2. g \in Holdings /\ g[p] = f[p] - 1 /\ g[p] < MaxHandles
  BY <1>1
<1>3. [g EXCEPT ![p] = @ + 1] = f
  <2>1. \A q \in Procs : [g EXCEPT ![p] = @ + 1][q] = f[q]
    BY <1>1, <1>2
  <2>2. DOMAIN f = Procs /\ DOMAIN [g EXCEPT ![p] = @ + 1] = Procs
    OBVIOUS
  <2>. QED
    BY Zenon, <2>1, <2>2
<1>. QED
  BY <1>2, <1>3, HeldMore

\* The counts are of the handles held.
LEMMA CountFacts ==
    ASSUME Counting, HTypeOK, CountInv
    PROVE  Counted
<1>. prod \in Holdings /\ cons \in Holdings
  BY DEF HTypeOK, Holdings
<1>1. Cardinality(Held(prod)) \in Nat /\ Cardinality(Held(cons)) \in Nat
  BY HeldFinite
<1>2. Cardinality(Held(prod)) = 0 <=> \A p \in Procs : prod[p] = 0
  BY HeldNone
<1>3. Cardinality(Held(cons)) = 0 <=> \A p \in Procs : cons[p] = 0
  BY HeldNone
<1>4. \A p \in Procs : prod[p] \in Nat /\ cons[p] \in Nat
  BY HandlesAssumption DEF HTypeOK
<1>. QED
  BY <1>1, <1>2, <1>3, <1>4 DEF CountInv, Dropping, Counted

\* A count moves with the handles it counts, and a producer being dropped is counted until its
\* process, alone under the value's lock, takes it off.
LEMMA CountStep ==
    ASSUME Counting, HTypeOK, OpInv, CountInv, TypeOK, LockInv, KindInv, [HNext]_allVars
    PROVE  CountInv'
<1>0. /\ pc \in [Procs -> PCs] /\ op \in [Procs -> Ops]
      /\ prod \in Holdings /\ cons \in Holdings /\ producers \in Nat /\ consumers \in Nat
  BY DEF TypeOK, HTypeOK, Holdings
<1>1. /\ Held(prod)' = Held(prod') /\ Held(cons)' = Held(cons')
      /\ Cardinality(Held(prod)) \in Nat /\ Cardinality(Held(cons)) \in Nat
  <2>1. Held(prod)' = Held(prod') /\ Held(cons)' = Held(cons')
    BY Zenon DEF Held
  <2>. QED
    BY Zenon, <1>0, <2>1, HeldFinite
<1>. DEFINE Still == UNCHANGED <<producers, prod>> /\ (Dropping' <=> Dropping)
            Same == UNCHANGED <<consumers, cons>>
<1>2. ASSUME NEW p \in Procs, op[p] # "drop", op' = op \/ \E what \in Ops \ {"drop"} : Do(p, what)
      PROVE  Dropping' <=> Dropping
  BY <1>0, <1>2 DEF Do, Dropping
<1>3. ASSUME Still, Same PROVE CountInv'
  BY <1>1, <1>3 DEF CountInv
<1>4. ASSUME NEW p \in Procs, NEW f \in Holdings, f[p] < MaxHandles
      PROVE  Cardinality(Held([f EXCEPT ![p] = @ + 1])) = Cardinality(Held(f)) + 1
  BY SMTT(60), <1>4, HeldMore
<1>5. ASSUME NEW p \in Procs, PollChannel(p) \/ PollWanted(p) PROVE CountInv'
  <2>1. Aside(p)
    BY Zenon, <1>5, PollAside
  <2>. QED
    BY <2>1, <1>3 DEF Aside, countVars, Dropping
<1>6. ASSUME NEW p \in Procs, Drain(p) \/ WriteOpen(p) \/ DropLast(p) \/ Notify(p) PROVE CountInv'
  BY SMTT(60), <1>6, <1>3 DEF Drain, WriteOpen, DropLast, Notify, handleVars, countVars, Dropping
<1>7. ASSUME NEW p \in Procs, NEW v \in Values, NEW close \in BOOLEAN, WritePublish(p, v, close)
      PROVE  CountInv'
  BY <1>7, <1>3 DEF WritePublish, countVars, Dropping
<1>8. ASSUME NEW p \in Procs, \/ Drained(p) \/ WriteLock(p) \/ WriteDrop(p) \/ UnwantedLock(p)
                              \/ UnwantedDecline(p) \/ UnwantedIdle(p) \/ Produce(p) \/ MintMiss(p) \/ MintUnlock(p)
                              \/ \E only_open \in BOOLEAN : MintLock(p, only_open)
      PROVE  CountInv'
  <2>1. op[p] # "drop" /\ UNCHANGED countVars
    BY ZenonT(60), <1>8 DEF Drained, WakeDone, WriteLock, WriteDrop, UnwantedLock, UnwantedDecline, UnwantedIdle, Produce,
       MintMiss, MintUnlock, MintLock, Free, OpInv
  <2>2. \E what \in Ops \ {"drop"} : Do(p, what)
    BY ZenonT(60), <1>8 DEF Drained, WriteLock, WriteDrop, UnwantedLock, UnwantedDecline, UnwantedIdle, Produce,
       MintMiss, MintUnlock, MintLock, Ops
  <2>. QED
    BY SMTT(60), <1>2, <1>3, <2>1, <2>2 DEF countVars
<1>9. ASSUME NEW p \in Procs, CloneProducer(p) PROVE CountInv'
  <2>1. /\ prod[p] < MaxHandles /\ op[p] # "drop" /\ op' = op /\ UNCHANGED <<consumers, cons>>
        /\ prod' = [prod EXCEPT ![p] = @ + 1] /\ producers' = producers + 1
    BY <1>0, <1>9, HandlesAssumption DEF CloneProducer, Free, Holdings
  <2>2. Dropping' <=> Dropping
    BY <1>2, <2>1
  <2>3. Cardinality(Held(prod')) = Cardinality(Held(prod)) + 1
    BY ZenonT(60), <1>0, <1>4, <2>1
  <2>. QED
    BY SMTT(60), <1>0, <1>1, <2>1, <2>2, <2>3 DEF CountInv
<1>10. ASSUME NEW p \in Procs, ProduceCount(p) PROVE CountInv'
  <2>1. /\ prod[p] < MaxHandles /\ op[p] # "drop" /\ Do(p, "release") /\ UNCHANGED <<consumers, cons>>
    BY <1>10 DEF ProduceCount, OpInv
  <2>2. Dropping' <=> Dropping
    BY SMTT(60), <1>2, <2>1 DEF Ops
  <2>3. CASE is_closed
    BY SMTT(60), <1>3, <1>10, <2>1, <2>2, <2>3 DEF ProduceCount
  <2>4. CASE ~is_closed
    <3>1. prod' = [prod EXCEPT ![p] = @ + 1] /\ producers' = producers + 1
      BY Zenon, <1>10, <2>4 DEF ProduceCount
    <3>2. Cardinality(Held(prod')) = Cardinality(Held(prod)) + 1
      BY ZenonT(60), <1>0, <1>4, <2>1, <3>1
    <3>. QED
      BY SMTT(60), <1>0, <1>1, <2>1, <2>2, <3>1, <3>2 DEF CountInv
  <2>. QED
    BY <2>3, <2>4
<1>11. ASSUME NEW p \in Procs, DropProducer(p) PROVE CountInv'
  <2>1. /\ prod[p] > 0 /\ op[p] = "none" /\ op' = [op EXCEPT ![p] = "drop"] /\ UNCHANGED <<producers, consumers, cons>>
        /\ prod' = [prod EXCEPT ![p] = @ - 1] /\ vlock = Nobody
    BY Zenon, <1>11 DEF DropProducer, Free, Do, Read
  <2>2. ~Dropping /\ Dropping'
    BY SMTT(60), <1>0, <2>1, ChannelAssumption DEF Dropping, OpInv, LockInv
  <2>3. Cardinality(Held(prod)) = Cardinality(Held(prod')) + 1 /\ prod' \in Holdings
    BY Zenon, <1>0, <2>1, HeldLess
  <2>4. Cardinality(Held(prod')) \in Nat
    BY <2>3, HeldFinite
  <2>5. producers = Cardinality(Held(prod)) /\ consumers = Cardinality(Held(cons))
    BY <1>1, <2>2 DEF CountInv
  <2>6. producers' = Cardinality(Held(prod')) + 1 /\ consumers' = Cardinality(Held(cons'))
    BY Zenon, <2>1, <2>3, <2>5
  <2>. QED
    BY Zenon, <1>1, <2>2, <2>6 DEF CountInv
<1>12. ASSUME NEW p \in Procs, DropCount(p) PROVE CountInv'
  <2>1. /\ op[p] = "drop" /\ UNCHANGED <<prod, consumers, cons>> /\ producers' = producers - 1
        /\ \E what \in {"release", "last"} : op' = [op EXCEPT ![p] = what]
    BY Zenon, <1>12 DEF DropCount, Do
  <2>2. \A q \in Procs \ {p} : op[q] # "drop"
    BY <2>1 DEF OpInv, LockInv
  <2>3. Dropping /\ ~Dropping'
    BY <1>0, <2>1, <2>2 DEF Dropping
  <2>. QED
    BY <1>0, <1>1, <2>1, <2>3 DEF CountInv
<1>13. ASSUME NEW p \in Procs, MintMore(p) \/ CloneConsumer(p) PROVE CountInv'
  <2>1. /\ cons[p] < MaxHandles /\ op[p] # "drop" /\ op' = op /\ UNCHANGED <<producers, prod>>
        /\ cons' = [cons EXCEPT ![p] = @ + 1] /\ consumers' = consumers + 1
    BY <1>0, <1>13, HandlesAssumption DEF MintMore, CloneConsumer, Free, Holdings
  <2>. QED
    BY ZenonT(60), <1>0, <1>1, <1>2, <1>4, <2>1 DEF CountInv
<1>14. ASSUME NEW p \in Procs, MintCount(p) PROVE CountInv'
  <2>0. op[p] \in {"mint", "try_mint"} /\ UNCHANGED <<producers, prod>>
        /\ \E what \in {"release", "minted"} : Do(p, what)
    BY Zenon, <1>14 DEF MintCount
  <2>1. cons[p] < MaxHandles
    BY Zenon, <2>0 DEF OpInv
  <2>d. op[p] # "drop" /\ {"release", "minted"} \subseteq Ops \ {"drop"}
    BY <2>0 DEF Ops
  <2>2. Dropping' <=> Dropping
    BY Zenon, <1>2, <2>0, <2>d
  <2>3. CASE op[p] = "try_mint" /\ is_closed
    BY SMTT(60), <1>3, <1>14, <2>0, <2>2, <2>3 DEF MintCount
  <2>4. CASE ~(op[p] = "try_mint" /\ is_closed)
    <3>1. cons' = [cons EXCEPT ![p] = @ + 1] /\ consumers' = consumers + 1
      BY Zenon, <1>14, <2>4 DEF MintCount
    <3>. QED
      BY ZenonT(60), <1>0, <1>1, <1>4, <2>0, <2>1, <2>2, <3>1 DEF CountInv
  <2>. QED
    BY Zenon, <2>3, <2>4
<1>15. ASSUME NEW p \in Procs, DropConsumer(p) PROVE CountInv'
  <2>1. /\ cons[p] > 0 /\ op[p] # "drop" /\ UNCHANGED <<producers, prod>>
        /\ \E what \in {"none", "notify"} : Do(p, what)
        /\ cons' = [cons EXCEPT ![p] = @ - 1] /\ consumers' = consumers - 1
    BY ZenonT(60), <1>15 DEF DropConsumer, Free
  <2>2. Dropping' <=> Dropping
    BY SMTT(60), <1>2, <2>1 DEF Ops
  <2>3. Cardinality(Held(cons)) = Cardinality(Held(cons')) + 1 /\ cons' \in Holdings
    BY Zenon, <1>0, <2>1, HeldLess
  <2>4. Cardinality(Held(cons')) \in Nat
    BY <2>3, HeldFinite
  <2>. QED
    BY <1>0, <1>1, <2>1, <2>2, <2>3, <2>4 DEF CountInv
<1>16. CASE UNCHANGED allVars
  BY <1>16, <1>3 DEF allVars, handleVars, countVars, Dropping
<1>. QED
  BY Zenon, <1>5, <1>6, <1>7, <1>8, <1>9, <1>10, <1>11, <1>12, <1>13, <1>14, <1>15, <1>16
     DEF HNext, Producing, Consuming

-----------------------------------------------------------------------------
(* The invariant, and what follows from it.                                *)

\* A new channel has its owner's producer and nothing else.
LEMMA HandlesInit == Counting /\ HInit => HInv
<1>. SUFFICES ASSUME Counting, HInit PROVE HInv
  OBVIOUS
<1>. USE HandlesAssumption
<1>. DEFINE none == [p \in Procs |-> 0]
<1>1. none \in Holdings /\ prod = [none EXCEPT ![Owner] = @ + 1] /\ cons = none
  BY DEF HInit, Holdings
<1>2. Cardinality(Held(cons)) = 0
  BY <1>1, HeldNone
<1>3. Cardinality(Held(prod)) = 1
  <2>1. Cardinality(Held(none)) = 0 /\ none[Owner] < MaxHandles
    BY <1>1, HeldNone
  <2>. QED
    BY <1>1, <2>1, HeldMore
<1>4. CountInv
  BY <1>2, <1>3 DEF CountInv, Dropping, HInit
<1>5. HTypeOK
  <2>1. prod \in [Procs -> 0 .. MaxHandles] /\ cons \in [Procs -> 0 .. MaxHandles]
    BY DEF HInit
  <2>2. last \in [Procs -> BOOLEAN] /\ sure \in [Procs -> BOOLEAN] /\ {aborted, atClose, torn} \subseteq BOOLEAN
    BY Zenon DEF HInit
  <2>. QED
    BY <2>1, <2>2 DEF HTypeOK, HInit, Ops
<1>6. OpInv /\ IdleStaysUnwanted /\ LastInv
  <2>0. (\A p \in Procs : op[p] = "none" /\ pc[p] = "idle") /\ producers = 1
    BY Zenon DEF HInit, Init
  <2>1. OpInv
    BY <2>0 DEF OpInv, WritePCs
  <2>2. IdleStaysUnwanted
    BY <2>0 DEF IdleStaysUnwanted
  <2>3. producers # 0 /\ \A p \in Procs : op[p] # "last"
    BY <2>0
  <2>4. LastInv
    BY Zenon, <2>3 DEF LastInv
  <2>. QED
    BY Zenon, <2>1, <2>2, <2>4
<1>7. ~is_closed
  BY SMTT(60) DEF HInit, Init, is_closed, STEP, CLOSED
<1>8. OpenWhileProduced
  BY SMTT(60), <1>7 DEF OpenWhileProduced
<1>9. ParkInv /\ DemandInv
  <2>1. \A t \in Tasks : pc[t] = "idle" /\ woken[t]
    BY Zenon DEF HInit, Init, Tasks
  <2>2. \A t \in Tasks : ~Asleep(t)
    BY Zenon, <2>1 DEF Asleep
  <2>3. \A t \in Tasks : pc[t] \notin {"wanted2", "wanted2count"}
    BY Zenon, <2>1
  <2>4. ParkInv
    BY Zenon, <2>2, <2>3 DEF ParkInv, ParkOK
  <2>. QED
    BY Zenon, <2>2, <2>4 DEF DemandInv
<1>10. TornInv
  BY Zenon DEF HInit, TornInv
<1>. QED
  BY <1>4, <1>5, <1>6, <1>8, <1>9, <1>10 DEF HInv

\* Every step of the composition keeps it.
LEMMA HandlesInvStep == Counting /\ HInv /\ IInv /\ [HNext]_allVars => HInv'
<1>. SUFFICES ASSUME Counting, HInv, IInv, [HNext]_allVars PROVE HInv'
  OBVIOUS
<1>1. [Next]_vars
  BY Zenon, HandlesStep, Zenon DEF allVars
<1>2. TypeOK /\ LockInv /\ VersionInv /\ KindInv
  BY DEF IInv
<1>3. ParkInv' /\ Stays
  BY Zenon, <1>1, <1>2, ParkStep DEF HInv
<1>c. Counted
  BY Zenon, CountFacts DEF HInv
<1>4. HTypeOK' /\ OpInv' /\ CountInv'
  BY Zenon, <1>2, <1>c, OpStep, CountStep DEF HInv
<1>5. LastInv' /\ OpenWhileProduced' /\ IdleStaysUnwanted'
  BY Zenon, <1>2, <1>c, LastStep, IdleStep DEF HInv
<1>6. DemandInv'
  BY Zenon, <1>2, <1>3, <1>c, AnnounceStep DEF HInv
<1>7. TornInv'
  BY Zenon, <1>2, <1>c, TornStep DEF HInv
<1>. QED
  BY Zenon, <1>3, <1>4, <1>5, <1>6, <1>7 DEF HInv

\* With nobody left holding or dropping a producer the count is zero, and the channel closed.
LEMMA LastDropFollows == Counting /\ HInv => ClosedByLastDrop
<1>. SUFFICES ASSUME Counting, HInv PROVE ClosedByLastDrop
  OBVIOUS
<1>1. ASSUME \A p \in Procs : prod[p] = 0 /\ op[p] \notin {"drop", "last"} PROVE is_closed
  <2>1. producers = 0
    BY SMTT(60), <1>1, CountFacts DEF HInv, Counted
  <2>. QED
    BY <1>1, <2>1 DEF HInv, LastInv
<1>. QED
  BY Zenon, <1>1 DEF HInv, ClosedByLastDrop, LastDropCloses

\* A task that sleeps on the demand is on the list, and what it has not seen is on its way.
LEMMA DemandFollows == HInv => NoLostDemand
<1>. SUFFICES ASSUME ParkInv, DemandInv, NEW t \in Tasks, Kind[t] = "wanted", Asleep(t), ~Taken(t)
              PROVE  /\ waiter[t] \in list["consumer"]
                     /\ wanted # last[t] => \E p \in Procs : op[p] \in {"minted", "notify"}
                     /\ is_closed => Draining(TRUE)
  BY Zenon DEF NoLostDemand, HInv
<1>1. waiter[t] \in list["consumer"]
  BY Zenon DEF ParkInv, ParkOK, Asleep
<1>2. is_closed => Draining(TRUE)
  BY Zenon, <1>1 DEF ParkInv, ParkOK
<1>3. wanted # last[t] => \E p \in Procs : op[p] \in {"minted", "notify"}
  BY <1>1 DEF DemandInv, Due
<1>. QED
  BY ZenonT(60), <1>1, <1>2, <1>3

-----------------------------------------------------------------------------
(* The theorems, with the library's facts about finite sets.               *)

INSTANCE FiniteSetTheorems

\* The sizes of finite sets.
LEMMA Counts == Counting
<1>1. IsFiniteSet(Procs \X (1 .. MaxHandles))
  <2>1. 1 \in Int /\ MaxHandles \in Int
    BY HandlesAssumption
  <2>2. IsFiniteSet(1 .. MaxHandles)
    BY <2>1, FS_Interval
  <2>. QED
    BY Zenon, <2>2, HandlesAssumption, FS_Product
<1>2. ASSUME NEW S, IsFiniteSet(S)
      PROVE  /\ Cardinality(S) \in Nat /\ (Cardinality(S) = 0 <=> S = {})
             /\ \A T \in SUBSET S : IsFiniteSet(T)
             /\ \A x : x \notin S => Cardinality(S \cup {x}) = Cardinality(S) + 1
  BY Zenon, <1>2, FS_CardinalityType, FS_EmptySet, FS_Subset, FS_AddElement
<1>. QED
  BY Zenon, <1>1, <1>2 DEF Counting

\* The inductive invariant of the handles holds, given the channel's.
THEOREM HandlesInvariance == HSpec => []HInv
<1>1. HSpec => []IInv
  BY HandlesAreChannel, Invariance, PTL
<1>. QED
  BY <1>1, Counts, HandlesInit, HandlesInvStep, PTL DEF HSpec

\* A teardown that commits through write_unwanted never cancels a consumer (producer.rs
\* Unwanted::Idle), with any number of handles and processes.
THEOREM IdleSafety == HSpec => []IdleStaysUnwanted
<1>1. HInv => IdleStaysUnwanted
  BY DEF HInv
<1>. QED
  BY <1>1, HandlesInvariance, PTL

\* An idle teardown never takes a channel from somebody that try_consume gave a consumer of it
\* (producer.rs write_unwanted against weak.rs ProducerWeak::try_consume), with any number of
\* handles and processes.
THEOREM TeardownSafety == HSpec => []TeardownSpares
<1>1. HInv => TeardownSpares
  BY Zenon DEF HInv, TornInv, TeardownSpares
<1>. QED
  BY <1>1, HandlesInvariance, PTL

\* The channel is open exactly as long as somebody has a producer, unless it was closed
\* through a Mut (producer.rs Producer::drop against weak.rs ProducerWeak::produce).
THEOREM LastDropSafety == HSpec => []ClosedByLastDrop
<1>1. HInv => ClosedByLastDrop
  BY Counts, LastDropFollows
<1>. QED
  BY <1>1, HandlesInvariance, PTL

\* No change of demand and no closure is lost on a task that watches the demand (consumer.rs
\* poll_wanted_changed).
THEOREM DemandSafety == HSpec => []NoLostDemand
<1>1. HInv => NoLostDemand
  BY DemandFollows
<1>. QED
  BY <1>1, HandlesInvariance, PTL

=============================================================================
