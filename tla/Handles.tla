------------------------------ MODULE Handles ------------------------------
(***************************************************************************)
(* The handles of a kio channel (producer.rs, consumer.rs, weak.rs): the   *)
(* producer count that keeps the channel open, the consumer count that     *)
(* says whether anyone wants it, and the teardown that only commits while  *)
(* nobody does.  The counts are atomics beside the channel; which of their *)
(* moves happen under the value's lock is what the module is about.        *)
(*                                                                         *)
(* It extends Channel: every step is a step of the channel together with   *)
(* what it does to the counts, or a step on the counts alone.              *)
(***************************************************************************)
EXTENDS Channel

CONSTANTS
    Owner,        \* the process that starts with the one producer
    MaxHandles    \* bound on the handles of one kind a process holds

ASSUME HandlesAssumption ==
    /\ Owner \in Procs
    /\ Kind[Owner] = "write"
    /\ IsFiniteSet(Procs)
    /\ MaxHandles \in Nat \ {0}

VARIABLES
    producers,    \* Counts::producers
    consumers,    \* Counts::consumers
    prod,         \* the producers each process holds
    cons,         \* the consumers each process holds
    op,           \* the handle operation each process is in
    last,         \* what poll_wanted_changed told each task last
    aborted,      \* history: somebody closed the channel through a Mut
    atClose,      \* history: the demand when the channel closed
    torn,         \* history: the channel was closed through the guard of write_unwanted
    sure          \* history: try_consume gave the process a consumer since it had none

countVars == <<producers, consumers, prod, cons>>
closeVars == <<aborted, atClose, torn>>
ghostVars == <<closeVars, sure>>
handleVars == <<countVars, op, last, ghostVars>>
allVars == <<vars, handleVars>>

Ops == {"none", "write", "unwanted", "idle", "drop", "last", "release",
        "produce", "missed", "mint", "try_mint", "minted", "notify"}

HTypeOK ==
    /\ producers \in Nat
    /\ consumers \in Nat
    /\ prod \in [Procs -> 0 .. MaxHandles]
    /\ cons \in [Procs -> 0 .. MaxHandles]
    /\ op \in [Procs -> Ops]
    /\ last \in [Procs -> BOOLEAN]
    /\ {aborted, atClose, torn} \subseteq BOOLEAN
    /\ sure \in [Procs -> BOOLEAN]

HInit ==
    /\ Init
    /\ producers = 1
    /\ consumers = 0
    /\ prod = [p \in Procs |-> IF p = Owner THEN 1 ELSE 0]
    /\ cons = [p \in Procs |-> 0]
    /\ op = [p \in Procs |-> "none"]
    /\ last = [p \in Procs |-> FALSE]
    /\ aborted = FALSE /\ atClose = FALSE /\ torn = FALSE
    /\ sure = [p \in Procs |-> FALSE]

-----------------------------------------------------------------------------
Do(p, what) == op' = [op EXCEPT ![p] = what]

\* A handle operation starts on a process between two calls.
Free(p) == Kind[p] = "write" /\ pc[p] = "idle" /\ op[p] = "none"

wanted == consumers > 0

(* Producer::write, Mut and Producer::close.                               *)

WriteLock(p) ==
    /\ Free(p)
    /\ prod[p] > 0
    /\ Read(p)
    /\ Do(p, "write")
    /\ UNCHANGED <<countVars, last, ghostVars>>

WriteOpen(p) ==
    /\ op[p] = "write"
    /\ Write(p)
    /\ UNCHANGED handleVars

WritePublish(p, v, close) ==
    /\ op[p] \in {"write", "idle"}
    /\ Publish(p, v, close)
    /\ aborted' = (aborted \/ close)
    /\ atClose' = (IF close THEN wanted ELSE atClose)
    /\ torn' = (torn \/ (close /\ op[p] = "idle"))
    /\ UNCHANGED <<countVars, op, last, sure>>

\* The guard goes without a publish: the channel was closed, or nothing was written.
WriteDrop(p) ==
    /\ op[p] \in {"write", "idle", "release"}
    /\ op[p] = "write" /\ pc[p] = "reading" => is_closed
    /\ DropGuard(p)
    /\ Do(p, "none")
    /\ UNCHANGED <<countVars, last, ghostVars>>

\* The wake after a publish belongs to the drop of the guard, or of the producer.
Drain(p) ==
    /\ Unlock(p) \/ WakeTake(p) \/ WakeSync(p) \/ WakeOne(p)
    /\ UNCHANGED handleVars

Drained(p) ==
    /\ WakeDone(p)
    /\ Do(p, "none")
    /\ UNCHANGED <<countVars, last, ghostVars>>

-----------------------------------------------------------------------------
(* Producer::write_unwanted.                                               *)

UnwantedLock(p) ==
    /\ Free(p)
    /\ prod[p] > 0
    /\ Read(p)
    /\ Do(p, "unwanted")
    /\ UNCHANGED <<countVars, last, ghostVars>>

\* Closed first, then the count, both under the value's lock.
UnwantedDecline(p) ==
    /\ op[p] = "unwanted"
    /\ is_closed \/ wanted
    /\ DropGuard(p)
    /\ Do(p, "none")
    /\ UNCHANGED <<countVars, last, ghostVars>>

UnwantedIdle(p) ==
    /\ op[p] = "unwanted"
    /\ ~wanted
    /\ Write(p)
    /\ Do(p, "idle")
    /\ UNCHANGED <<countVars, last, ghostVars>>

-----------------------------------------------------------------------------
(* The producers: Clone, Drop and ProducerWeak::produce.                   *)

CloneProducer(p) ==
    /\ Free(p)
    /\ prod[p] \in 1 .. MaxHandles - 1
    /\ producers' = producers + 1
    /\ prod' = [prod EXCEPT ![p] = @ + 1]
    /\ UNCHANGED <<vars, consumers, cons, op, last, ghostVars>>

DropProducer(p) ==
    /\ Free(p)
    /\ prod[p] > 0
    /\ Read(p)
    /\ Do(p, "drop")
    /\ prod' = [prod EXCEPT ![p] = @ - 1]
    /\ UNCHANGED <<producers, consumers, cons, last, ghostVars>>

\* The count moves under the lock, in step with the closed flag it decides.
DropCount(p) ==
    /\ op[p] = "drop"
    /\ producers' = producers - 1
    /\ Do(p, IF producers > 1 \/ is_closed THEN "release" ELSE "last")
    /\ UNCHANGED <<vars, consumers, prod, cons, last, ghostVars>>

DropLast(p) ==
    /\ op[p] = "last"
    /\ Close(p)
    /\ atClose' = wanted
    /\ UNCHANGED <<countVars, op, last, aborted, torn, sure>>

Produce(p) ==
    /\ Free(p)
    /\ prod[p] < MaxHandles
    /\ Read(p)
    /\ Do(p, "produce")
    /\ UNCHANGED <<countVars, last, ghostVars>>

\* Mutant of ProduceCount: a closed channel hands out a producer.
ProduceCount_closed(p) ==
    /\ op[p] = "produce"
    /\ producers' = producers + 1
    /\ prod' = [prod EXCEPT ![p] = @ + 1]
    /\ Do(p, "release")
    /\ UNCHANGED <<vars, consumers, cons, last, ghostVars>>

ProduceCount(p) ==
    /\ op[p] = "produce"
    /\ IF is_closed
         THEN UNCHANGED <<producers, prod>>
         ELSE producers' = producers + 1 /\ prod' = [prod EXCEPT ![p] = @ + 1]
    /\ Do(p, "release")
    /\ UNCHANGED <<vars, consumers, cons, last, ghostVars>>

-----------------------------------------------------------------------------
(* The consumers: mint, Clone and Drop.                                    *)

\* Mutant of MintMore: the first consumer is counted without the lock too.
MintMore_unlocked(p) ==
    /\ Free(p)
    /\ cons[p] < MaxHandles
    /\ consumers' = consumers + 1
    /\ cons' = [cons EXCEPT ![p] = @ + 1]
    /\ Do(p, IF wanted THEN "none" ELSE "notify")
    /\ UNCHANGED <<vars, producers, prod, last, ghostVars>>

\* fetch_update: existing demand grows without the lock.
MintMore(p) ==
    /\ Free(p)
    /\ wanted
    /\ cons[p] < MaxHandles
    /\ consumers' = consumers + 1
    /\ cons' = [cons EXCEPT ![p] = @ + 1]
    /\ UNCHANGED <<vars, producers, prod, op, last, ghostVars>>

\* fetch_update found no demand to grow.
MintMiss(p) ==
    /\ Free(p)
    /\ ~wanted
    /\ cons[p] < MaxHandles
    /\ Do(p, "missed")
    /\ UNCHANGED <<vars, countVars, last, ghostVars>>

\* The lock, after that, or at once when only an open channel will do
\* (ProducerWeak::try_consume).
MintLock(p, only_open) ==
    /\ IF only_open THEN Free(p) /\ cons[p] < MaxHandles ELSE op[p] = "missed"
    /\ Read(p)
    /\ Do(p, IF only_open THEN "try_mint" ELSE "mint")
    /\ UNCHANGED <<countVars, last, ghostVars>>

\* Mutant of MintCount: the closed flag is not looked at under the lock.
MintCount_unchecked(p) ==
    /\ op[p] \in {"mint", "try_mint"}
    /\ consumers' = consumers + 1
    /\ cons' = [cons EXCEPT ![p] = @ + 1]
    /\ sure' = [sure EXCEPT ![p] = @ \/ op[p] = "try_mint"]
    /\ Do(p, IF consumers = 0 THEN "minted" ELSE "release")
    /\ UNCHANGED <<vars, producers, prod, last, closeVars>>

MintCount(p) ==
    /\ op[p] \in {"mint", "try_mint"}
    /\ IF op[p] = "try_mint" /\ is_closed
         THEN Do(p, "release") /\ UNCHANGED <<consumers, cons, sure>>
         ELSE /\ consumers' = consumers + 1
              /\ cons' = [cons EXCEPT ![p] = @ + 1]
              /\ sure' = [sure EXCEPT ![p] = @ \/ op[p] = "try_mint"]
              /\ Do(p, IF consumers = 0 THEN "minted" ELSE "release")
    /\ UNCHANGED <<vars, producers, prod, last, closeVars>>

\* The first consumer is announced once the lock is released.
MintUnlock(p) ==
    /\ op[p] = "minted"
    /\ DropGuard(p)
    /\ Do(p, "notify")
    /\ UNCHANGED <<countVars, last, ghostVars>>

CloneConsumer(p) ==
    /\ Free(p)
    /\ cons[p] \in 1 .. MaxHandles - 1
    /\ consumers' = consumers + 1
    /\ cons' = [cons EXCEPT ![p] = @ + 1]
    /\ UNCHANGED <<vars, producers, prod, op, last, ghostVars>>

\* Mutant of DropConsumer: the last consumer leaves without a word.
DropConsumer_silent(p) ==
    /\ Free(p)
    /\ cons[p] > 0
    /\ consumers' = consumers - 1
    /\ cons' = [cons EXCEPT ![p] = @ - 1]
    /\ sure' = [sure EXCEPT ![p] = @ /\ cons[p] > 1]
    /\ UNCHANGED <<vars, producers, prod, op, last, closeVars>>

DropConsumer(p) ==
    /\ Free(p)
    /\ cons[p] > 0
    /\ consumers' = consumers - 1
    /\ cons' = [cons EXCEPT ![p] = @ - 1]
    /\ sure' = [sure EXCEPT ![p] = @ /\ cons[p] > 1]
    /\ Do(p, IF consumers > 1 THEN "none" ELSE "notify")
    /\ UNCHANGED <<vars, producers, prod, last, closeVars>>

Notify(p) ==
    /\ op[p] = "notify"
    /\ WakeConsumer(p)
    /\ UNCHANGED handleVars

-----------------------------------------------------------------------------
(* poll_wanted_changed, and the other polls as Channel has them.           *)

PollWanted(t) ==
    /\ WantedCount(t, wanted # last[t])
    /\ last' = [last EXCEPT ![t] = wanted]
    /\ UNCHANGED <<countVars, op, ghostVars>>

\* Producer::poll, which hands out a Mut, is left to Channel.
PollChannel(t) ==
    /\ Kind[t] # "produce"
    /\ \/ Poll(t) \/ PollAgain(t) \/ Reset(t) \/ Again(t)
       \/ WantedClosed(t) \/ WantedRegister(t)
    /\ UNCHANGED handleVars

Producing(p) ==
    \/ WriteLock(p) \/ WriteOpen(p) \/ WriteDrop(p)
    \/ \E v \in Values, close \in BOOLEAN : WritePublish(p, v, close)
    \/ UnwantedLock(p) \/ UnwantedDecline(p) \/ UnwantedIdle(p)
    \/ CloneProducer(p) \/ DropProducer(p) \/ DropCount(p) \/ DropLast(p)
    \/ Produce(p) \/ ProduceCount(p)

Consuming(p) ==
    \/ MintMore(p) \/ MintMiss(p) \/ MintCount(p) \/ MintUnlock(p)
    \/ \E only_open \in BOOLEAN : MintLock(p, only_open)
    \/ CloneConsumer(p) \/ DropConsumer(p) \/ Notify(p)

HNext ==
    \E p \in Procs :
        \/ PollWanted(p) \/ PollChannel(p)
        \/ Drain(p) \/ Drained(p)
        \/ Producing(p) \/ Consuming(p)

HSpec == HInit /\ [][HNext]_allVars

-----------------------------------------------------------------------------
(* Properties.                                                             *)

\* The guard of write_unwanted keeps the channel unwanted until it drops (producer.rs
\* Unwanted::Idle): a teardown that commits through it never cancels a consumer.
IdleStaysUnwanted ==
    \A p \in Procs : op[p] = "idle" /\ pc[p] \in {"locked", "published"} => ~wanted

\* An idle teardown and try_consume exclude each other (producer.rs write_unwanted: "between
\* the two, a consumer either exists in time to decline the teardown or is never handed out at
\* all"): on a channel closed through the guard of write_unwanted, nobody has a consumer that
\* try_consume gave it, whether before the teardown, during it or after it.
TeardownSpares == torn => \A p \in Procs : ~sure[p]

\* A producer keeps the channel open (Producer::drop against ProducerWeak::produce):
\* unless somebody closed it through a Mut, a closed channel has no producer left, not
\* even one handed out by a weak handle while the last other one was being dropped.
OpenWhileProduced == is_closed /\ ~aborted => \A p \in Procs : prod[p] = 0

\* The last producer to go closes the channel, however the drops interleave.
LastDropCloses ==
    (\A p \in Procs : prod[p] = 0 /\ op[p] \notin {"drop", "last"}) => is_closed

\* Without a close through a Mut, the channel is open exactly as long as somebody has a
\* producer (producer.rs Producer::drop against weak.rs ProducerWeak::produce).
ClosedByLastDrop == OpenWhileProduced /\ LastDropCloses

\* No change of demand is lost (consumer.rs poll_wanted_changed): a task asleep on the
\* consumer list although the demand differs from what it was last told, or although the
\* channel closed, is about to be woken.
NoLostDemand ==
    \A t \in Tasks : Kind[t] = "wanted" /\ Asleep(t) =>
        \/ Taken(t)
        \/ /\ waiter[t] \in list["consumer"]
           /\ wanted # last[t] => \E p \in Procs : op[p] \in {"minted", "notify"}
           /\ is_closed => Draining(TRUE)

\* "Closure is checked first, so a closed channel reports Closed from every handle rather
\* than a consumer count that only dropped because it's dead" (consumer.rs
\* poll_wanted_changed): a poll never reports the demand gone on a channel that was still
\* wanted when it closed.
ClosedBeforeUnwanted ==
    [][\A t \in Tasks :
          pc[t] \in {"wanted1count", "wanted2count"} /\ pc'[t] = "ready" /\ ~wanted
              => ~(is_closed /\ atClose)]_allVars

=============================================================================
