# A TLA+ verification of moq: kio, its wake gates and the route layer

moq is a publish/subscribe system for live media over QUIC. Its Rust side stands on one small
crate, `rs/kio`: the channels, waiter lists, task sets, logs and queues with which every session,
track and group waits for every other one. kio never blocks a task; it parks a waiter, lets go of
its locks, and counts on somebody waking it. A mistake there is a stream that hangs once a week.
On top of it `rs/moq-net` has two gates that keep a woken task from looking at everything again,
and a Babel-style router by which relays find each other's broadcasts.

This project models kio step by atomic step, the gates on top of kio's queue, and the router as a
network of nodes with failing sessions; it model-checks them with TLC and proves the central parts
for every size with TLAPS.

Paths below are relative to the repository; `kio/` stands for `rs/kio/src/` and `net/`
for `rs/moq-net/src/`.

## The system

| Part | State | Operations | What is hard |
|---|---|---|---|
| Channel (`kio/channel.rs`, `watch.rs`) | value under one mutex, atomic version with a closed bit, three waiter lists under a second mutex, lock-free mirror of the value list's tag | poll, re-poll, park, publish, close, wake | the value is judged and the waiter parked under different locks |
| Handles (`kio/producer.rs`, `consumer.rs`, `weak.rs`) | counts of producers and consumers | clone, drop, consume, upgrade, `write_unwanted`, `poll_wanted_changed` | counts move partly inside and partly outside the lock |
| Waiters (`kio/waiter.rs`) | entries, cursor, tag; a waiter's records; `Park` | register, take, wake, clear, hold | a record must prove an entry without a look at the list |
| Tasks (`kio/task.rs`) | slab, three-level bitset of wakes, nudge flag, registered parent, batches | wake, insert, remove, poll, poll_passes | wakes land in the middle of the sweep |
| Log (`kio/log.rs`) | chain of segments, base, end, head; readers' hints; deferred frees | push, evict, read, get, drop | lock-free readers of memory the writer frees |
| Queue (`kio/queue.rs`) | items, closed flag, two waiter lists | push, pop, their polls, close | wakes are delivered after the unlock |
| Bridge (`kio/bridge.rs`) | waiters, held and deferred flags around a foreign handle | poll, lock, wake, release | wakes arrive on the thread that holds the lock |
| Clock (`kio/clock/`) | deadlines, their owner | sleep, reset, advance | not modelled yet |
| Wake gates (`net/util/wake.rs`, `util/idle.rs`) | a mark per queued track name; a flag per parked read | wake, popped; parked, start, finish, disarm | a wake lands between clearing the mark or the flag and looking |
| Route layer (`net/route/`) | per identity: routes heard, distance, what each neighbour was told, ENDs without an echo, a seqno request | connect, disconnect, route, request, echo, goaway, bump | every node acts on what its neighbours said a while ago |
| rest of `rs/moq-net` | tracks, groups, broadcasts, origins, sessions | | built from the above; not modelled yet |
| media, gateways, relay, bindings, `js/` | | | I/O, formats and a second implementation |

`PROJECT.json` lists every part, with the reason where one is not modelled, and the hazards found
in the code, each at its line.

### How the parts interact

A handle owns a channel and a pair of counts. A channel owns three waiter lists. A task polls
channels, queues, logs' channels and bridges with one waiter, kept in a `Park` between polls. A
task set is itself polled by a task: it gives each child a waiter that marks the child's bit and
wakes the set's owner. `Handles` is therefore composed with `Channel` (it extends the module and
conjoins the counts to the channel's steps). `Channel` and `WaiterList` both have the tag
protocol: `WaiterList` has the list in full (slots, probing, growth, several lists competing for a
waiter's records), `Channel` has it reduced to a set of entries, interleaved with the lock-free
test that depends on it.

A front in `net/model/origin.rs` serves the tracks of a broadcast from one task. Each track has a
waker that pushes the track's name onto a kio queue, and the front polls that queue. `Wakes`
therefore extends `Queue` and uses its push, pop, wake and cancel steps. `Router` has no clock, no
task and no lock: it is a state and a function from inputs to messages, so it is written as
operators on a node's state, and `Mesh` puts nodes and sessions around it, as the simulated network
of the repository's own tests does.

## The modules

| Module | Models | State and actions |
|---|---|---|
| `Channel` | `channel.rs`, `watch.rs`, the polls of `producer.rs` and `consumer.rs` | each process has a kind: a writer, or a task that polls, watches, polls for write access, waits for the closure or for demand. Every atomic load, store and lock is one action: `Repoll`, `RepollTag`, `Judge`, `Park`, `ParkVersion`, `Register`, `Sync`, `Check`; `Publish`, `Unlock`, `WakeTake`, `WakeSync`, `WakeOne` |
| `ChannelProofs` | | the inductive invariant of `Channel`, and the theorems |
| `Handles` | `producer.rs`, `consumer.rs`, `weak.rs` | extends `Channel` by the counts and by one action for each locked or atomic step of a clone, drop, mint or upgrade |
| `HandlesProofs` | | that the handles only take the channel's steps, and the invariant of the counts with its theorems |
| `WaiterList` | `waiter.rs` | `Register`, `Record`, `Push`, `Parked`, `TakeAndWake`, `Clear`, and `Park::hold` as `HoldSame` and `HoldFresh` |
| `Registry` | what a waiter list promises | who registered stays parked until a drain, which wakes all |
| `WaiterProofs` | | the invariant of a list and its records, and that `WaiterList` implements `Registry` |
| `Tasks` | `task.rs` | the steps of a wake on any thread (`Wake`, `MarkSummary`, `MarkReady`, `SwapPending`, `CloneParent`, `WakeParent`) and of the owner's poll (`Begin` to `Release`, and the pass from `Rearm` to `PassDone`) |
| `TasksProofs` | | the invariant of a task set, its bitset and its slab, and the theorems |
| `Log` | `log.rs` | the writer's steps, the reader's `Pin` to `WalkNext`, and `Collect` for the external epoch collector |
| `Queue` | `queue.rs` | one action for each critical section, `Wake` for what follows it |
| `Wakes` | `net/util/wake.rs`, `util/idle.rs`, the ready loop of `model/origin.rs`, the gated reads of `model/track.rs` | threads that change a resource and wake its waiters (`Change`, `WakeTrack`, `PushName`, `Record`, `WakeTask`), the front (`Assign`, `Query`, `Park`, `PopName`, `Popped`, `Look`, `Revisit`, `Handle`, `Forget`) and a reader (`PollRead`, `Start`, `Read`, `Finish`, `Turn`, `Move`, `Widen`) |
| `WakesProofs` | | the invariants of the queue and of the gates, and the theorems about both |
| `Router` | `net/route/mod.rs` | operators on one node's state for one identity: `Selected`, `Advertise`, `Requests`, `Update`, and one operator for each handler |
| `Mesh` | the network of `net/route/tests/mod.rs` | nodes, sessions, and requests and echoes that overtake routes; `Connect`, `OpenStream`, `Close`, `Notice`, `Exit`, `Drain`, `Bump`, `TakeRoute`, `TakeRequest`, `TakeEcho` |
| `MeshInv`, `MeshProofs` | | what `Update` keeps and what it leaves owed, and the invariant of a session; the steps of a network and the theorems |
| `Bridge` | `bridge.rs` | the polls and locks of the handle and the wakes of its sources; the handle is external |
| `BridgeProofs` | | the inductive invariant of `Bridge`, and the theorems |
| `MC*` | | instances for TLC |

Definitions with `Mutant of X` above them are plausible mistakes in `X`. They are in no
specification; each shows that a property fails when the code is changed that way.

## What is abstracted

- Memory is sequentially consistent. The orderings in the code are argued in its comments, not
  checked here.
- A value is a member of a small set, and a predicate the set of values that satisfy it. An item
  or an entry is the number of its push.
- The version of a channel is a natural number, not 64 bits: it wraps after 2^63 publishes. The
  round of a tag keeps its wrap (`Rounds`), since the code handles it.
- No-op waiters are left out: they register nowhere and nobody sleeps on one.
- In `Log`, the push is its reservation followed by its write, the segments one eviction passes
  are handed to the collector in one step, and the heap accounting is left out. The collector
  runs a deferred call at any time after the pins that were there when it was deferred.
- In `Tasks`, batches do not nest and tasks do not panic. The owner inserts and removes tasks in its
  poll or between two polls, whenever nothing borrows the set.
- In `Wakes`, what a track or a read depends on is a resource with a count of changes, looked at
  and parked on in one step: that this is how a channel behaves is `Channel`. There is one track
  name, assigned again after it was forgotten. A waker taken before its track was forgotten is
  still woken. A track always depends on its demand; `Query` is `Action::Query` or `Action::Splice`,
  which give it a query or a copy it has not looked at, and `Park` is `Action::Park`,
  `Action::Finish` or `Action::Abort`, which take them away. A source that leaves takes a query away
  too, without queueing the track; that only shortens what is watched, and is left out.
- In `Handles`, `Producer::poll`, which hands out write access, is left to `Channel` (kind
  `produce`); the other polls run beside the handles.
- In `Router`, one identity stands for all: identities share no route state. The announcements
  that ride on a route never influence it and are left out, and so is `collect`, which the design
  allows only once no route is left. A scoped link, which renames an identity, is left out.
  `disconnect` updates the identities the neighbour had a part in (`Touched`); a neighbour that
  only filed or heard announcements of one is, for its routes, one that had none.
- A scenario of `Mesh` starts in a settled network: the nodes hold what their neighbours advertised
  at the distances it names, and nothing is in flight.
- In `Mesh`, a restarted origin declares a fresh identity, so the old one has no origin any more.
  A close loses what is in flight on the session; its two ends notice it separately.
- In `Mesh`, a request is taken in the session's order, as by the simulated network, which queues
  requests with the routes, or ahead of routes sent before it: the wire has requests on the stream
  of the echoes (`AnnounceReply` in `net/lite/announce.rs`), though no session drives the route
  layer yet. A request that routes sent after it overtake is not modelled.
- In `Bridge`, the handle has units of progress to hand out, remembers one waker, and may yield.

## The runs

| Run | Instance | Checks |
|---|---|---|
| `channel` | 1 writer, 1 task watching the value, 1 waiting for the closure | `NoLostWakeup`, `NoSleepWhileReady`, `HoldsProvesParked`, `NoLostClose`, `ClosedIsFinal`, `OnlyCloseWakesClosed`, `Delivered` |
| `handles` | 2 threads with up to 2 handles of a kind, 1 task watching the demand | `ClosedByLastDrop`, `IdleStaysUnwanted`, `TeardownSpares`, `NoLostDemand` |
| `handles_demand` | the same with 1 handle of a kind | `ClosedBeforeUnwanted`, violated: see below |
| `waiter_list` | 2 lists, 2 tasks, 3 waiters with 1 record each | `RecordProvesEntry`, `NoDuplicates`, and the refinement `ImplementsRegistry` |
| `waiter_growth` | 1 list, 3 tasks, 6 waiters | `GrowthBounded` |
| `tasks` | 1 waking thread and the owner's, 3 insertions into 2 slots that share a word, a chunk, or a bit of the top word; with the last the set moves between 2 owners | `NoLostWake`, `OwedIsMarked`, `SlabConsistent`, `LeadRotates` |
| `tasks_live` | 1 thread, 2 words in one chunk | `Served` |
| `log` | 2 readers, 3 indices, 2 segments, the second of 1 or 2 | `MemorySafe`, `DroppedExactlyOnce`, `WriterFinds`, `AnswersTrue` |
| `queue` | the queue alone: 3 tasks, capacity 2, 4 pushes; a front: 2 resources that 2 other threads change twice each, 2 assignments of the track and 1 action on it; a reader: the same resources and threads, 2 reads, 2 tasks to read from | `TypeOK`, `NoLostWakeup`, `Orderly`, `Resolves`; `NeverStranded`, `QueuedOnce`; `NoLostRead`; `Attended` |
| `bridge` | 2 tasks, 1 source, 2 units of progress | `NoLostWake`, `NoWakeUnderLock`, `Resolves` |
| `mesh` | 3 nodes in a triangle and a pair of nodes, in 8 scenarios of links and faults | `LoopFree`, `DistanceKept`, `NothingOwed`, `NoInflation`, `Converges` |
| `mesh_count` | the pair, with the identity about to be retired | `NoCountToInfinity`, violated: see below |

Where a module has a type invariant that no run lists, it documents the variables; the one of
`Channel` is proved.

The run of `Wakes` is the run of `Queue`: its initial states pick a mode, the queue with tasks that
call it at will, a front, or a reader, and the properties of the queue are checked in all of them.

What the runs show: no wake is lost between judging and parking, between a wake
and the sweep, between a push and a park, or under a bridge's lock; the lock-free shortcuts (the
tag test of a channel, the hint of a log's reader) never act on something drained or freed; the
counts of handles decide closure and demand exactly; what is closed stays as it is; slots, entries
and memory are handed out and taken back once; and under fair scheduling whoever can go on does.
A teardown of an idle channel and a consumer that was promised an open one exclude each other.
No change is stranded behind a mark or a gate, and a burst of wakes queues a name once; the names
that forgotten tracks left in the queue are bounded by the assignments made, not by the tracks
there are. Selected routes never form a circle, whatever their neighbours have not heard yet; they leave
no request stranded and nothing owed; and a network that is left alone finds its routes and forgets
its dead ones.

### The bounds, and why they are enough

Every interleaving these protocols have to survive is between one task that parks and one or two
others that publish, wake or close; a third actor matters where a second drain overtakes the
first, or where a waiter is retired while another is parked, and the runs for those have it.

- `MaxVersion` leaves room for two publishes and the closure, and in `handles` for the closure alone:
  a publish adds 2 to the version, a closure 3.
- `Rounds` is 2, so the round of a tag wraps after every second drain and a new serial is drawn.
- `PARKED` is 1, so a waiter on two lists always runs out of records.
- `INLINE` is 1, so a list spills with its second entry.
- `WORD_BITS` and `CHUNK_WORDS` are 1 or 2. Between them the runs have two slots in one word, two
  words in one chunk, and two chunks under one top bit; `tasks_live` has the second alone.
- `FIRST_SEGMENT` is 1 and `MAX_SEGMENT` 2, so that segments are evicted whole and in part; two
  segments are enough for a chain, and for a chain that ends short because the log was emptied in
  between.
- `channel` has as many waiters as tasks, so a waiter is never retired for a fresh one there:
  `waiter_list` has that in full, and the theorems about `Channel` have it for any number. The
  wait for demand is in `handles`. The poll for write access (kind `produce`) is in no run, since
  a second process that publishes makes tens of millions of states of this one; the theorems
  cover it.
- In `Wakes` two resources are enough for a pass that stops at the first, and two assignments for a
  name left behind by the first; the third change of a resource would find every flag as the second
  did. `MaxActions` is 1, so a track is given a query or a copy, or loses what it has, once; that a
  copy is taken away after it was given is covered by the proof only.
- In `Mesh` three nodes are the smallest network in which a route can go around, and the direct
  link is dearer than the way through the third node, so that losing the middle makes the direct
  one infeasible first and asks for a newer seqno. The scenarios bound the disruptions, in any
  order and at any time: a flap with a seqno change, on plain links, with a leaf that forwards
  nothing, and with uplinks; two closes and a reconnect; a restart and two reconnects; a drain, a
  close and a seqno change with a preferred link; and the last seqno (`MAX` is 3), on the triangle
  and on the pair. `MaxMetric` is 6, more than any path and less than two times around.
- A watch that is reset before every poll is a plain poll, so no run has a task of kind `poll`.
- `Unbounded` is `FALSE` in the runs of `Queue`; the theorems cover both.

Symmetry is used for waiters, lists and readers, in runs without liveness only. Deadlock is checked
in every run but those of `Mesh`: a network without disruptions left, and with nothing in flight,
may stop.

### Fairness

- The executor polls a task that was woken, and a thread inside a call goes on: weak fairness.
- A mutex that others take and release without end is still acquired: strong fairness on the steps
  that take a lock (`TakesLock` and `WakeTake` in `Channel`, `Lock` in `Bridge`). The mutexes of
  the standard library do not promise it, but the code could not progress without it.
- `Served` needs that the owner's poll polls its set and returns, and that tasks return. Strong
  fairness stands for "in the end", since wakes interleave with every one of these steps.
- `Resolves` of `Bridge` needs that the handle does not yield for ever with progress at hand.
- In `Wakes`, a thread wakes what it took and a woken task is polled; nobody has to change a
  resource, to assign a track, or to poll a task that was not woken.
- In `Mesh`, sessions deliver, closes are noticed and streams are opened; no link has to come back.
- `Delivered` is checked while nobody watches the demand (`FairSpec` of `Channel`).
- Nothing is assumed of writers, pushers or sources beyond finishing what they began.

### The findings

`handles_demand`: `poll_wanted_changed` loads the closed flag and then the count of consumers,
without a lock around the two. The comment at `kio/consumer.rs:81` says "Closure is checked first,
so a closed channel reports `Closed` from every handle rather than a consumer count that only
dropped because it's dead." When the closure and the drop of the last consumer both fall between
the two loads, the poll reports the demand gone on a channel that was wanted when it closed. The
next poll reports `Closed`.

`mesh_count`: `net/route/mod.rs:1114` drops the distance of an identity once its ROUTE_ENDs were
echoed, and an echo is not ordered against the echoing node's own routes. Retire an identity right
after a link came back: the far node takes the ROUTE_START, advertises the route back, takes the
ROUTE_END and retracts. If its echo arrives first, the near node drops its distance and finds the
advertisement behind the echo feasible, one link cost dearer, and sends it out again. Advertisement
and retraction go around between the two nodes for as long as each echo wins, at a growing metric.
`quest/m2/cluster-routing/routes/README.md:178` says "Retraction is ROUTE_HOLD or ROUTE_END; there is
no count to infinity." No loop forms on the way (`NoRoutingLoops` is proved with the same echoes),
and the chase ends at the latest when the metric overflows: `Converges` holds in `mesh` because the
metric is bounded, there by 6 and in the code by its width.

## The proofs

The theorems hold for every number of processes, tasks, waiters, lists, slots, values, publishes,
drains, sources and changes, and for every capacity; those about handles for every finite set of
processes; those about the route layer for every finite network, every configuration of its links and every number
of disruptions. They assume what the modules state of their constants:

- `ChannelAssumption`, `WaiterListAssumption`, `QueueAssumption`, `BridgeAssumption`,
  `RouterAssumption` and `MeshAssumption`: the types, and that the sentinels are not members of the
  sets.
- `TasksAssumption`: the same, that a word and a chunk have at least one bit, that a budget allows
  at least one poll, and that a set has an owner.
- `SettledAssumption`: a scenario of `Mesh` is settled, no node of it has anything left to tell or
  to ask.
- `HandlesAssumption`: the first producer belongs to a writer, the processes are finitely many
  (a count is the size of a set), and a process can hold a handle.
- `WakesAssumption`: a front looks at every resource in its order, the demand last, there is a resource, and the
  queue of names is unbounded, as the code's is, or has room for every assignment of the model.

A count is proved from facts about finite sets, and those come from the library. The modules that
count (`HandlesProofs`, `WaiterProofs`, `TasksProofs`, `WakesProofs`, `MeshInv`) name what they
need of them in a definition `Counting`, take it as an assumption of their lemmas, and prove it at the end (`Counts`, in
`MeshProofs` for the mesh), so that no theorem rests on it.

### Channel

`NoLostWakeup` is not inductive: whether the lock-free test may skip the registration depends on
what the tags promise, and that depends on who holds which lock. The invariant `IInv` of
`ChannelProofs` has a part for each link of that chain:

1. `LockInv`: which program counters hold which lock, and that only a drain has waiters to wake.
2. `VersionInv`, `KindInv`: a `Mut` exists on an open channel only, nothing seen is ahead of the
   version, and each task has a waiter of its own.
3. `TagInv`: a tag is ahead of every record, and a live waiter with the current tag is in the list.
4. `MirrorInv`: the mirror is the tag, except inside the two critical sections that change it; a
   waiter that matches the old mirror in a drain is in that drain's snapshot.
5. `SleepInv`: a task that parks is on the list, taken, or woken, and when the version has moved, a
   drain is due.
6. `JudgeInv`: what a predicate rejected at a version, it rejects while the version stands.
7. `CloseInv`, `ApartInv`: the same for the closed list, which only a closure drains.

Each part is proved inductive on top of those before it, in a lemma with one step for each action.
What an action does to the variables of one process is said once, in a lemma of its own, and the
steps cite that instead of the action; `Keeps` names what the many actions have in common that
touch no list. The theorems are `TypeCorrect`, `WakeupSafety`, `SleepSafety`, `HoldsSafety`,
`CloseSafety`, and the action properties `ClosedForGood` and `ClosedUndisturbed`.

### Handles

The handles' actions are written on top of the channel's, so the lemma `HandlesAreChannel` says no
more than that each takes a step of `Channel` or leaves the channel alone. It carries over what is
proved of `Channel` for every kind of process, with `HandlesNoLostWakeup` as one instance.

The counts need an invariant of their own, `HInv`, on top of the channel's:

1. `OpInv`: where in the channel a process is in each handle operation. An operation that has taken
   the lock and not yet moved its count is still reading.
2. `CountInv`: each count is the number of handles held, a producer being dropped included until its
   process, alone under the lock, takes it off (`HeldMore`, `HeldLess`).
3. `LastInv`: whoever finds itself the last producer finds the channel open and without producers
   until it has closed it, and nobody else leaves a channel without producers open.
4. `ParkInv` (in `ChannelProofs`): a task that watches the demand is on the consumer list, taken or
   woken, and a closure it has not seen is about to drain that list.
5. `TornInv`: a channel torn down through `write_unwanted` is closed, and nobody has a consumer from
   `try_consume`; whoever was given one still has one. It rests on `IdleStaysUnwanted`: the guard of
   the teardown keeps the count at zero, so nobody can have one when it closes the channel, and
   after that `try_consume` finds the channel closed under the same lock.
6. `DemandInv`: a demand that a task on that list was not told of is to be announced, by the process
   that minted the first consumer or dropped the last.

`IdleSafety`, `TeardownSafety`, `LastDropSafety` and `DemandSafety` are the four safety properties.
Most actions disturb none of 3 to 6, so `QuietStep`, `ProducerQuiet` and `ConsumerQuiet` say once
what each action leaves alone, and `LastStep`, `IdleStep`, `TornStep` and `AnnounceStep` have a case for each of the others.

### Waiter lists

`RecordProvesEntry` rests on two facts about tags that no single list can see. The invariant
`ListInv` of `WaiterProofs` states them:

1. `TagInv`: the serial in a list's tag was drawn for this list alone, and a list without a tag has
   never been used.
2. `RecInv`: a record is of a serial already drawn and of no round its list has yet to reach. A new
   round, or the new serial after the last round, is therefore one that no waiter has a record of,
   which is why a drain need not touch the waiters.
3. `CallInv`: what a registration between its lookup, its record and its push has done so far; its
   waiter is live and has the record, or has run out of records.
4. `DeadInv`, `HeldInv`: a dropped waiter has no record, and a waiter belongs to one task.
5. `SingleInv`: a waiter that never ran out of records is at most once in a list, and only with its record.

`RecordSafety` and `SingleSafety` follow. A waiter parked on more lists than it has records has none for
the last, and is there once for each registration, as the repository's own test asserts
(`kio/waiter.rs:661`); `SingleSafety` is about the others. `Refinement` maps the parked waiters of `Registry` to the
live entries of the lists: a push parks one, a drain wakes all, and a probe that reuses a slot, a
sweep, a growth or a retired waiter is a stutter, since only entries of dropped waiters go.

### Task sets

A wake sets three bits from the bottom up, and then a flag and a parent's waker; a pass takes them
from the top down. `NoLostWake` is about a set that nobody is polling; `IInv` of `TasksProofs` says
for every level that what is set below is announced above:

1. `OwedIsMarked`: the bit of a task that is owed a poll is set, or the pass holds it, or its wake
   has yet to set it.
2. `BitsInv`: a set bit has its word marked (`WordDue`), a marked word its chunk (`ChunkDue`), a
   marked chunk is covered by the flag (`TopDue`); or whoever set the lower one is about to mark the
   upper, or the pass has taken the upper and not yet the lower.
3. `ParentInv`: a flag that is up reaches the owner (`Nudged`): it was woken, it is about to be, or
   it is about to re-arm; and the registered parent is the owner whenever the set is not polled.
4. `PassInv`: what a pass holds, and when.
5. `SlabInv`: tasks and occupied slots correspond one to one, and so do free slots and places in
   the free list.
6. `LedInv`: the pass starts past the slot that led the last one, reckoned by the slots there were
   then (`width`).

The theorems are `WakeSafety`, `OwedSafety`, `SlabSafety` (the sizes of `SlabConsistent` are counted
from the two correspondences) and, as an action property, `RotationSafety`. The comment at
`kio/task.rs:107` says that the rotation keeps wake-all resources from favouring low-numbered tasks.
There is one case in which a slot leads twice in a row with others waiting, and `LeadRotates` names
it: the slot was the last one when it led, so `next` went back to 0, and slots were added behind it
before the next pass. If no lower slot is ready it leads again, ahead of the new ones, and then
moves `next` past itself.

### Queue and the wake gates

`IInv` of `WakesProofs` adds to the properties that only a task that is waking others holds waiters
it took. `TypeCorrect` includes the capacity; `WakeupSafety` and `OrderSafety` are `NoLostWakeup`
and `Orderly`. A step of `Wakes` that touches the queue is a step of `Queue`, so `GateQueueSafety`
has the same three for the gates.

`NeverStranded` is about a front between two passes only. `WInv` follows it through the pass:

1. `MarkInv`: the name of a marked track is queued, about to be, or just popped, and nothing else.
2. `LookInv`: while the front looks, each resource the track depends on was seen as it is and has the
   track's waker parked, or is still to be looked at, or the front will look again. An action that
   adds to them queues the name (`Acts`), so the front will. Popping clears the mark before
   the look, which is what lets a wake that lands in between queue the name again.
3. `OnceInv`: the names queued, being pushed and just popped are no more than the marks, which gives
   `QueuedOnce` (`OnceSafety`) and that a push never finds the queue full.
4. `FreshInv`: nothing is marked or parked for an assignment yet to come.
5. `ReaderInv`: a gate that recorded no wake since it last looked is parked on what has not changed,
   or its wake is on the way; one that recorded a wake passes it on to its task. `NoLostRead`
   (`ReadSafety`) follows.

### Bridge

`NoLostWake` speaks of a task between polls. `IInv` of `BridgeProofs` has what happens before:
`LockInv` ties the lock of the handle, its mark and a deferred wake to the place of the task that has
the lock, and says that waiters are taken only on the way out; `PollInv` says who is inside
`Bridge::poll`; `WaitInv` says that the waiter of a pending poll is parked or taken from its
registration on, and that once the handle has answered, something is left that wakes it. The
theorems are `WakeSafety` and `WakesUnlocked`.

### Router and Mesh

`LoopFree` is about the routes the nodes hold, but what keeps them acyclic is a promise between the
two ends of a session. The invariant `NetInv` of `MeshInv` states it: for a session that is up,
`Agree` relates what a node remembers of what it told its neighbour with the messages in flight and
with what the neighbour holds:

1. the ENDs that await an echo are those in flight and the echoes in flight, no more and no fewer;
2. neither the neighbour's entry nor a finite advertisement in flight is feasible against the
   node's own distance;
3. when the node remembers having told nothing, an END is in flight behind everything the
   neighbour holds or is to receive.

On a session that is down at either end nothing is in flight. From 1 and 3 follows that a node with
nothing told and nothing unechoed left no trace at its neighbours, so that dropping the distance
keeps 2: this is where echoes that overtake routes would hurt, and they do not.

`MeshInv` proves first what `Update` does to one node (selection picks one of the usable routes, the
distance only improves until it is dropped, what was told and what was sent change together), then
that sending, taking and echoing one message keep `Agree` (a request from anywhere in the queue), and
that a whole update keeps `NetInv` (`UpdatePreserves`). `MeshProofs` has one lemma for each action,
and the theorems.
`DistanceOutlivesAdverts` is part 2. For `NoRoutingLoops`, a usable next hop has a strictly nearer
distance than the node itself (`HopIsNearer`), and a finite set cannot have a nearer member for
each of its members (`NetLoopFree`).

`NothingOwed` and `NoInflation` need a second invariant, `Calm`, on top of `NetInv`:

1. `Modesty`: no distance, entry or advertisement in flight has a seqno the origin did not have
   (`Low`, `Modest`), and no request, pending or in flight, is for more than one past that. A starved
   node asks for one past its own distance, and a distance is recorded from a route.
2. `AllQuiet`: every node is `Quiet`: its distance covers what it tells, each watching neighbour was
   told what it is to be told, a drained node has no distance, and its request stands.

That `Update` leaves a node quiet (`UpdateQuiet`) is where the order of its parts matters. Recording
the selected route's distance may make every other route infeasible; but the selected one stays
usable and was the minimum of a strict order (`RanksDiffer`, `BestIs`), so it is selected again
(`RecordKeepsSelected`), and whether the node is live comes out the same. A request is asked of the
same neighbour the second time, so it is not sent again (`RequestsStable`). A quiet node's update is
the identity (`QuietUpdate`), which is `NothingOwed`. The theorems are `SeqnoNotInflated` and
`UpdateSettles`.

### Only model-checked

- Liveness (`Delivered`, `Served`, `Attended`, `Converges` and both `Resolves`): fairness is out of
  the prover's reach.
- `GrowthBounded` of `WaiterList`: its bound, twice the other tasks in powers of two, holds as long
  as no waiter runs out of records, and is about the probes of many registrations together.
- `Log`: `MemorySafe`, `DroppedExactlyOnce`, `WriterFinds` and `AnswersTrue`.

## Not modelled

`Shared` and `Lock` have no protocol beyond the channel's and a mutex; `Pending` and the `coop`
budget are sequential. Of the route layer, the announcements and the scoped links are not modelled.
The clock and the rest of `moq-net` (groups, tracks, broadcasts, origins, sessions, the ledger, the
request queue, GOAWAY) are not modelled yet. The wire formats, media containers, codecs, gateways,
the relay's configuration and the language bindings are data handling and I/O. The TypeScript
packages are a second implementation and do not use kio.

The modelled code is a small share of the repository, which has some 775 thousand lines in 1184
files. It was chosen for what everything else waits on (kio), for what decides whether a woken task
looks again (the gates), and for what has to agree between machines (the routes). Most of the rest
is media formats, encodings, tests, bindings and applications, with no state that several actors
share.

## Plan

1. The announcements of the route layer: views, floors and certification on top of `Router`.
2. The clock: `Deadlines` and `Sleep` (an owner that parks against `advance` and `set`), then
   `Interval`'s schedule as a function against a reference definition.
3. `moq-net`, from the leaves: the ledger of accounted groups against a set of sequences, the tail
   of a subscription, the request queue and the weak cache, GOAWAY and the drain of a session.
4. The group, track and broadcast model on top of `Handles` and `Log`, with an abstract
   specification of what a subscriber is owed, and the choice of routes in an origin.
5. Proofs: `MemorySafe` and `DroppedExactlyOnce` of `Log`.

## Running

    tlc -config MCChannel.cfg MCChannel
    tlc -config MCMesh.cfg MCMesh
    tlapm ChannelProofs.tla
    tlapm MeshProofs.tla
