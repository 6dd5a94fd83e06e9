------------------------------- MODULE Tasks -------------------------------
(***************************************************************************)
(* The task set of kio (rs/kio/src/task.rs): a slab of tasks its owner     *)
(* polls, and a three-level bitset in which any thread marks the tasks to  *)
(* poll.  A wake sets the bit of its slot and marks the levels above it    *)
(* only when it makes them nonzero; a pass clears each level before it     *)
(* takes the one below.  The wake of the owner is deduplicated by one flag *)
(* and, inside the owner's own poll, held back until that poll returns.    *)
(*                                                                         *)
(* Every step is one atomic access to shared memory; the owner's thread    *)
(* wakes tasks by the same steps as any other thread.                      *)
(***************************************************************************)
EXTENDS Naturals, FiniteSets, Sequences

CONSTANTS
    Wakers,       \* threads that wake tasks
    Self,         \* the thread of the owner
    Owners,       \* identities of the wakers the owner polls with
    None,
    Shapes,       \* widths of the index, with the owners and passes of a poll there are
    MaxSlots,     \* bound on the slab
    MaxTasks      \* bound on the generation, so on the tasks ever inserted

ASSUME TasksAssumption ==
    /\ Self \notin Wakers
    /\ None \notin Owners /\ None \notin 0 .. MaxSlots - 1 /\ Owners # {}
    /\ \A s \in Shapes : /\ s.word_bits \in Nat \ {0} /\ s.chunk_words \in Nat \ {0}
                         /\ s.owners \subseteq Owners /\ s.owners # {}
                         /\ s.budget \in Nat \ {0}
    /\ MaxSlots \in Nat /\ MaxTasks \in Nat

VARIABLES
    shape,        \* never changes
    children,     \* the slab: the generation of each slot's task, 0 when free
    free,         \* the stack of free slots
    generation,
    bits,         \* the slots whose wake bit is set
    summary,      \* the words marked in their chunk's summary
    ready,        \* Shared::ready: the marked chunks, modulo the word's width
    pending,      \* Shared::pending
    parent,       \* Shared::parent
    next,         \* the slot that leads the next pass
    opc,          \* where the owner is
    owner,        \* the waker the owner's poll runs with
    polled,       \* this poll of the owner has polled the set
    batch,        \* the owner's poll runs in Waiter::batch
    held,         \* Polling::held has the set
    left,         \* the passes poll_passes may still run
    chunks,       \* chunks the pass has yet to visit
    words,        \* words of the current chunk it has yet to take
    scratch,      \* the snapshot's slots it has yet to run
    from,         \* next when the pass began
    advanced,
    current,      \* the slot being polled
    woken,        \* the owners the executor owes a poll
    wpc, wslot,   \* where each thread is in SlotWaker::wake_by_ref, and for which slot
    target,       \* the parent it cloned
    led, width,   \* history: the slot that led the last pass, and the slots there were then
    owed,         \* history: the slots woken since their task was polled last
    alive         \* history: the tasks inserted, neither finished nor removed by their key

slabVars == <<shape, children, free, generation, alive>>
indexVars == <<bits, summary, ready>>
parentVars == <<pending, parent, held, woken>>
orderVars == <<next, led, width>>
ownerVars == <<opc, owner, polled, batch, left, chunks, words, scratch, from, advanced, current, orderVars>>
wakeVars == <<wpc, wslot, target>>
vars == <<slabVars, indexVars, parentVars, ownerVars, wakeVars, owed>>

Threads == Wakers \cup {Self}
Slots == 0 .. MaxSlots - 1
slots == Len(children)

WORD_BITS == shape.word_bits      \* slots in a word, and bits in the top word
CHUNK_WORDS == shape.chunk_words  \* words in a chunk
Budget == shape.budget            \* the passes poll_passes may run

Word(s) == s \div WORD_BITS
Chunk(s) == Word(s) \div CHUNK_WORDS
WordChunk(w) == w \div CHUNK_WORDS
Top(c) == c % WORD_BITS

\* The chunks the slab has grown.
Chunks == {Chunk(s) : s \in 0 .. slots - 1}

\* A pass visits the chunks bit by bit of the top word, a bit's chunks in order.
Visit(C) == CHOOSE c \in C : \A d \in C : Top(c) < Top(d) \/ (Top(c) = Top(d) /\ c <= d)

\* It runs next .. slots, then wraps through 0 .. next.
Rotated(s) == IF s >= from THEN s - from ELSE s + slots - from
Lead(S) == CHOOSE s \in S : \A r \in S : Rotated(s) <= Rotated(r)

TypeOK ==
    /\ children \in Seq(0 .. MaxTasks) /\ slots <= MaxSlots
    /\ free \in Seq(Slots)
    /\ generation \in 0 .. MaxTasks
    /\ bits \subseteq Slots /\ scratch \subseteq Slots /\ owed \subseteq Slots
    /\ summary \subseteq {Word(s) : s \in Slots} /\ words \subseteq {Word(s) : s \in Slots}
    /\ chunks \subseteq {Chunk(s) : s \in Slots}
    /\ ready \subseteq 0 .. WORD_BITS - 1
    /\ {pending, polled, batch, held, advanced} \subseteq BOOLEAN
    /\ parent \in Owners \cup {None}
    /\ owner \in Owners
    /\ opc \in {"idle", "turn", "rearm", "index", "sweep", "run", "polling", "release"}
    /\ left \in 0 .. Budget
    /\ {next, from, current} \subseteq Nat
    /\ led \in Slots \cup {None} /\ width \in 0 .. MaxSlots
    /\ woken \subseteq Owners
    /\ wpc \in [Threads -> {"idle", "summary", "ready", "parent", "clone", "wake"}]
    /\ wslot \in [Threads -> Slots \cup {0}]
    /\ target \in [Threads -> Owners \cup {None}]
    /\ alive \subseteq 1 .. MaxTasks

Init ==
    /\ children = <<>> /\ free = <<>> /\ generation = 0 /\ alive = {}
    /\ bits = {} /\ summary = {} /\ ready = {}
    /\ pending = FALSE /\ parent = None /\ held = FALSE
    /\ shape \in Shapes
    /\ owner \in shape.owners
    /\ woken = {owner}
    /\ opc = "idle" /\ polled = FALSE /\ batch = FALSE
    /\ left = 0
    /\ chunks = {} /\ words = {} /\ scratch = {} /\ from = 0 /\ advanced = FALSE /\ current = 0
    /\ next = 0 /\ led = None /\ width = 0
    /\ wpc = [p \in Threads |-> "idle"]
    /\ wslot = [p \in Threads |-> 0]
    /\ target = [p \in Threads |-> None]
    /\ owed = {}
-----------------------------------------------------------------------------
(* SlotWaker::wake_by_ref and Shared::wake_parent, on any thread.          *)

Goto(p, at) == wpc' = [wpc EXCEPT ![p] = at]

\* The owner's thread runs other code only between the steps of its own polls.
Running(p) == p = Self => opc \in {"turn", "polling"}

\* fetch_or on the word: a bit already set means that the owner was nudged.
SetBit(p, s) ==
    /\ bits' = bits \cup {s}
    /\ owed' = owed \cup {s}
    /\ wslot' = [wslot EXCEPT ![p] = IF s \in bits THEN 0 ELSE s]
    /\ Goto(p, IF s \in bits THEN "idle"
               ELSE IF \E r \in bits : Word(r) = Word(s) THEN "parent" ELSE "summary")

Wake(p, s) ==
    /\ Running(p)
    /\ wpc[p] = "idle"
    /\ SetBit(p, s)
    /\ UNCHANGED <<slabVars, summary, ready, parentVars, ownerVars, target>>

\* Mutant of MarkSummary: the top level is not marked.
MarkSummary_only(p) ==
    /\ wpc[p] = "summary"
    /\ summary' = summary \cup {Word(wslot[p])}
    /\ Goto(p, "parent")
    /\ UNCHANGED <<slabVars, bits, ready, parentVars, ownerVars, wslot, target, owed>>

\* The first wake of a word marks it, and the first one of a chunk goes on to the top.
MarkSummary(p) ==
    /\ wpc[p] = "summary"
    /\ summary' = summary \cup {Word(wslot[p])}
    /\ Goto(p, IF \E w \in summary : WordChunk(w) = Chunk(wslot[p]) THEN "parent" ELSE "ready")
    /\ UNCHANGED <<slabVars, bits, ready, parentVars, ownerVars, wslot, target, owed>>

MarkReady(p) ==
    /\ wpc[p] = "ready"
    /\ ready' = ready \cup {Top(Chunk(wslot[p]))}
    /\ Goto(p, "parent")
    /\ UNCHANGED <<slabVars, bits, summary, parentVars, ownerVars, wslot, target, owed>>

SwapPending(p) ==
    /\ wpc[p] = "parent"
    /\ pending' = TRUE
    /\ wslot' = [wslot EXCEPT ![p] = 0]
    /\ Goto(p, IF pending THEN "idle" ELSE "clone")
    /\ UNCHANGED <<slabVars, indexVars, parent, held, woken, ownerVars, target, owed>>

\* Polling::hold keeps the wake back when this thread is inside the parent's own batch.
CloneParent(p) ==
    /\ wpc[p] = "clone"
    /\ LET hold == p = Self /\ batch /\ parent = owner IN
       /\ Goto(p, IF parent = None \/ hold THEN "idle" ELSE "wake")
       /\ held' = (held \/ hold)
       /\ target' = [target EXCEPT ![p] = IF hold THEN None ELSE parent]
    /\ UNCHANGED <<slabVars, indexVars, pending, parent, woken, ownerVars, wslot, owed>>

WakeParent(p) ==
    /\ wpc[p] = "wake"
    /\ woken' = woken \cup {target[p]}
    /\ target' = [target EXCEPT ![p] = None]
    /\ Goto(p, "idle")
    /\ UNCHANGED <<slabVars, indexVars, pending, parent, held, ownerVars, wslot, owed>>

-----------------------------------------------------------------------------
(* The owner's poll around the set's.                                      *)

\* The owner's thread is between two calls on the set, in its poll.
Turn == opc = "turn" /\ wpc[Self] = "idle"

\* Nothing borrows the set: its owner is between two calls on it, or between two polls.
Unborrowed == opc \in {"idle", "turn"} /\ wpc[Self] = "idle"

\* The executor polls the owner; the set may have moved to another task since.
Begin(k, b) ==
    /\ opc = "idle"
    /\ wpc[Self] = "idle"
    /\ owner' = k
    /\ woken' = woken \ {k}
    /\ batch' = b
    /\ polled' = FALSE
    /\ opc' = "turn"
    /\ UNCHANGED <<slabVars, indexVars, pending, parent, held, wakeVars, owed>>
    /\ UNCHANGED <<left, chunks, words, scratch, from, advanced, current, orderVars>>

\* Tasks::insert queues the first poll the way any wake would; between two polls it is what
\* wakes the owner.
Insert ==
    /\ Unborrowed
    /\ generation < MaxTasks
    /\ \/ free # <<>>
       \/ slots < MaxSlots
    /\ generation' = generation + 1
    /\ alive' = alive \cup {generation + 1}
    /\ IF free # <<>>
         THEN /\ free' = SubSeq(free, 1, Len(free) - 1)
              /\ children' = [children EXCEPT ![free[Len(free)] + 1] = generation + 1]
              /\ SetBit(Self, free[Len(free)])
         ELSE /\ children' = Append(children, generation + 1)
              /\ UNCHANGED free
              /\ SetBit(Self, slots)
    /\ UNCHANGED <<shape, summary, ready, parentVars, target, opc, owner, polled, batch, left>>
    /\ UNCHANGED <<chunks, words, scratch, from, advanced, current, orderVars>>

\* Takes the occupant of slot s out of the slab.
Vacate(s) ==
    /\ children' = [children EXCEPT ![s + 1] = 0]
    /\ free' = Append(free, s)

\* Mutant of Remove: the key's generation is not compared.
Remove_any_generation(s, g) ==
    /\ Unborrowed
    /\ s < slots
    /\ children[s + 1] # 0
    /\ Vacate(s)
    /\ alive' = alive \ {g}
    /\ owed' = owed \ {s}
    /\ UNCHANGED <<shape, generation, indexVars, parentVars, ownerVars, wakeVars>>

\* Tasks::remove with the key <<s, g>>: a bit left set stays.
Remove(s, g) ==
    /\ Unborrowed
    /\ s < slots
    /\ children[s + 1] = g
    /\ Vacate(s)
    /\ alive' = alive \ {g}
    /\ owed' = owed \ {s}
    /\ UNCHANGED <<shape, generation, indexVars, parentVars, ownerVars, wakeVars>>

\* The poll returns: a batch delivers what it held, unless the set was polled since.
End ==
    /\ Turn
    /\ polled
    /\ opc' = IF batch /\ held THEN "release" ELSE "idle"
    /\ batch' = FALSE
    /\ UNCHANGED <<slabVars, indexVars, parentVars, wakeVars, owed>>
    /\ UNCHANGED <<owner, polled, left, chunks, words, scratch, from, advanced, current, orderVars>>

\* Mutant of Release: what was held is dropped.
Release_dropped ==
    /\ opc = "release"
    /\ held' = FALSE
    /\ opc' = "idle"
    /\ UNCHANGED <<slabVars, indexVars, pending, parent, woken, wakeVars, owed>>
    /\ UNCHANGED <<owner, polled, batch, left, chunks, words, scratch, from, advanced, current, orderVars>>

Release ==
    /\ opc = "release"
    /\ held' = FALSE
    /\ woken' = IF pending /\ parent # None THEN woken \cup {parent} ELSE woken
    /\ opc' = "idle"
    /\ UNCHANGED <<slabVars, indexVars, pending, parent, wakeVars, owed>>
    /\ UNCHANGED <<owner, polled, batch, left, chunks, words, scratch, from, advanced, current, orderVars>>

-----------------------------------------------------------------------------
(* Tasks::passes and Tasks::pass.                                          *)

\* poll runs one pass, poll_passes up to Budget; either registers the waker first.
Passes(b) ==
    /\ Turn
    /\ parent' = owner
    /\ polled' = TRUE
    /\ left' = b
    /\ opc' = "rearm"
    /\ UNCHANGED <<slabVars, indexVars, pending, held, woken, wakeVars, owed>>
    /\ UNCHANGED <<owner, batch, chunks, words, scratch, from, advanced, current, orderVars>>

\* Re-armed before the sweep, so that a wake landing in it nudges the owner again.
Rearm ==
    /\ opc = "rearm"
    /\ pending' = FALSE
    /\ opc' = "index"
    /\ UNCHANGED <<slabVars, indexVars, parent, held, woken, wakeVars, owed>>
    /\ UNCHANGED <<owner, polled, batch, left, chunks, words, scratch, from, advanced, current, orderVars>>

SwapReady ==
    /\ opc = "index"
    /\ chunks' = {c \in Chunks : Top(c) \in ready}
    /\ ready' = {}
    /\ scratch' = {}
    /\ from' = IF next < slots THEN next ELSE slots
    /\ opc' = "sweep"
    /\ UNCHANGED <<slabVars, bits, summary, parentVars, wakeVars, owed>>
    /\ UNCHANGED <<owner, polled, batch, left, words, advanced, current, orderVars>>

SwapSummary ==
    /\ opc = "sweep"
    /\ words = {} /\ chunks # {}
    /\ LET c == Visit(chunks) IN
       /\ words' = {w \in summary : WordChunk(w) = c}
       /\ chunks' = chunks \ {c}
    /\ summary' = summary \ words'
    /\ UNCHANGED <<slabVars, bits, ready, parentVars, wakeVars, owed>>
    /\ UNCHANGED <<opc, owner, polled, batch, left, scratch, from, advanced, current, orderVars>>

\* Mutant of SwapWord: a word's bits replace what the pass took before.
SwapWord_replaces ==
    /\ opc = "sweep"
    /\ \E w \in words :
       /\ \A v \in words : w <= v
       /\ words' = words \ {w}
       /\ scratch' = {s \in bits : Word(s) = w}
       /\ bits' = {s \in bits : Word(s) # w}
    /\ UNCHANGED <<slabVars, summary, ready, parentVars, wakeVars, owed>>
    /\ UNCHANGED <<opc, owner, polled, batch, left, chunks, from, advanced, current, orderVars>>

SwapWord ==
    /\ opc = "sweep"
    /\ \E w \in words :
       /\ \A v \in words : w <= v
       /\ words' = words \ {w}
       /\ scratch' = scratch \cup {s \in bits : Word(s) = w}
       /\ bits' = {s \in bits : Word(s) # w}
    /\ UNCHANGED <<slabVars, summary, ready, parentVars, wakeVars, owed>>
    /\ UNCHANGED <<opc, owner, polled, batch, left, chunks, from, advanced, current, orderVars>>

\* The snapshot is complete before the first task runs.
Swept ==
    /\ opc = "sweep"
    /\ words = {} /\ chunks = {}
    /\ opc' = "run"
    /\ UNCHANGED <<slabVars, indexVars, parentVars, wakeVars, owed>>
    /\ UNCHANGED <<owner, polled, batch, left, chunks, words, scratch, from, advanced, current, orderVars>>

\* Mutant of Run: next stays at the slot that led.
Run_stays ==
    /\ opc = "run"
    /\ scratch # {}
    /\ LET s == Lead(scratch) IN
       /\ scratch' = scratch \ {s}
       /\ IF children[s + 1] = 0
            THEN UNCHANGED <<opc, current, advanced, orderVars>>
            ELSE /\ opc' = "polling"
                 /\ current' = s
                 /\ advanced' = TRUE
                 /\ next' = IF advanced THEN next ELSE s
                 /\ led' = IF advanced THEN led ELSE s
                 /\ width' = IF advanced THEN width ELSE slots
    /\ owed' = owed \ {Lead(scratch)}
    /\ UNCHANGED <<slabVars, indexVars, parentVars, wakeVars>>
    /\ UNCHANGED <<owner, polled, batch, left, chunks, words, from>>

\* A stale bit of a free slot is skipped; the first task run moves next past itself.
Run ==
    /\ opc = "run"
    /\ scratch # {}
    /\ LET s == Lead(scratch) IN
       /\ scratch' = scratch \ {s}
       /\ IF children[s + 1] = 0
            THEN UNCHANGED <<opc, current, advanced, orderVars>>
            ELSE /\ opc' = "polling"
                 /\ current' = s
                 /\ advanced' = TRUE
                 /\ next' = IF advanced THEN next ELSE (s + 1) % slots
                 /\ led' = IF advanced THEN led ELSE s
                 /\ width' = IF advanced THEN width ELSE slots
    /\ owed' = owed \ {Lead(scratch)}
    /\ UNCHANGED <<slabVars, indexVars, parentVars, wakeVars>>
    /\ UNCHANGED <<owner, polled, batch, left, chunks, words, from>>

\* The task returns, and retires when it is done.
Return(done) ==
    /\ opc = "polling"
    /\ wpc[Self] = "idle"
    /\ IF done
         THEN Vacate(current) /\ alive' = alive \ {children[current + 1]} /\ owed' = owed \ {current}
         ELSE UNCHANGED <<children, free, alive, owed>>
    /\ opc' = "run"
    /\ current' = 0
    /\ UNCHANGED <<shape, generation, indexVars, parentVars, wakeVars>>
    /\ UNCHANGED <<owner, polled, batch, left, chunks, words, scratch, from, advanced, orderVars>>

PassDone ==
    /\ opc = "run"
    /\ scratch = {}
    /\ IF left = 1 \/ ~pending
         THEN opc' = "turn" /\ left' = 0
         ELSE opc' = "rearm" /\ left' = left - 1
    /\ from' = 0
    /\ advanced' = FALSE
    /\ UNCHANGED <<slabVars, indexVars, parentVars, wakeVars, owed>>
    /\ UNCHANGED <<owner, polled, batch, chunks, words, scratch, current, orderVars>>

-----------------------------------------------------------------------------
Waking(p) == MarkSummary(p) \/ MarkReady(p) \/ SwapPending(p) \/ CloneParent(p) \/ WakeParent(p)

Pass == Rearm \/ SwapReady \/ SwapSummary \/ SwapWord \/ Swept \/ Run \/ PassDone

Next ==
    \/ \E p \in Threads : Waking(p) \/ \E s \in 0 .. slots - 1 : Wake(p, s)
    \/ \E k \in shape.owners, b \in BOOLEAN : Begin(k, b)
    \/ Insert
    \/ \E s \in Slots, g \in 1 .. generation : Remove(s, g)
    \/ End \/ Release
    \/ \E b \in {1, Budget} : Passes(b)
    \/ Pass
    \/ \E done \in BOOLEAN : Return(done)

Spec == Init /\ [][Next]_vars

\* The executor polls a woken owner, every poll of the owner polls the set and returns,
\* and so does every task; a wake, once begun, completes.
Fairness ==
    /\ \A p \in Threads : WF_vars(Waking(p))
    /\ \A k \in Owners : WF_vars(k \in woken /\ \E b \in BOOLEAN : Begin(k, b))
    /\ SF_vars(\E b \in {1, Budget} : Passes(b))
    /\ SF_vars(End)
    /\ WF_vars(Release)
    /\ WF_vars(Pass)
    /\ SF_vars(\E done \in BOOLEAN : Return(done))

FairSpec == Spec /\ Fairness

-----------------------------------------------------------------------------
(* Properties.                                                             *)

\* The task that polled the set last has returned, and nothing has woken it since.
Asleep == opc = "idle" /\ owner \notin woken

\* No wake is lost (SlotWaker::wake_by_ref against Tasks::pass, Shared::wake_parent and
\* Polling): while a wake bit is set and the task that polled the set last is asleep, some
\* thread is on its way to mark the bit's word or chunk, or to wake that task.
NoLostWake ==
    Asleep => \A s \in bits : \E p \in Threads :
        \/ wpc[p] = "summary" /\ Word(wslot[p]) = Word(s)
        \/ wpc[p] = "ready" /\ Chunk(wslot[p]) = Chunk(s)
        \/ wpc[p] = "parent" /\ ~pending
        \/ wpc[p] = "clone"
        \/ wpc[p] = "wake" /\ target[p] = owner

\* A woken task is not forgotten: until it is polled its bit is set, or the snapshot of
\* the pass under way has it (task.rs pass takes the bits it clears).
OwedIsMarked == \A s \in owed : s \in bits \cup scratch

\* The slab keeps every task until it finishes or its own key removes it (Tasks::insert,
\* remove, pass): each live task has exactly one slot, the free list is the free slots,
\* each once.
SlabConsistent ==
    /\ \A g \in 1 .. generation : Cardinality({i \in 1 .. slots : children[i] = g}) = (IF g \in alive THEN 1 ELSE 0)
    /\ {free[i] : i \in 1 .. Len(free)} = {s \in 0 .. slots - 1 : children[s + 1] = 0}
    /\ Len(free) = Cardinality({free[i] : i \in 1 .. Len(free)})

\* No task is favored (Tasks::next, "rotated after every nonempty pass so wake-all resources
\* cannot favor low-numbered tasks"): the slot that led a pass does not lead the next one ahead
\* of another task of its snapshot, with one exception.  A slot that led as the last one of the
\* slab turned next back to 0; when the slab has grown past it since, it may lead once more,
\* and then moves next past itself.
LeadRotates ==
    [][~advanced /\ advanced' /\ current' = led
          /\ (\E s \in scratch : s # led /\ children[s + 1] # 0)
       => led + 1 = width /\ width < slots]_vars

\* Every wake reaches its task: a woken task is polled, or goes.
Served == \A s \in Slots : s \in owed ~> s \notin owed
=============================================================================
