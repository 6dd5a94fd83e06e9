---------------------------- MODULE TasksProofs ----------------------------
(***************************************************************************)
(* The task set loses no wake, keeps its slab and favors no task, for any  *)
(* widths of the bitset and any number of threads, owners, tasks and       *)
(* passes.                                                                 *)
(***************************************************************************)
EXTENDS Tasks, TLAPS

PassPCs == {"rearm", "index", "sweep", "run", "polling"}

\* The types, with the shape, the passes left and the parent a thread cloned.
Types ==
    /\ shape \in Shapes /\ TypeOK
    /\ opc \in PassPCs => left \in 1 .. Budget
    /\ \A p \in Threads : wpc[p] = "wake" => target[p] # None

\* What a pass keeps for itself is empty outside of it, and the owner's thread wakes tasks
\* only between two calls on the set, between two polls and inside a task.
PassInv ==
    /\ opc # "sweep" => chunks = {} /\ words = {}
    /\ opc \notin {"sweep", "run", "polling"} => scratch = {}
    /\ opc \notin {"run", "polling"} => ~advanced
    /\ wpc[Self] # "idle" => opc \in {"idle", "turn", "polling"}

\* Someone marks the word w, or the pass has it to take; the same for a chunk and for the
\* top word.
WordDue(w) ==
    \/ w \in summary \cup words
    \/ \E p \in Threads : wpc[p] = "summary" /\ Word(wslot[p]) = w
ChunkDue(c) ==
    \/ c \in chunks \/ Top(c) \in ready
    \/ \E p \in Threads : wpc[p] = "ready" /\ Chunk(wslot[p]) = c
TopDue ==
    \/ pending \/ opc = "index"
    \/ \E p \in Threads : wpc[p] = "parent"

\* Each level of the bitset announces what is set below it.
BitsInv ==
    /\ bits \cup scratch \subseteq 0 .. slots - 1
    /\ \A p \in Threads : wpc[p] \in {"summary", "ready"} => wslot[p] \in 0 .. slots - 1
    /\ \A s \in bits : WordDue(Word(s))
    /\ \A w \in summary : WordChunk(w) \in Chunks /\ ChunkDue(WordChunk(w))
    /\ ready # {} => TopDue

\* A nudge that was given reaches the owner, or the owner is about to re-arm.
Nudged ==
    \/ opc = "rearm" \/ (opc = "turn" /\ ~polled)
    \/ owner \in woken \/ held
    \/ \E p \in Threads : wpc[p] = "clone" \/ (wpc[p] = "wake" /\ target[p] = owner)

\* The task that polled the set last is its parent, and is nudged while pending is set.
ParentInv ==
    /\ opc = "idle" => parent = owner \/ (parent = None /\ owner \in woken)
    /\ opc \in PassPCs \cup {"release"} \/ (opc = "turn" /\ polled) => parent = owner
    /\ held => batch \/ opc = "release"
    /\ opc \in {"idle", "release"} => ~batch
    /\ pending => Nudged

\* Each live task has one slot, each free slot one place in the free list, and the slot
\* being polled is occupied.
SlabInv ==
    /\ \A i \in 1 .. slots : children[i] <= generation
    /\ \A i, j \in 1 .. slots : children[i] = children[j] /\ children[i] # 0 => i = j
    /\ \A g \in 1 .. generation : g \in alive <=> \E i \in 1 .. slots : children[i] = g
    /\ \A i, j \in 1 .. Len(free) : free[i] = free[j] => i = j
    /\ \A i \in 1 .. Len(free) : free[i] < slots /\ children[free[i] + 1] = 0
    /\ \A s \in 0 .. slots - 1 : children[s + 1] = 0 => \E i \in 1 .. Len(free) : free[i] = s
    /\ opc = "polling" => current < slots /\ children[current + 1] # 0

\* A pass starts past the slot that led the last one, in the slab there was then.
LedInv ==
    /\ led # None => led + 1 <= width /\ width <= slots /\ next = (led + 1) % width
    /\ opc \in {"sweep", "run", "polling"} /\ ~advanced => from = (IF next < slots THEN next ELSE slots)
    /\ from <= slots

IInv == Types /\ PassInv /\ OwedIsMarked /\ BitsInv /\ ParentInv /\ SlabInv /\ LedInv

-----------------------------------------------------------------------------
(* What the proofs use of numbers and of sizes.  Counts, below, proves it  *)
(* from the library.                                                       *)

Counting ==
    /\ \A S \in SUBSET Nat : S # {} => \E m \in S : \A k \in S : m <= k
    /\ Cardinality({}) = 0 /\ \A x : Cardinality({x}) = 1
    /\ \A n \in Nat : \A f :
         (\A i, j \in 1 .. n : f[i] = f[j] => i = j) => Cardinality({f[i] : i \in 1 .. n}) = n

-----------------------------------------------------------------------------
(* What the steps have in common.                                          *)

\* A step of p leaves the other threads where they are.
Alone(p) == \A q \in Threads : q # p => wpc'[q] = wpc[q] /\ wslot'[q] = wslot[q] /\ target'[q] = target[q]

\* Where a step of a wake goes.
LEMMA GotoAt ==
    ASSUME TypeOK, NEW p \in Threads, NEW x, Goto(p, x)
    PROVE  wpc'[p] = x /\ \A q \in Threads : q # p => wpc'[q] = wpc[q]
BY Zenon DEF TypeOK, Goto

\* fetch_or marks the slot, and the levels above only when its word was zero.
LEMMA SetBitEffect ==
    ASSUME TypeOK, NEW p \in Threads, NEW s, SetBit(p, s), UNCHANGED target
    PROVE  /\ bits' = bits \cup {s} /\ owed' = owed \cup {s} /\ Alone(p)
           /\ \/ s \in bits /\ wpc'[p] = "idle" /\ wslot'[p] = 0
              \/ s \notin bits /\ (\E r \in bits : Word(r) = Word(s)) /\ wpc'[p] = "parent" /\ wslot'[p] = s
              \/ s \notin bits /\ wpc'[p] = "summary" /\ wslot'[p] = s
           /\ wslot' = [wslot EXCEPT ![p] = wslot'[p]] /\ wpc' = [wpc EXCEPT ![p] = wpc'[p]]
<1>1. /\ bits' = bits \cup {s} /\ owed' = owed \cup {s}
      /\ wslot' = [wslot EXCEPT ![p] = IF s \in bits THEN 0 ELSE s]
      /\ wpc' = [wpc EXCEPT ![p] = IF s \in bits THEN "idle"
                                   ELSE IF \E r \in bits : Word(r) = Word(s) THEN "parent" ELSE "summary"]
  BY Zenon DEF SetBit, Goto
<1>2. /\ wslot'[p] = (IF s \in bits THEN 0 ELSE s)
      /\ wpc'[p] = (IF s \in bits THEN "idle"
                    ELSE IF \E r \in bits : Word(r) = Word(s) THEN "parent" ELSE "summary")
      /\ Alone(p)
  BY Zenon, <1>1 DEF TypeOK, Alone
<1>3. wslot' = [wslot EXCEPT ![p] = wslot'[p]] /\ wpc' = [wpc EXCEPT ![p] = wpc'[p]]
  BY Zenon, <1>1, <1>2
<1>. QED
  BY Zenon, <1>1, <1>2, <1>3

\* The steps of a wake touch nothing of the owner's.
LEMMA WakingEffect ==
    ASSUME TypeOK, NEW p \in Threads, Waking(p) \/ \E s \in 0 .. slots - 1 : Wake(p, s)
    PROVE  /\ UNCHANGED <<shape, children, free, generation, alive, parent, opc, owner, polled, batch, left, chunks,
                          words, scratch, from, advanced, current, next, led, width>>
           /\ Alone(p)
           /\ wpc[p] # "idle" \/ Running(p)
<1>1. /\ UNCHANGED <<shape, children, free, generation, alive, parent, opc, owner, polled, batch, left, chunks,
                     words, scratch, from, advanced, current, next, led, width>>
      /\ wpc[p] # "idle" \/ Running(p)
  BY Zenon DEF Waking, Wake, MarkSummary, MarkReady, SwapPending, CloneParent, WakeParent,
     slabVars, parentVars, ownerVars, orderVars
<1>2. CASE \E s \in 0 .. slots - 1 : Wake(p, s)
  <2>1. PICK s \in 0 .. slots - 1 : SetBit(p, s) /\ UNCHANGED target
    BY Zenon, <1>2 DEF Wake
  <2>. QED
    BY Zenon, <1>1, <2>1, SetBitEffect
<1>3. CASE Waking(p)
  <2>1. /\ \E x : Goto(p, x)
        /\ wslot' = wslot \/ \E x : wslot' = [wslot EXCEPT ![p] = x]
        /\ target' = target \/ \E x : target' = [target EXCEPT ![p] = x]
    BY Zenon, <1>3 DEF Waking, MarkSummary, MarkReady, SwapPending, CloneParent, WakeParent
  <2>2. /\ \A q \in Threads : q # p => wslot'[q] = wslot[q] /\ target'[q] = target[q]
    BY Zenon, <2>1 DEF TypeOK
  <2>. QED
    BY Zenon, <1>1, <2>1, <2>2, GotoAt DEF Alone
<1>. QED
  BY Zenon, <1>2, <1>3

-----------------------------------------------------------------------------
(* One lemma for each part, one step for each action.                      *)

\* A pass clears up behind itself (Tasks::pass), and the owner's thread returns from a wake
\* before it goes on.
LEMMA PassStep ==
    TypeOK /\ PassInv /\ [Next]_vars => PassInv'
<1> SUFFICES ASSUME TypeOK, PassInv, [Next]_vars PROVE PassInv'
  OBVIOUS
<1>1. ASSUME NEW p \in Threads, Waking(p) \/ \E s \in 0 .. slots - 1 : Wake(p, s) PROVE PassInv'
  <2>1. UNCHANGED <<opc, chunks, words, scratch, advanced>> /\ Alone(p) /\ (wpc[p] # "idle" \/ Running(p))
    BY Zenon, <1>1, WakingEffect
  <2>2. Self \in Threads
    BY Zenon DEF Threads
  <2>3. wpc'[Self] # "idle" => opc \in {"idle", "turn", "polling"}
    BY Zenon, <2>1, <2>2 DEF PassInv, Alone, Running
  <2>. QED
    BY Zenon, <2>1, <2>3 DEF PassInv
<1>2. ASSUME NEW k \in shape.owners, NEW b \in BOOLEAN, Begin(k, b) PROVE PassInv'
  BY Zenon, <1>2 DEF Begin, PassInv, wakeVars
<1>3. CASE Insert
  BY Zenon, <1>3 DEF Insert, Unborrowed, PassInv
<1>4. ASSUME NEW s \in Slots, NEW g \in 1 .. generation, Remove(s, g) PROVE PassInv'
  BY Zenon, <1>4 DEF Remove, PassInv, ownerVars, wakeVars
<1>5. CASE End \/ Release \/ \E b \in {1, Budget} : Passes(b)
  <2>1. /\ opc \in {"turn", "release"} /\ opc' \in {"release", "idle", "rearm"}
        /\ opc = "turn" => wpc[Self] = "idle"
        /\ UNCHANGED <<chunks, words, scratch, advanced, wpc>>
    BY Zenon, <1>5 DEF End, Release, Passes, Turn, wakeVars
  <2>2. chunks = {} /\ words = {} /\ scratch = {} /\ ~advanced /\ wpc[Self] = "idle"
    BY Zenon, <2>1 DEF PassInv
  <2>. QED
    BY Zenon, <2>1, <2>2 DEF PassInv
<1>6. CASE Rearm \/ SwapReady
  <2>1. /\ opc \in {"rearm", "index"} /\ opc' \in {"index", "sweep"}
        /\ UNCHANGED <<words, advanced, wpc>> /\ (UNCHANGED <<chunks, scratch>> \/ opc' = "sweep")
    BY Zenon, <1>6 DEF Rearm, SwapReady, wakeVars
  <2>2. chunks = {} /\ words = {} /\ scratch = {} /\ ~advanced /\ wpc[Self] = "idle"
    BY Zenon, <2>1 DEF PassInv
  <2>. QED
    BY Zenon, <2>1, <2>2 DEF PassInv
<1>7. CASE SwapSummary \/ SwapWord \/ Swept
  <2>1. /\ opc = "sweep" /\ UNCHANGED <<advanced, wpc>>
        /\ opc' = "sweep" \/ (opc' = "run" /\ chunks' = {} /\ words' = {})
    BY Zenon, <1>7 DEF SwapSummary, SwapWord, Swept, wakeVars
  <2>2. ~advanced /\ wpc[Self] = "idle"
    BY Zenon, <2>1 DEF PassInv
  <2>. QED
    BY Zenon, <2>1, <2>2 DEF PassInv
<1>8. CASE Run \/ PassDone
  BY Zenon, <1>8 DEF Run, PassDone, PassInv, wakeVars
<1>9. ASSUME NEW done \in BOOLEAN, Return(done) PROVE PassInv'
  BY Zenon, <1>9 DEF Return, PassInv, wakeVars
<1>10. CASE UNCHANGED vars
  BY Zenon, <1>10 DEF vars, ownerVars, wakeVars, PassInv
<1>. QED
  BY Zenon, <1>1, <1>2, <1>3, <1>4, <1>5, <1>6, <1>7, <1>8, <1>9, <1>10 DEF Next, Pass

\* A woken task stays in the bits or in the snapshot until it is polled or gone.
LEMMA OwedStep ==
    TypeOK /\ PassInv /\ OwedIsMarked /\ [Next]_vars => OwedIsMarked'
<1> SUFFICES ASSUME TypeOK, PassInv, OwedIsMarked, [Next]_vars PROVE OwedIsMarked'
  OBVIOUS
<1>1. ASSUME NEW p \in Threads, Waking(p) \/ \E s \in 0 .. slots - 1 : Wake(p, s) PROVE OwedIsMarked'
  BY Zenon, <1>1 DEF Waking, Wake, SetBit, MarkSummary, MarkReady, SwapPending, CloneParent, WakeParent,
     indexVars, ownerVars, OwedIsMarked
<1>2. CASE Insert
  BY Zenon, <1>2 DEF Insert, SetBit, OwedIsMarked
<1>3. ASSUME NEW s \in Slots, NEW g \in 1 .. generation, Remove(s, g) PROVE OwedIsMarked'
  BY Zenon, <1>3 DEF Remove, indexVars, ownerVars, OwedIsMarked
<1>4. CASE SwapReady
  BY Zenon, <1>4 DEF SwapReady, PassInv, OwedIsMarked
<1>5. CASE SwapWord
  BY Zenon, <1>5 DEF SwapWord, OwedIsMarked
<1>6. CASE Run
  BY Zenon, <1>6 DEF Run, indexVars, OwedIsMarked
<1>7. ASSUME NEW done \in BOOLEAN, Return(done) PROVE OwedIsMarked'
  BY Zenon, <1>7 DEF Return, indexVars, OwedIsMarked
<1>8. CASE \/ \E k \in shape.owners, b \in BOOLEAN : Begin(k, b)
           \/ End \/ Release \/ \E b \in {1, Budget} : Passes(b)
  BY Zenon, <1>8 DEF Begin, End, Release, Passes, indexVars, OwedIsMarked
<1>9. CASE Rearm \/ SwapSummary \/ Swept \/ PassDone
  BY Zenon, <1>9 DEF Rearm, SwapSummary, Swept, PassDone, indexVars, OwedIsMarked
<1>10. CASE UNCHANGED vars
  BY Zenon, <1>10 DEF vars, indexVars, ownerVars, OwedIsMarked
<1>. QED
  BY Zenon, <1>1, <1>2, <1>3, <1>4, <1>5, <1>6, <1>7, <1>8, <1>9, <1>10 DEF Next, Pass

\* What ParentInv says stays as it is when the threads and the owner do.
LEMMA ParentFrame ==
    ASSUME ParentInv, UNCHANGED <<opc, owner, polled, batch, parent, pending, held, woken, wpc, target>>
    PROVE  ParentInv'
BY Zenon DEF ParentInv, Nudged

\* A nudge of the owner is delivered (Shared::wake_parent), held back until its poll returns
\* (Polling::hold), or taken back by the next pass (Tasks::pass).
LEMMA ParentStep ==
    Types /\ PassInv /\ ParentInv /\ [Next]_vars => ParentInv'
<1> SUFFICES ASSUME Types, PassInv, ParentInv, [Next]_vars PROVE ParentInv'
  OBVIOUS
<1>0. TypeOK /\ owner \in Owners /\ None \notin Owners
  BY Zenon, TasksAssumption DEF Types, TypeOK
<1>1. ASSUME NEW p \in Threads, \/ MarkSummary(p) \/ MarkReady(p) \/ \E s \in 0 .. slots - 1 : Wake(p, s)
      PROVE  ParentInv'
  <2>1. UNCHANGED <<opc, owner, polled, batch, parent>> /\ Alone(p)
    BY Zenon, <1>0, <1>1, WakingEffect DEF Waking
  <2>2. UNCHANGED <<pending, held, woken>> /\ wpc[p] \in {"idle", "summary", "ready"}
    BY Zenon, <1>1 DEF Wake, MarkSummary, MarkReady, parentVars
  <2>3. Nudged => Nudged'
    BY Zenon, <2>1, <2>2 DEF Nudged, Alone
  <2>. QED
    BY Zenon, <2>1, <2>2, <2>3 DEF ParentInv
<1>2. ASSUME NEW p \in Threads, SwapPending(p) PROVE ParentInv'
  <2>1. UNCHANGED <<opc, owner, polled, batch, parent>> /\ Alone(p)
    BY Zenon, <1>0, <1>2, WakingEffect DEF Waking
  <2>2. UNCHANGED <<held, woken>> /\ wpc[p] = "parent" /\ Goto(p, IF pending THEN "idle" ELSE "clone")
    BY Zenon, <1>2 DEF SwapPending
  <2>3. wpc'[p] = IF pending THEN "idle" ELSE "clone"
    BY Zenon, <1>0, <2>2, GotoAt
  <2>4. Nudged'
    <3>1. CASE pending
      BY Zenon, <2>1, <2>2, <3>1 DEF ParentInv, Nudged, Alone
    <3>2. CASE ~pending
      BY Zenon, <2>3, <3>2 DEF Nudged
    <3>. QED
      BY Zenon, <3>1, <3>2
  <2>. QED
    BY Zenon, <2>1, <2>2, <2>4 DEF ParentInv
<1>3. ASSUME NEW p \in Threads, CloneParent(p) PROVE ParentInv'
  <2>. DEFINE hold == p = Self /\ batch /\ parent = owner
  <2>1. UNCHANGED <<opc, owner, polled, batch, parent>> /\ Alone(p)
    BY Zenon, <1>0, <1>3, WakingEffect DEF Waking
  <2>2. /\ UNCHANGED <<pending, woken>> /\ wpc[p] = "clone"
        /\ Goto(p, IF parent = None \/ hold THEN "idle" ELSE "wake")
        /\ held' = (held \/ hold)
        /\ target' = [target EXCEPT ![p] = IF hold THEN None ELSE parent]
    BY Zenon, <1>3 DEF CloneParent
  <2>3. wpc'[p] = (IF parent = None \/ hold THEN "idle" ELSE "wake")
    BY Zenon, <1>0, <2>2, GotoAt
  <2>4. target'[p] = IF hold THEN None ELSE parent
    BY Zenon, <1>0, <2>2 DEF TypeOK
  <2>6. opc \in {"idle", "turn", "rearm", "index", "sweep", "run", "polling", "release"}
    BY Zenon, <1>0 DEF TypeOK
  <2>. HIDE DEF hold
  <2>7. \/ parent = owner
        \/ opc = "idle" /\ owner \in woken
        \/ opc = "turn" /\ ~polled
    BY Zenon, <2>6 DEF ParentInv, PassPCs
  <2>8. Nudged'
    <3>1. CASE parent = owner /\ ~hold
      BY Zenon, <1>0, <2>1, <2>3, <2>4, <3>1 DEF Nudged
    <3>2. CASE hold \/ (opc = "idle" /\ owner \in woken) \/ (opc = "turn" /\ ~polled)
      BY Zenon, <2>1, <2>2, <3>2 DEF Nudged
    <3>. QED
      BY Zenon, <2>7, <3>1, <3>2
  <2>9. held' => batch' \/ opc' = "release"
    BY Zenon, <2>1, <2>2 DEF ParentInv, hold
  <2>. QED
    BY Zenon, <2>1, <2>2, <2>8, <2>9 DEF ParentInv
<1>4. ASSUME NEW p \in Threads, WakeParent(p) PROVE ParentInv'
  <2>1. UNCHANGED <<opc, owner, polled, batch, parent>> /\ Alone(p)
    BY Zenon, <1>0, <1>4, WakingEffect DEF Waking
  <2>2. UNCHANGED <<pending, held>> /\ wpc[p] = "wake" /\ woken' = woken \cup {target[p]}
    BY Zenon, <1>4 DEF WakeParent
  <2>3. Nudged => Nudged'
    BY Zenon, <2>1, <2>2 DEF Nudged, Alone
  <2>. QED
    BY Zenon, <2>1, <2>2, <2>3 DEF ParentInv
<1>5. ASSUME NEW k \in shape.owners, NEW b \in BOOLEAN, Begin(k, b) PROVE ParentInv'
  BY Zenon, <1>5 DEF Begin, ParentInv, Nudged, PassPCs
<1>6. CASE End
  <2>1. /\ opc = "turn" /\ polled /\ opc' = (IF batch /\ held THEN "release" ELSE "idle") /\ ~batch'
        /\ UNCHANGED <<owner, polled, parent, pending, held, woken, wpc, target>>
    BY Zenon, <1>6 DEF End, Turn, parentVars, wakeVars
  <2>2. Nudged => Nudged'
    BY Zenon, <2>1 DEF Nudged
  <2>. QED
    BY Zenon, <2>1, <2>2 DEF ParentInv, PassPCs
<1>7. CASE Release
  <2>1. /\ opc = "release" /\ opc' = "idle" /\ ~held'
        /\ woken' = (IF pending /\ parent # None THEN woken \cup {parent} ELSE woken)
        /\ UNCHANGED <<owner, polled, batch, parent, pending, wpc, target>>
    BY Zenon, <1>7 DEF Release, wakeVars
  <2>2. parent = owner
    BY Zenon, <2>1 DEF ParentInv
  <2>. QED
    BY Zenon, <1>0, <2>1, <2>2 DEF ParentInv, Nudged, PassPCs
<1>8. ASSUME NEW b \in {1, Budget}, Passes(b) PROVE ParentInv'
  <2>1. /\ opc = "turn" /\ opc' = "rearm" /\ parent' = owner
        /\ UNCHANGED <<owner, batch, held>>
    BY Zenon, <1>8 DEF Passes, Turn
  <2>. QED
    BY Zenon, <2>1 DEF ParentInv, Nudged, PassPCs
<1>9. CASE Rearm
  BY Zenon, <1>9 DEF Rearm, ParentInv, PassPCs
<1>10. CASE PassDone
  <2>1. /\ opc = "run" /\ opc' \in {"turn", "rearm"}
        /\ UNCHANGED <<owner, polled, batch, parent, pending, held, woken, wpc, target>>
    BY Zenon, <1>10 DEF PassDone, parentVars, wakeVars
  <2>2. Nudged => Nudged'
    BY Zenon, <2>1 DEF Nudged
  <2>. QED
    BY Zenon, <2>1, <2>2 DEF ParentInv, PassPCs
<1>11. CASE SwapReady \/ SwapSummary \/ SwapWord \/ Swept \/ Run \/ \E done \in BOOLEAN : Return(done)
  <2>1. /\ opc \in {"index", "sweep", "run", "polling"} /\ opc' \in {"sweep", "run", "polling"}
        /\ UNCHANGED <<owner, polled, batch, parent, pending, held, woken, wpc, target>>
    BY Zenon, <1>11 DEF SwapReady, SwapSummary, SwapWord, Swept, Run, Return, parentVars, wakeVars
  <2>2. Nudged => Nudged'
    BY Zenon, <2>1 DEF Nudged
  <2>. QED
    BY Zenon, <2>1, <2>2 DEF ParentInv, PassPCs
<1>12. CASE Insert
  <2>1. /\ SetBit(Self, IF free # <<>> THEN free[Len(free)] ELSE slots) /\ wpc[Self] = "idle"
        /\ UNCHANGED <<opc, owner, polled, batch, parent, pending, held, woken, target>>
    BY Zenon, <1>12 DEF Insert, Unborrowed, parentVars
  <2>2. Self \in Threads
    BY Zenon DEF Threads
  <2>3. Alone(Self)
    BY Zenon, <1>0, <2>1, <2>2, SetBitEffect
  <2>4. Nudged => Nudged'
    BY Zenon, <2>1, <2>3 DEF Nudged, Alone
  <2>. QED
    BY Zenon, <2>1, <2>4 DEF ParentInv, PassPCs
<1>13. ASSUME NEW s \in Slots, NEW g \in 1 .. generation, Remove(s, g) PROVE ParentInv'
  BY Zenon, <1>13, ParentFrame DEF Remove, parentVars, ownerVars, wakeVars
<1>14. CASE UNCHANGED vars
  BY Zenon, <1>14, ParentFrame DEF vars, parentVars, ownerVars, wakeVars
<1>. QED
  BY Zenon, <1>1, <1>2, <1>3, <1>4, <1>5, <1>6, <1>7, <1>8, <1>9, <1>10, <1>11, <1>12, <1>13, <1>14
     DEF Next, Pass, Waking

\* What announces a word stays while only p moves and what it was to mark is marked.
LEMMA WordKept ==
    ASSUME shape' = shape, NEW p \in Threads, Alone(p), NEW s, WordDue(Word(s)),
           summary \cup words \subseteq summary' \cup words',
           wpc[p] # "summary" \/ (wpc'[p] = "summary" /\ wslot'[p] = wslot[p]) \/ Word(wslot[p]) \in summary'
    PROVE  WordDue(Word(s))'
<1>1. Word(s)' = Word(s) /\ \A q \in Threads : wslot'[q] = wslot[q] => Word(wslot[q])' = Word(wslot[q])
  BY Zenon DEF Word, WORD_BITS
<1>. QED
  BY Zenon, <1>1 DEF WordDue, Alone

\* The same for a chunk.
LEMMA ChunkKept ==
    ASSUME shape' = shape, NEW p \in Threads, Alone(p), NEW w, ChunkDue(WordChunk(w)),
           \A c : c \in chunks \/ Top(c) \in ready => c \in chunks' \/ Top(c) \in ready',
           wpc[p] # "ready" \/ (wpc'[p] = "ready" /\ wslot'[p] = wslot[p]) \/ Top(Chunk(wslot[p])) \in ready'
    PROVE  ChunkDue(WordChunk(w))'
<1>1. /\ WordChunk(w)' = WordChunk(w) /\ \A c : Top(c)' = Top(c)
      /\ \A q \in Threads : wslot'[q] = wslot[q] => Chunk(wslot[q])' = Chunk(wslot[q])
  BY Zenon DEF WordChunk, Chunk, Word, Top, WORD_BITS, CHUNK_WORDS
<1>. QED
  BY Zenon, <1>1 DEF ChunkDue, Alone

\* The chunks only grow with the slab.
LEMMA ChunksKept ==
    ASSUME shape' = shape, 0 .. slots - 1 \subseteq (0 .. slots - 1)', NEW w, WordChunk(w) \in Chunks
    PROVE  (WordChunk(w) \in Chunks)'
<1>1. WordChunk(w)' = WordChunk(w) /\ \A s : Chunk(s)' = Chunk(s)
  BY Zenon DEF WordChunk, Chunk, Word, WORD_BITS, CHUNK_WORDS
<1>. QED
  BY Zenon, <1>1 DEF Chunks

\* A step of a wake leaves each level announced when what it sets, and what it was to mark,
\* is.
LEMMA BitsWake ==
    ASSUME BitsInv, NEW p \in Threads, Alone(p), UNCHANGED <<shape, scratch, words, chunks, opc>>,
           0 .. slots - 1 \subseteq (0 .. slots - 1)', bits' \subseteq (0 .. slots - 1)',
           summary \subseteq summary', ready \subseteq ready', pending => pending',
           wpc[p] = "summary" => Word(wslot[p]) \in summary',
           wpc[p] = "ready" => Top(Chunk(wslot[p])) \in ready',
           wpc[p] = "parent" => pending',
           wpc'[p] \in {"summary", "ready"} => wslot'[p] \in (0 .. slots - 1)',
           \A s \in bits' : s \in bits \/ WordDue(Word(s))',
           \A w \in summary' : w \in summary \/ ((WordChunk(w) \in Chunks)' /\ ChunkDue(WordChunk(w))'),
           ready' = ready \/ TopDue'
    PROVE  BitsInv'
<1>1. ASSUME NEW s \in bits' PROVE WordDue(Word(s))'
  <2>1. ASSUME s \in bits PROVE WordDue(Word(s))'
    <3>1. WordDue(Word(s))
      BY Zenon, <2>1 DEF BitsInv
    <3>2. summary \cup words \subseteq summary' \cup words'
      BY Zenon
    <3>. QED
      BY Zenon, <3>1, <3>2, WordKept
  <2>. QED
    BY Zenon, <2>1
<1>2. ASSUME NEW w \in summary' PROVE (WordChunk(w) \in Chunks)' /\ ChunkDue(WordChunk(w))'
  <2>1. ASSUME w \in summary PROVE (WordChunk(w) \in Chunks)' /\ ChunkDue(WordChunk(w))'
    <3>1. WordChunk(w) \in Chunks /\ ChunkDue(WordChunk(w))
      BY Zenon, <2>1 DEF BitsInv
    <3>2. \A c : c \in chunks \/ Top(c) \in ready => c \in chunks' \/ Top(c) \in ready'
      BY Zenon
    <3>. QED
      BY Zenon, <3>1, <3>2, ChunkKept, ChunksKept
  <2>. QED
    BY Zenon, <2>1
<1>3. ready' # {} => TopDue'
  <2>1. ASSUME ready' = ready, ready # {} PROVE TopDue'
    BY Zenon, <2>1 DEF BitsInv, TopDue, Alone
  <2>. QED
    BY Zenon, <2>1
<1>4. \A q \in Threads : wpc'[q] \in {"summary", "ready"} => wslot'[q] \in (0 .. slots - 1)'
  BY Zenon DEF BitsInv, Alone
<1>5. bits' \cup scratch' \subseteq (0 .. slots - 1)'
  BY Zenon DEF BitsInv
<1>. QED
  BY Zenon, <1>1, <1>2, <1>3, <1>4, <1>5 DEF BitsInv

\* A step of the owner that takes no level.
LEMMA BitsOwner ==
    ASSUME BitsInv, UNCHANGED <<shape, wpc, wslot, target, bits, summary, ready, words, chunks>>,
           slots' = slots, scratch' \subseteq scratch,
           \/ opc' = "index"
           \/ pending' = pending /\ (opc # "index" \/ opc' = opc)
    PROVE  BitsInv'
<1>0. Self \in Threads /\ Alone(Self) /\ 0 .. slots - 1 \subseteq (0 .. slots - 1)'
  BY Zenon DEF Threads, Alone
<1>1. ASSUME NEW s \in bits PROVE WordDue(Word(s))'
  <2>1. WordDue(Word(s))
    BY Zenon DEF BitsInv
  <2>. QED
    BY Zenon, <1>0, <2>1, WordKept
<1>2. ASSUME NEW w \in summary PROVE (WordChunk(w) \in Chunks)' /\ ChunkDue(WordChunk(w))'
  <2>1. WordChunk(w) \in Chunks /\ ChunkDue(WordChunk(w))
    BY Zenon DEF BitsInv
  <2>. QED
    BY Zenon, <1>0, <2>1, ChunkKept, ChunksKept
<1>3. ready' # {} => TopDue'
  <2>1. ASSUME ready # {} PROVE TopDue
    BY Zenon, <2>1 DEF BitsInv
  <2>2. ASSUME TopDue PROVE TopDue'
    <3>1. CASE opc' = "index"
      BY Zenon, <3>1 DEF TopDue
    <3>2. CASE pending' = pending /\ (opc # "index" \/ opc' = opc)
      <4>1. CASE pending
        BY Zenon, <3>2, <4>1 DEF TopDue
      <4>2. CASE opc = "index"
        BY Zenon, <3>2, <4>2 DEF TopDue
      <4>3. CASE \E q \in Threads : wpc[q] = "parent"
        BY Zenon, <4>3 DEF TopDue
      <4>. QED
        BY Zenon, <2>2, <4>1, <4>2, <4>3 DEF TopDue
    <3>. QED
      BY Zenon, <3>1, <3>2
  <2>. QED
    BY Zenon, <2>1, <2>2
<1>. QED
  BY Zenon, <1>0, <1>1, <1>2, <1>3 DEF BitsInv

\* A wake marks each level before it nudges the owner, and a pass takes each level before
\* the one below (SlotWaker::wake_by_ref, Tasks::pass).
LEMMA BitsStep ==
    TypeOK /\ PassInv /\ BitsInv /\ SlabInv /\ [Next]_vars => BitsInv'
<1> SUFFICES ASSUME TypeOK, PassInv, BitsInv, SlabInv, [Next]_vars PROVE BitsInv'
  OBVIOUS
<1>0. slots \in Nat /\ children \in Seq(0 .. MaxTasks) /\ free \in Seq(Slots)
  BY DEF TypeOK, slots
<1>1. ASSUME NEW p \in Threads, NEW s, SetBit(p, s), wpc[p] = "idle", UNCHANGED target,
             s \in (0 .. slots - 1)', 0 .. slots - 1 \subseteq (0 .. slots - 1)',
             UNCHANGED <<shape, scratch, words, chunks, opc, summary, ready, pending>>
      PROVE  BitsInv'
  <2>1. /\ bits' = bits \cup {s} /\ Alone(p)
        /\ \/ s \in bits /\ wpc'[p] = "idle"
           \/ (\E r \in bits : Word(r) = Word(s)) /\ wpc'[p] = "parent"
           \/ wpc'[p] = "summary" /\ wslot'[p] = s
    BY Zenon, <1>1, SetBitEffect
  <2>2. bits' \subseteq (0 .. slots - 1)'
    BY Zenon, <1>1, <2>1 DEF BitsInv
  <2>3. s \in bits \/ WordDue(Word(s))'
    <3>1. ASSUME NEW r \in bits, Word(r) = Word(s) PROVE WordDue(Word(s))'
      <4>1. WordDue(Word(s))
        BY Zenon, <3>1 DEF BitsInv
      <4>. QED
        BY Zenon, <1>1, <2>1, <4>1, WordKept
    <3>2. ASSUME wpc'[p] = "summary", wslot'[p] = s PROVE WordDue(Word(s))'
      <4>1. Word(wslot[p])' = Word(s)'
        BY Zenon, <3>2 DEF Word, WORD_BITS
      <4>. QED
        BY Zenon, <3>2, <4>1 DEF WordDue
    <3>. QED
      BY Zenon, <2>1, <3>1, <3>2
  <2>4. \A r \in bits' : r \in bits \/ WordDue(Word(r))'
    BY Zenon, <2>1, <2>3
  <2>. QED
    BY Zenon, <1>1, <2>1, <2>2, <2>4, BitsWake
<1>2. ASSUME NEW p \in Threads, NEW s \in 0 .. slots - 1, Wake(p, s) PROVE BitsInv'
  BY Zenon, <1>1, <1>2 DEF Wake, slabVars, parentVars, ownerVars, slots
<1>3. ASSUME NEW p \in Threads, MarkSummary(p) PROVE BitsInv'
  <2>1. /\ UNCHANGED <<shape, scratch, words, chunks, opc, children>> /\ Alone(p)
    BY Zenon, <1>3, WakingEffect DEF Waking
  <2>2. /\ UNCHANGED <<bits, ready, pending, wslot>> /\ wpc[p] = "summary"
        /\ summary' = summary \cup {Word(wslot[p])}
        /\ Goto(p, IF \E w \in summary : WordChunk(w) = Chunk(wslot[p]) THEN "parent" ELSE "ready")
    BY Zenon, <1>3 DEF MarkSummary, parentVars
  <2>3. wpc'[p] = IF \E w \in summary : WordChunk(w) = Chunk(wslot[p]) THEN "parent" ELSE "ready"
    BY Zenon, <2>2, GotoAt
  <2>4. wslot[p] \in 0 .. slots - 1 /\ slots' = slots
    BY Zenon, <2>1, <2>2 DEF BitsInv, slots
  <2>. PICK v : v = Word(wslot[p])
    BY Zenon
  <2>5. WordChunk(v) = Chunk(wslot[p]) /\ WordChunk(v) \in Chunks
    BY Zenon, <2>4 DEF WordChunk, Chunk, Chunks
  <2>6. (WordChunk(v) \in Chunks)'
    BY Zenon, <2>1, <2>4, <2>5, ChunksKept
  <2>7. ChunkDue(WordChunk(v))'
    <3>1. ASSUME NEW w \in summary, WordChunk(w) = Chunk(wslot[p]) PROVE ChunkDue(WordChunk(v))'
      <4>1. ChunkDue(WordChunk(v))
        BY Zenon, <2>5, <3>1 DEF BitsInv
      <4>. QED
        BY Zenon, <2>1, <2>2, <4>1, ChunkKept
    <3>2. ASSUME wpc'[p] = "ready" PROVE ChunkDue(WordChunk(v))'
      <4>1. Chunk(wslot[p])' = Chunk(wslot[p]) /\ WordChunk(v)' = WordChunk(v)
        BY Zenon, <2>1, <2>2 DEF Chunk, Word, WordChunk, WORD_BITS, CHUNK_WORDS
      <4>. QED
        BY Zenon, <2>5, <3>2, <4>1 DEF ChunkDue
    <3>. QED
      BY Zenon, <2>3, <3>1, <3>2
  <2>8. \A w \in summary' : w \in summary \/ ((WordChunk(w) \in Chunks)' /\ ChunkDue(WordChunk(w))')
    BY Zenon, <2>2, <2>6, <2>7
  <2>9. Word(wslot[p]) \in summary' /\ summary \subseteq summary' /\ bits' \subseteq (0 .. slots - 1)'
    BY Zenon, <2>2, <2>4 DEF BitsInv
  <2>. QED
    BY Zenon, <2>1, <2>2, <2>4, <2>8, <2>9, BitsWake
<1>4. ASSUME NEW p \in Threads, MarkReady(p) PROVE BitsInv'
  <2>1. /\ UNCHANGED <<shape, scratch, words, chunks, opc, children>> /\ Alone(p)
    BY Zenon, <1>4, WakingEffect DEF Waking
  <2>2. /\ UNCHANGED <<bits, summary, pending>> /\ wpc[p] = "ready"
        /\ ready' = ready \cup {Top(Chunk(wslot[p]))} /\ Goto(p, "parent")
    BY Zenon, <1>4 DEF MarkReady, parentVars
  <2>3. wpc'[p] = "parent"
    BY Zenon, <2>2, GotoAt
  <2>4. slots' = slots
    BY Zenon, <2>1 DEF slots
  <2>5. TopDue'
    BY Zenon, <2>3 DEF TopDue
  <2>6. bits' \subseteq (0 .. slots - 1)' /\ ready \subseteq ready' /\ Top(Chunk(wslot[p])) \in ready'
    BY Zenon, <2>2, <2>4 DEF BitsInv
  <2>. QED
    BY Zenon, <2>1, <2>2, <2>3, <2>4, <2>5, <2>6, BitsWake
<1>5. ASSUME NEW p \in Threads, SwapPending(p) \/ CloneParent(p) \/ WakeParent(p) PROVE BitsInv'
  <2>1. /\ UNCHANGED <<shape, scratch, words, chunks, opc, children>> /\ Alone(p)
    BY Zenon, <1>5, WakingEffect DEF Waking
  <2>2. /\ UNCHANGED <<bits, summary, ready>>
        /\ \/ wpc[p] = "parent" /\ pending' = TRUE
           \/ wpc[p] \in {"clone", "wake"} /\ pending' = pending
        /\ \/ Goto(p, IF pending THEN "idle" ELSE "clone") \/ Goto(p, "idle")
           \/ \E b \in BOOLEAN : Goto(p, IF b THEN "idle" ELSE "wake")
    <3>1. CASE SwapPending(p)
      BY Zenon, <3>1 DEF SwapPending, indexVars
    <3>2. CASE CloneParent(p)
      BY Zenon, <3>2 DEF CloneParent, indexVars
    <3>3. CASE WakeParent(p)
      BY Zenon, <3>3 DEF WakeParent, indexVars
    <3>. QED
      BY Zenon, <1>5, <3>1, <3>2, <3>3
  <2>3. wpc'[p] \in {"idle", "clone", "wake"}
    BY Zenon, <2>2, GotoAt
  <2>4. slots' = slots
    BY Zenon, <2>1 DEF slots
  <2>5. bits' \subseteq (0 .. slots - 1)' /\ (pending => pending') /\ (wpc[p] = "parent" => pending')
        /\ wpc[p] \notin {"summary", "ready"} /\ wpc'[p] \notin {"summary", "ready"}
    <3>1. bits' \subseteq (0 .. slots - 1)'
      BY Zenon, <2>2, <2>4 DEF BitsInv
    <3>2. CASE wpc[p] = "parent" /\ pending' = TRUE
      BY Zenon, <2>3, <3>1, <3>2
    <3>3. CASE wpc[p] \in {"clone", "wake"} /\ pending' = pending
      BY Zenon, <2>3, <3>1, <3>3
    <3>. QED
      BY Zenon, <2>2, <3>2, <3>3
  <2>6. UNCHANGED <<bits, summary, ready>>
    BY Zenon, <2>2
  <2>. QED
    BY Zenon, <2>1, <2>4, <2>5, <2>6, BitsWake
<1>6. CASE Insert
  <2>1. /\ opc \in {"idle", "turn"} /\ wpc[Self] = "idle"
        /\ UNCHANGED <<shape, scratch, words, chunks, opc, summary, ready, pending, target>>
    BY Zenon, <1>6 DEF Insert, Unborrowed, parentVars
  <2>2. Self \in Threads
    BY Zenon DEF Threads
  <2>3. CASE free # <<>>
    <3>1. /\ children' = [children EXCEPT ![free[Len(free)] + 1] = generation + 1]
          /\ SetBit(Self, free[Len(free)])
      BY Zenon, <1>6, <2>3 DEF Insert
    <3>2. slots' = slots
      BY <1>0, <3>1 DEF slots
    <3>3. Len(free) \in 1 .. Len(free) /\ free[Len(free)] \in Nat
      <4>1. Len(free) \in 1 .. Len(free)
        BY <1>0, <2>3
      <4>2. free[Len(free)] \in Slots
        BY <1>0, <4>1
      <4>. QED
        BY <4>1, <4>2, TasksAssumption DEF Slots
    <3>4. free[Len(free)] < slots
      BY Zenon, <3>3 DEF SlabInv
    <3>5. free[Len(free)] \in 0 .. slots - 1
      BY <1>0, <3>3, <3>4
    <3>. QED
      BY Zenon, <1>1, <2>1, <2>2, <3>1, <3>2, <3>5
  <2>4. CASE free = <<>>
    <3>1. children' = Append(children, generation + 1) /\ SetBit(Self, slots)
      BY Zenon, <1>6, <2>4 DEF Insert
    <3>2. slots' = slots + 1
      BY <1>0, <3>1 DEF slots
    <3>3. slots \in (0 .. slots - 1)' /\ 0 .. slots - 1 \subseteq (0 .. slots - 1)'
      BY <1>0, <3>2
    <3>. QED
      BY Zenon, <1>1, <2>1, <2>2, <3>1, <3>3
  <2>. QED
    BY Zenon, <2>3, <2>4
<1>7. ASSUME NEW s \in Slots, NEW g \in 1 .. generation, Remove(s, g) PROVE BitsInv'
  <2>1. /\ UNCHANGED <<shape, wpc, wslot, target, bits, summary, ready, words, chunks, pending, scratch>>
        /\ opc \in {"idle", "turn"} /\ children' = [children EXCEPT ![s + 1] = 0]
    BY Zenon, <1>7 DEF Remove, Vacate, Unborrowed, indexVars, parentVars, ownerVars, wakeVars
  <2>2. slots' = slots
    BY SMTT(30), <1>0, <2>1 DEF slots
  <2>. QED
    BY Zenon, <2>1, <2>2, BitsOwner
<1>8. CASE \/ \E k \in shape.owners, b \in BOOLEAN : Begin(k, b)
           \/ End \/ Release \/ \E b \in {1, Budget} : Passes(b)
  <2>1. /\ UNCHANGED <<shape, children, wpc, wslot, target, bits, summary, ready, words, chunks, pending, scratch>>
        /\ opc \in {"idle", "turn", "release"}
    BY Zenon, <1>8 DEF Begin, End, Release, Passes, Turn, slabVars, indexVars, parentVars, wakeVars
  <2>. QED
    BY Zenon, <2>1, BitsOwner DEF slots
<1>9. CASE Swept \/ Run \/ PassDone
  <2>1. /\ UNCHANGED <<shape, children, wpc, wslot, target, bits, summary, ready, words, chunks, pending>>
        /\ opc \in {"sweep", "run"} /\ scratch' \subseteq scratch
    BY Zenon, <1>9 DEF Swept, Run, PassDone, slabVars, indexVars, parentVars, wakeVars
  <2>. QED
    BY Zenon, <2>1, BitsOwner DEF slots
<1>10. ASSUME NEW done \in BOOLEAN, Return(done) PROVE BitsInv'
  <2>1. /\ UNCHANGED <<shape, wpc, wslot, target, bits, summary, ready, words, chunks, pending, scratch>>
        /\ opc = "polling" /\ (children' = children \/ children' = [children EXCEPT ![current + 1] = 0])
    BY Zenon, <1>10 DEF Return, Vacate, indexVars, parentVars, wakeVars
  <2>2. slots' = slots
    BY <1>0, <2>1 DEF slots
  <2>. QED
    BY Zenon, <2>1, <2>2, BitsOwner
<1>11. CASE Rearm
  <2>1. /\ UNCHANGED <<shape, children, wpc, wslot, target, bits, summary, ready, words, chunks, scratch>>
        /\ opc' = "index"
    BY Zenon, <1>11 DEF Rearm, slabVars, indexVars, wakeVars
  <2>. QED
    BY Zenon, <2>1, BitsOwner DEF slots
<1>12. CASE SwapReady
  <2>1. /\ UNCHANGED <<shape, children, wpc, wslot, target, bits, summary, words>>
        /\ chunks' = {c \in Chunks : Top(c) \in ready} /\ ready' = {} /\ scratch' = {} /\ opc = "index"
    BY Zenon, <1>12 DEF SwapReady, slabVars, wakeVars
  <2>2. Self \in Threads /\ Alone(Self) /\ slots' = slots /\ chunks = {}
    BY Zenon, <2>1 DEF Threads, Alone, slots, PassInv
  <2>3. ASSUME NEW s \in bits PROVE WordDue(Word(s))'
    <3>1. WordDue(Word(s))
      BY Zenon DEF BitsInv
    <3>. QED
      BY Zenon, <2>1, <2>2, <3>1, WordKept
  <2>4. ASSUME NEW w \in summary PROVE (WordChunk(w) \in Chunks)' /\ ChunkDue(WordChunk(w))'
    <3>1. WordChunk(w) \in Chunks /\ ChunkDue(WordChunk(w))
      BY Zenon DEF BitsInv
    <3>2. (WordChunk(w) \in Chunks)'
      BY Zenon, <2>1, <2>2, <3>1, ChunksKept
    <3>3. /\ WordChunk(w)' = WordChunk(w)
          /\ \A q \in Threads : Chunk(wslot[q])' = Chunk(wslot[q])
      BY Zenon, <2>1 DEF WordChunk, Chunk, Word, WORD_BITS, CHUNK_WORDS
    <3>4. \/ WordChunk(w) \in chunks'
          \/ \E q \in Threads : wpc[q] = "ready" /\ Chunk(wslot[q]) = WordChunk(w)
      BY Zenon, <2>1, <2>2, <3>1 DEF ChunkDue
    <3>5. ChunkDue(WordChunk(w))'
      BY Zenon, <2>1, <3>3, <3>4 DEF ChunkDue
    <3>. QED
      BY Zenon, <3>2, <3>5
  <2>. QED
    BY Zenon, <2>1, <2>2, <2>3, <2>4 DEF BitsInv
<1>13. CASE SwapSummary
  <2>. DEFINE c == Visit(chunks)
  <2>1. /\ UNCHANGED <<shape, children, wpc, wslot, target, bits, ready, pending, scratch, opc>>
        /\ words' = {w \in summary : WordChunk(w) = c} /\ chunks' = chunks \ {c}
        /\ summary' = summary \ words' /\ words = {}
    BY Zenon, <1>13 DEF SwapSummary, slabVars, parentVars, wakeVars
  <2>. HIDE DEF c
  <2>2. Self \in Threads /\ Alone(Self) /\ slots' = slots
    BY Zenon, <2>1 DEF Threads, Alone, slots
  <2>3. summary \cup words \subseteq summary' \cup words'
    BY Zenon, <2>1
  <2>4. ASSUME NEW s \in bits PROVE WordDue(Word(s))'
    <3>1. WordDue(Word(s))
      BY Zenon DEF BitsInv
    <3>. QED
      BY Zenon, <2>1, <2>2, <2>3, <3>1, WordKept
  <2>5. ASSUME NEW w \in summary' PROVE (WordChunk(w) \in Chunks)' /\ ChunkDue(WordChunk(w))'
    <3>1. WordChunk(w) \in Chunks /\ ChunkDue(WordChunk(w)) /\ WordChunk(w) # c
      BY Zenon, <2>1 DEF BitsInv
    <3>2. (WordChunk(w) \in Chunks)'
      BY Zenon, <2>1, <2>2, <3>1, ChunksKept
    <3>3. /\ WordChunk(w)' = WordChunk(w) /\ Top(WordChunk(w))' = Top(WordChunk(w))
          /\ \A q \in Threads : Chunk(wslot[q])' = Chunk(wslot[q])
      BY Zenon, <2>1 DEF WordChunk, Chunk, Word, Top, WORD_BITS, CHUNK_WORDS
    <3>4. ChunkDue(WordChunk(w))'
      BY Zenon, <2>1, <3>1, <3>3 DEF ChunkDue
    <3>. QED
      BY Zenon, <3>2, <3>4
  <2>6. ready' # {} => TopDue'
    BY Zenon, <2>1 DEF BitsInv, TopDue
  <2>. QED
    BY Zenon, <2>1, <2>2, <2>4, <2>5, <2>6 DEF BitsInv
<1>14. CASE SwapWord
  <2>1. PICK w \in words :
        /\ UNCHANGED <<shape, children, wpc, wslot, target, summary, ready, pending, chunks, opc>>
        /\ words' = words \ {w}
        /\ scratch' = scratch \cup {s \in bits : Word(s) = w} /\ bits' = {s \in bits : Word(s) # w}
    BY Zenon, <1>14 DEF SwapWord, slabVars, parentVars, wakeVars
  <2>2. Self \in Threads /\ Alone(Self) /\ slots' = slots
    BY Zenon, <2>1 DEF Threads, Alone, slots
  <2>3. ASSUME NEW s \in bits' PROVE WordDue(Word(s))'
    <3>1. WordDue(Word(s)) /\ Word(s) # w
      BY Zenon, <2>1 DEF BitsInv
    <3>2. Word(s)' = Word(s) /\ \A q \in Threads : Word(wslot[q])' = Word(wslot[q])
      BY Zenon, <2>1 DEF Word, WORD_BITS
    <3>. QED
      BY Zenon, <2>1, <3>1, <3>2 DEF WordDue
  <2>4. ASSUME NEW x \in summary PROVE (WordChunk(x) \in Chunks)' /\ ChunkDue(WordChunk(x))'
    <3>1. WordChunk(x) \in Chunks /\ ChunkDue(WordChunk(x))
      BY Zenon DEF BitsInv
    <3>. QED
      BY Zenon, <2>1, <2>2, <3>1, ChunkKept, ChunksKept
  <2>5. ready' # {} => TopDue'
    BY Zenon, <2>1 DEF BitsInv, TopDue
  <2>6. bits' \cup scratch' \subseteq 0 .. slots - 1
    BY Zenon, <2>1 DEF BitsInv
  <2>. QED
    BY Zenon, <2>1, <2>2, <2>3, <2>4, <2>5, <2>6 DEF BitsInv
<1>15. CASE UNCHANGED vars
  <2>1. UNCHANGED <<shape, children, wpc, wslot, target, bits, summary, ready, words, chunks, pending, scratch, opc>>
    BY Zenon, <1>15 DEF vars, slabVars, indexVars, parentVars, ownerVars, wakeVars
  <2>. QED
    BY Zenon, <2>1, BitsOwner DEF slots
<1>. QED
  BY Zenon, <1>2, <1>3, <1>4, <1>5, <1>6, <1>7, <1>8, <1>9, <1>10, <1>11, <1>12, <1>13, <1>14, <1>15
     DEF Next, Pass, Waking

-----------------------------------------------------------------------------
(* The slab.                                                               *)

\* A pass has a first slot to run, the one after which the order wraps.
LEMMA LeadIn ==
    ASSUME Counting, slots \in Nat, from \in Nat, from <= slots, scratch \subseteq 0 .. slots - 1, scratch # {}
    PROVE  Lead(scratch) \in scratch /\ \A r \in scratch : Rotated(Lead(scratch)) <= Rotated(r)
<1>1. ASSUME NEW s \in 0 .. slots - 1 PROVE Rotated(s) \in Nat
  BY DEF Rotated
<1>2. {Rotated(s) : s \in scratch} \in SUBSET Nat /\ {Rotated(s) : s \in scratch} # {}
  BY Zenon, <1>1
<1>3. PICK m \in {Rotated(s) : s \in scratch} : \A k \in {Rotated(s) : s \in scratch} : m <= k
  BY Zenon, <1>2 DEF Counting
<1>4. \E s \in scratch : \A r \in scratch : Rotated(s) <= Rotated(r)
  BY Zenon, <1>3
<1>. QED
  BY Zenon, <1>4 DEF Lead

\* Steps that leave the slab and the slot being polled alone.
LEMMA SlabFrame ==
    ASSUME SlabInv, UNCHANGED <<children, free, generation, alive>>,
           opc' = "polling" => (opc = "polling" /\ current' = current)
                               \/ (current' < slots /\ children[current' + 1] # 0)
    PROVE  SlabInv'
<1>1. slots' = slots
  BY Zenon DEF slots
<1>2. opc' = "polling" => current' < slots' /\ children'[current' + 1] # 0
  BY Zenon, <1>1 DEF SlabInv
<1>. QED
  BY Zenon, <1>1, <1>2 DEF SlabInv

\* A task that goes leaves its slot to the next one.
LEMMA SlabVacate ==
    ASSUME TypeOK, SlabInv, NEW s \in Nat, s < slots, children[s + 1] # 0, Vacate(s),
           alive' = alive \ {children[s + 1]}, generation' = generation, opc' # "polling"
    PROVE  SlabInv'
<1>0. slots \in Nat /\ children \in Seq(0 .. MaxTasks) /\ free \in Seq(Slots) /\ slots <= MaxSlots
      /\ generation \in Nat /\ MaxTasks \in Nat /\ MaxSlots \in Nat
  BY TasksAssumption DEF TypeOK, slots
<1>1. /\ slots' = slots /\ \A i \in 1 .. slots : children'[i] = IF i = s + 1 THEN 0 ELSE children[i]
  BY <1>0 DEF Vacate, slots
<1>2. /\ Len(free) \in Nat /\ Len(free') = Len(free) + 1 /\ free'[Len(free) + 1] = s
      /\ \A i \in 1 .. Len(free) : free'[i] = free[i]
  <2>1. free' = Append(free, s)
    BY Zenon DEF Vacate
  <2>2. s \in Slots
    BY <1>0 DEF Slots
  <2>. QED
    BY <1>0, <2>1, <2>2
<1>3. /\ \A i \in 1 .. slots : children[i] \in Nat
      /\ \A i \in 1 .. Len(free) : free[i] \in Nat
  <2>1. \A i \in 1 .. slots : children[i] \in 0 .. MaxTasks
    BY <1>0 DEF slots
  <2>2. \A i \in 1 .. Len(free) : free[i] \in Slots
    BY <1>0
  <2>. QED
    BY <1>0, <2>1, <2>2 DEF Slots
<1>4. \A i \in 1 .. slots : children'[i] <= generation
  BY <1>0, <1>1, <1>3 DEF SlabInv
<1>5. \A i, j \in 1 .. slots : children'[i] = children'[j] /\ children'[i] # 0 => i = j
  BY <1>1 DEF SlabInv
<1>6. ASSUME NEW g \in 1 .. generation PROVE g \in alive' <=> \E i \in 1 .. slots : children'[i] = g
  <2>1. s + 1 \in 1 .. slots /\ g # 0
    BY <1>0
  <2>2. CASE g = children[s + 1]
    <3>1. \A i \in 1 .. slots : children[i] = g => i = s + 1
      BY Zenon, <2>1, <2>2 DEF SlabInv
    <3>. QED
      BY Zenon, <1>1, <2>1, <2>2, <3>1
  <2>3. CASE g # children[s + 1]
    <3>1. g \in alive' <=> \E i \in 1 .. slots : children[i] = g
      BY Zenon, <2>3 DEF SlabInv
    <3>2. \A i \in 1 .. slots : children'[i] = g <=> children[i] = g
      BY Zenon, <1>1, <2>1, <2>3
    <3>. QED
      BY Zenon, <3>1, <3>2
  <2>. QED
    BY Zenon, <2>2, <2>3
<1>7. \A i \in 1 .. Len(free) : free[i] # s /\ free[i] < slots /\ children[free[i] + 1] = 0
  BY Zenon DEF SlabInv
<1>8. \A i, j \in 1 .. Len(free') : free'[i] = free'[j] => i = j
  <2>1. \A i \in 1 .. Len(free') : i \in 1 .. Len(free) \/ i = Len(free) + 1
    BY <1>2
  <2>2. ASSUME NEW i \in 1 .. Len(free), NEW j \in 1 .. Len(free), free'[i] = free'[j] PROVE i = j
    <3>1. free[i] = free[j]
      BY Zenon, <1>2, <2>2
    <3>. QED
      BY Zenon, <3>1 DEF SlabInv
  <2>3. \A i \in 1 .. Len(free) : free'[i] # free'[Len(free) + 1]
    BY Zenon, <1>2, <1>7
  <2>. QED
    BY Zenon, <2>1, <2>2, <2>3
<1>9. \A i \in 1 .. Len(free') : free'[i] < slots /\ children'[free'[i] + 1] = 0
  <2>1. ASSUME NEW i \in 1 .. Len(free) PROVE free[i] + 1 \in 1 .. slots /\ free[i] + 1 # s + 1
    BY <1>0, <1>3, <1>7
  <2>2. \A i \in 1 .. Len(free') : i \in 1 .. Len(free) \/ i = Len(free) + 1
    BY <1>2
  <2>3. s + 1 \in 1 .. slots
    BY <1>0
  <2>. QED
    BY Zenon, <1>1, <1>2, <1>7, <2>1, <2>2, <2>3
<1>10. ASSUME NEW r \in 0 .. slots - 1, children'[r + 1] = 0 PROVE \E i \in 1 .. Len(free') : free'[i] = r
  <2>1. CASE r = s
    <3>1. Len(free) + 1 \in 1 .. Len(free')
      BY <1>2
    <3>. QED
      BY Zenon, <1>2, <2>1, <3>1
  <2>2. CASE r # s
    <3>1. r + 1 \in 1 .. slots /\ r + 1 # s + 1
      BY <1>0, <2>2
    <3>2. PICK i \in 1 .. Len(free) : free[i] = r
      BY Zenon, <1>1, <1>10, <3>1 DEF SlabInv
    <3>3. i \in 1 .. Len(free')
      BY <1>2
    <3>. QED
      BY Zenon, <1>2, <3>2, <3>3
  <2>. QED
    BY Zenon, <2>1, <2>2
<1>. QED
  BY Zenon, <1>1, <1>4, <1>5, <1>6, <1>8, <1>9, <1>10 DEF SlabInv

\* Popping the stack of free slots.
LEMMA Popped ==
    ASSUME NEW S, NEW f \in Seq(S), f # <<>>
    PROVE  /\ Len(SubSeq(f, 1, Len(f) - 1)) = Len(f) - 1
           /\ \A i \in 1 .. Len(f) - 1 : SubSeq(f, 1, Len(f) - 1)[i] = f[i]
<1>1. PICK n \in Nat : n + 1 = Len(f) /\ n = Len(f) - 1
  <2>1. Len(f) \in Nat \ {0}
    OBVIOUS
  <2>2. Len(f) - 1 \in Nat /\ (Len(f) - 1) + 1 = Len(f)
    BY <2>1
  <2>. QED
    BY Zenon, <2>2
<1>2. Len(SubSeq(f, 1, n)) = n
  BY <1>1
<1>3. ASSUME NEW i \in 1 .. n PROVE SubSeq(f, 1, n)[i] = f[i]
  BY <1>1
<1>. QED
  BY Zenon, <1>1, <1>2, <1>3

\* Tasks::insert takes the free slot on top of the stack, or grows the slab.
LEMMA SlabInsert ==
    ASSUME TypeOK, SlabInv, Insert
    PROVE  SlabInv'
<1>0. slots \in Nat /\ children \in Seq(0 .. MaxTasks) /\ free \in Seq(Slots) /\ slots <= MaxSlots
      /\ generation \in Nat /\ MaxTasks \in Nat /\ MaxSlots \in Nat
  BY TasksAssumption DEF TypeOK, slots
<1>1. /\ opc' # "polling" /\ generation' = generation + 1 /\ alive' = alive \cup {generation + 1}
      /\ generation < MaxTasks
  BY Zenon DEF Insert, Unborrowed
<1>. DEFINE g == generation + 1
<1>2. g \in Nat /\ g # 0 /\ g \in 0 .. MaxTasks /\ \A x \in 1 .. g : x \in 1 .. generation \/ x = g
  BY <1>0, <1>1
<1>3. \A i \in 1 .. slots : children[i] \in Nat /\ children[i] # g /\ children[i] <= g
  <2>1. \A i \in 1 .. slots : children[i] \in 0 .. MaxTasks
    BY <1>0 DEF slots
  <2>2. \A i \in 1 .. slots : children[i] <= generation
    BY Zenon DEF SlabInv
  <2>. QED
    BY <1>0, <2>1, <2>2
<1>4. \A i \in 1 .. Len(free) : free[i] \in Nat
  <2>1. \A i \in 1 .. Len(free) : free[i] \in Slots
    BY <1>0
  <2>. QED
    BY <1>0, <2>1 DEF Slots
<1>5. \A x \in 1 .. generation : x # g /\ x # 0
  BY <1>0
<1>6. ASSUME NEW n \in Nat, n \in 1 .. slots', slots' \in Nat, \A i \in 1 .. slots' : i \in 1 .. slots \/ i = n,
             children'[n] = g, n \in 1 .. slots => children[n] = 0,
             \A i \in 1 .. slots : i \in 1 .. slots' /\ (i # n => children'[i] = children[i])
      PROVE  /\ \A i \in 1 .. slots' : children'[i] <= g
             /\ \A i, j \in 1 .. slots' : children'[i] = children'[j] /\ children'[i] # 0 => i = j
             /\ \A x \in 1 .. g : x \in alive' <=> \E i \in 1 .. slots' : children'[i] = x
  <2>0. g <= g
    BY <1>2
  <2>1. \A i \in 1 .. slots' : children'[i] <= g
    BY Zenon, <1>3, <1>6, <2>0
  <2>2. \A i \in 1 .. slots' : i # n => i \in 1 .. slots /\ children'[i] = children[i] /\ children'[i] # g
    BY Zenon, <1>3, <1>6
  <2>3. \A i, j \in 1 .. slots' : children'[i] = children'[j] /\ children'[i] # 0 => i = j
    <3>1. ASSUME NEW i \in 1 .. slots', NEW j \in 1 .. slots', children'[i] = children'[j], children'[i] # 0
          PROVE  i = j
      <4>1. CASE i = n \/ j = n
        BY Zenon, <1>6, <2>2, <3>1, <4>1
      <4>2. CASE i # n /\ j # n
        <5>1. i \in 1 .. slots /\ j \in 1 .. slots /\ children[i] = children[j] /\ children[i] # 0
          BY Zenon, <2>2, <3>1, <4>2
        <5>. QED
          BY Zenon, <5>1 DEF SlabInv
      <4>. QED
        BY Zenon, <4>1, <4>2
    <3>. QED
      BY Zenon, <3>1
  <2>4. ASSUME NEW x \in 1 .. g PROVE x \in alive' <=> \E i \in 1 .. slots' : children'[i] = x
    <3>1. CASE x = g
      BY Zenon, <1>1, <1>6, <3>1
    <3>2. CASE x \in 1 .. generation
      <4>1. x \in alive' <=> \E i \in 1 .. slots : children[i] = x
        BY Zenon, <1>1, <1>5, <3>2 DEF SlabInv
      <4>2. ASSUME NEW i \in 1 .. slots, children[i] = x PROVE i \in 1 .. slots' /\ children'[i] = x
        BY Zenon, <1>5, <1>6, <3>2, <4>2
      <4>3. ASSUME NEW i \in 1 .. slots', children'[i] = x PROVE i \in 1 .. slots /\ children[i] = x
        BY Zenon, <1>5, <1>6, <2>2, <3>2, <4>3
      <4>. QED
        BY Zenon, <4>1, <4>2, <4>3
    <3>. QED
      BY Zenon, <1>2, <3>1, <3>2
  <2>. QED
    BY Zenon, <2>1, <2>3, <2>4
<1>7. CASE free # <<>>
  <2>. DEFINE s == free[Len(free)]
  <2>1. children' = [children EXCEPT ![s + 1] = g] /\ free' = SubSeq(free, 1, Len(free) - 1)
    BY Zenon, <1>7 DEF Insert
  <2>2. Len(free) \in 1 .. Len(free) /\ Len(free) \in Nat
    BY <1>0, <1>7
  <2>3. s \in Nat /\ s < slots /\ children[s + 1] = 0
    BY Zenon, <1>4, <2>2 DEF SlabInv
  <2>4. s + 1 \in 1 .. slots /\ s + 1 \in Nat
    BY <1>0, <2>3
  <2>. HIDE DEF g
  <2>5. /\ slots' = slots /\ \A i \in 1 .. slots : children'[i] = IF i = s + 1 THEN g ELSE children[i]
    BY <1>0, <2>1 DEF slots
  <2>6. /\ Len(free') = Len(free) - 1
        /\ \A i \in 1 .. Len(free') : i \in 1 .. Len(free) /\ free'[i] = free[i] /\ i # Len(free)
        /\ \A i \in 1 .. Len(free) : i \in 1 .. Len(free') \/ i = Len(free)
    <3>2. Len(free') = Len(free) - 1 /\ \A i \in 1 .. Len(free) - 1 : free'[i] = free[i]
      BY Zenon, <1>0, <1>7, <2>1, Popped
    <3>. QED
      BY <2>2, <3>2
  <2>. HIDE DEF s
  <2>7. /\ \A i \in 1 .. slots' : children'[i] <= g
        /\ \A i, j \in 1 .. slots' : children'[i] = children'[j] /\ children'[i] # 0 => i = j
        /\ \A x \in 1 .. g : x \in alive' <=> \E i \in 1 .. slots' : children'[i] = x
    <3>1. /\ slots' \in Nat /\ s + 1 \in 1 .. slots' /\ \A i \in 1 .. slots' : i \in 1 .. slots
          /\ children'[s + 1] = g /\ \A i \in 1 .. slots : i \in 1 .. slots' /\ (i # s + 1 => children'[i] = children[i])
      BY Zenon, <1>0, <2>4, <2>5
    <3>. QED
      BY Zenon, <1>6, <2>3, <2>4, <3>1
  <2>8. ASSUME NEW i \in 1 .. Len(free'), NEW j \in 1 .. Len(free'), free'[i] = free'[j] PROVE i = j
    <3>1. free[i] = free[j] /\ i \in 1 .. Len(free) /\ j \in 1 .. Len(free)
      BY Zenon, <2>6, <2>8
    <3>. QED
      BY Zenon, <3>1 DEF SlabInv
  <2>9. \A i \in 1 .. Len(free') : free'[i] < slots' /\ children'[free'[i] + 1] = 0
    <3>1. ASSUME NEW i \in 1 .. Len(free') PROVE free[i] < slots /\ children[free[i] + 1] = 0 /\ free[i] # s
      BY Zenon, <2>2, <2>6 DEF SlabInv, s
    <3>2. ASSUME NEW i \in 1 .. Len(free') PROVE free[i] + 1 \in 1 .. slots /\ free[i] + 1 # s + 1
      <4>1. free[i] \in Nat
        BY Zenon, <1>4, <2>6
      <4>2. slots \in Nat /\ s \in Nat /\ free[i] < slots /\ free[i] # s
        BY Zenon, <1>0, <2>3, <3>1
      <4>. QED
        BY <4>1, <4>2
    <3>. QED
      <4>1. ASSUME NEW i \in 1 .. Len(free') PROVE free'[i] < slots' /\ children'[free'[i] + 1] = 0
        <5>0. free'[i] = free[i] /\ children[free[i] + 1] = 0
          BY Zenon, <2>6, <3>1
        <5>1. children'[free[i] + 1] = 0
          BY Zenon, <2>5, <3>2, <5>0
        <5>. QED
          BY Zenon, <2>5, <3>1, <5>0, <5>1
      <4>. QED
        BY Zenon, <4>1
  <2>10. ASSUME NEW r \in 0 .. slots - 1, children'[r + 1] = 0 PROVE \E i \in 1 .. Len(free') : free'[i] = r
    <3>1. r + 1 \in 1 .. slots
      BY <1>0
    <3>2. children[r + 1] = 0 /\ r # s
      BY Zenon, <1>2, <2>5, <2>10, <3>1 DEF g
    <3>3. PICK i \in 1 .. Len(free) : free[i] = r
      BY Zenon, <3>2 DEF SlabInv
    <3>. QED
      BY Zenon, <2>6, <3>2, <3>3 DEF s
  <2>. QED
    BY Zenon, <1>1, <2>5, <2>7, <2>8, <2>9, <2>10 DEF SlabInv, g
<1>8. CASE free = <<>>
  <2>1. children' = Append(children, g) /\ free' = free
    BY Zenon, <1>8 DEF Insert
  <2>. HIDE DEF g
  <2>2. /\ slots' = slots + 1 /\ children'[slots + 1] = g /\ \A i \in 1 .. slots : children'[i] = children[i]
    BY <1>0, <1>2, <2>1 DEF slots
  <2>3. /\ slots + 1 \in Nat /\ slots + 1 \in 1 .. slots' /\ slots' \in Nat /\ slots + 1 \notin 1 .. slots
        /\ \A i \in 1 .. slots' : i \in 1 .. slots \/ i = slots + 1
        /\ \A i \in 1 .. slots : i \in 1 .. slots'
    BY <1>0, <2>2
  <2>4. /\ \A i \in 1 .. slots' : children'[i] <= g
        /\ \A i, j \in 1 .. slots' : children'[i] = children'[j] /\ children'[i] # 0 => i = j
        /\ \A x \in 1 .. g : x \in alive' <=> \E i \in 1 .. slots' : children'[i] = x
    BY Zenon, <1>6, <2>2, <2>3
  <2>5. Len(free) = 0 /\ 1 .. Len(free) = {} /\ 1 .. Len(free') = {}
    BY <1>8, <2>1
  <2>6. ASSUME NEW r \in (0 .. slots - 1)', children'[r + 1] = 0 PROVE FALSE
    <3>1. CASE r = slots
      BY Zenon, <1>2, <2>2, <2>6, <3>1 DEF g
    <3>2. CASE r # slots
      <4>1. r \in 0 .. slots - 1 /\ r + 1 \in 1 .. slots
        BY <1>0, <2>2, <3>2
      <4>. QED
        BY Zenon, <2>2, <2>5, <2>6, <4>1 DEF SlabInv
    <3>. QED
      BY Zenon, <3>1, <3>2
  <2>. QED
    BY Zenon, <1>1, <2>4, <2>5, <2>6 DEF SlabInv, g
<1>. QED
  BY Zenon, <1>7, <1>8

\* Which steps touch the slab, and what the others do to the slot being polled.
LEMMA SlabSteps ==
    ASSUME TypeOK, [Next]_vars
    PROVE  \/ Insert \/ (\E s \in Slots, g \in 1 .. generation : Remove(s, g)) \/ Return(TRUE) \/ Run
           \/ /\ UNCHANGED <<children, free, generation, alive, led, width, next, shape>>
              /\ opc' # "polling" \/ (opc' = opc /\ current' = current)
              /\ \/ UNCHANGED <<from, advanced>> /\ (opc \in {"sweep", "run", "polling"}
                                                       \/ opc' \notin {"sweep", "run", "polling"})
                 \/ SwapReady \/ PassDone
<1>1. ASSUME NEW p \in Threads, Waking(p) \/ \E s \in 0 .. slots - 1 : Wake(p, s)
      PROVE  UNCHANGED <<children, free, generation, alive, led, width, next, shape, from, advanced, opc, current>>
  BY Zenon, <1>1, WakingEffect
<1>2. CASE \/ \E k \in shape.owners, b \in BOOLEAN : Begin(k, b)
           \/ End \/ Release \/ \E b \in {1, Budget} : Passes(b)
  <2>1. /\ UNCHANGED <<children, free, generation, alive, led, width, next, shape, from, advanced>>
        /\ opc' \in {"turn", "idle", "release", "rearm"}
    BY Zenon, <1>2 DEF Begin, End, Release, Passes, slabVars, orderVars
  <2>. QED
    BY Zenon, <2>1
<1>3. CASE Rearm \/ SwapSummary \/ SwapWord \/ Swept
  <2>1. /\ UNCHANGED <<children, free, generation, alive, led, width, next, shape, from, advanced>>
        /\ opc' \in {"index", "run"} \/ opc' = opc
        /\ opc \in {"sweep"} \/ opc' = "index"
        /\ current' = current
    BY Zenon, <1>3 DEF Rearm, SwapSummary, SwapWord, Swept, slabVars, orderVars
  <2>. QED
    BY Zenon, <2>1
<1>4. CASE SwapReady \/ PassDone
  <2>1. /\ UNCHANGED <<children, free, generation, alive, led, width, next, shape>> /\ opc' \in {"sweep", "turn", "rearm"}
    BY Zenon, <1>4 DEF SwapReady, PassDone, slabVars, orderVars
  <2>. QED
    BY Zenon, <1>4, <2>1
<1>5. CASE Return(FALSE)
  <2>1. /\ UNCHANGED <<children, free, generation, alive, led, width, next, shape, from, advanced>>
        /\ opc = "polling" /\ opc' = "run"
    BY Zenon, <1>5 DEF Return, orderVars
  <2>. QED
    BY Zenon, <2>1
<1>6. CASE UNCHANGED vars
  <2>1. UNCHANGED <<children, free, generation, alive, led, width, next, shape, from, advanced, opc, current>>
    BY Zenon, <1>6 DEF vars, slabVars, ownerVars, orderVars
  <2>. QED
    BY Zenon, <2>1
<1>7. \A done \in BOOLEAN : Return(done) => Return(TRUE) \/ Return(FALSE)
  BY Zenon
<1>. QED
  BY Zenon, <1>1, <1>2, <1>3, <1>4, <1>5, <1>6, <1>7 DEF Next, Pass

\* What Run does when the slot it leads with is free, and when it holds a task.
LEMMA RunEffect ==
    ASSUME Counting, TypeOK, BitsInv, LedInv, Run
    PROVE  /\ UNCHANGED <<children, free, generation, alive, shape, from>> /\ opc = "run" /\ scratch # {}
           /\ Lead(scratch) \in scratch /\ Lead(scratch) \in 0 .. slots - 1
           /\ \A r \in scratch : Rotated(Lead(scratch)) <= Rotated(r)
           /\ scratch' = scratch \ {Lead(scratch)} /\ owed' = owed \ {Lead(scratch)}
           /\ \/ /\ children[Lead(scratch) + 1] = 0
                 /\ UNCHANGED <<opc, current, advanced, next, led, width>>
              \/ /\ children[Lead(scratch) + 1] # 0 /\ opc' = "polling" /\ current' = Lead(scratch) /\ advanced' = TRUE
                 /\ \/ advanced /\ UNCHANGED <<next, led, width>>
                    \/ ~advanced /\ next' = (Lead(scratch) + 1) % slots /\ led' = Lead(scratch)
                       /\ width' = slots
<1>1. slots \in Nat /\ from \in Nat /\ scratch \subseteq 0 .. slots - 1 /\ from <= slots
  BY DEF TypeOK, slots, BitsInv, LedInv
<1>. DEFINE s == Lead(scratch)
<1>2. /\ scratch # {} /\ opc = "run" /\ UNCHANGED <<children, free, generation, alive, shape, from>>
      /\ scratch' = scratch \ {s} /\ owed' = owed \ {s}
      /\ IF children[s + 1] = 0
           THEN UNCHANGED <<opc, current, advanced, orderVars>>
           ELSE /\ opc' = "polling"
                /\ current' = s
                /\ advanced' = TRUE
                /\ next' = IF advanced THEN next ELSE (s + 1) % slots
                /\ led' = IF advanced THEN led ELSE s
                /\ width' = IF advanced THEN width ELSE slots
  BY Zenon DEF Run, slabVars
<1>3. s \in scratch /\ \A r \in scratch : Rotated(s) <= Rotated(r)
  BY Zenon, <1>1, <1>2, LeadIn
<1>4. s \in 0 .. slots - 1
  BY Zenon, <1>1, <1>3
<1>5. CASE children[s + 1] = 0
  BY Zenon, <1>2, <1>3, <1>4, <1>5 DEF orderVars
<1>6. CASE children[s + 1] # 0
  <2>1. CASE advanced
    BY Zenon, <1>2, <1>3, <1>4, <1>6, <2>1
  <2>2. CASE ~advanced
    BY Zenon, <1>2, <1>3, <1>4, <1>6, <2>2
  <2>. QED
    BY Zenon, <2>1, <2>2
<1>. QED
  BY Zenon, <1>5, <1>6

\* Each live task keeps its one slot (Tasks::insert, remove and pass).
LEMMA SlabStep ==
    ASSUME Counting
    PROVE  TypeOK /\ BitsInv /\ LedInv /\ SlabInv /\ [Next]_vars => SlabInv'
<1> SUFFICES ASSUME TypeOK, BitsInv, LedInv, SlabInv, [Next]_vars PROVE SlabInv'
  OBVIOUS
<1>1. ASSUME NEW s \in Slots, NEW g \in 1 .. generation, Remove(s, g) PROVE SlabInv'
  <2>1. /\ s < slots /\ children[s + 1] = g /\ Vacate(s) /\ alive' = alive \ {g}
        /\ generation' = generation /\ opc' \in {"idle", "turn"}
    BY Zenon, <1>1 DEF Remove, Unborrowed, ownerVars
  <2>2. s \in Nat /\ g # 0
    BY TasksAssumption DEF Slots, TypeOK
  <2>. QED
    BY Zenon, <2>1, <2>2, SlabVacate
<1>2. CASE Return(TRUE)
  <2>1. /\ Vacate(current) /\ alive' = alive \ {children[current + 1]} /\ generation' = generation
        /\ opc' = "run" /\ opc = "polling"
    BY Zenon, <1>2 DEF Return
  <2>2. current \in Nat
    BY DEF TypeOK
  <2>3. current < slots /\ children[current + 1] # 0
    BY Zenon, <2>1 DEF SlabInv
  <2>. QED
    BY Zenon, <2>1, <2>2, <2>3, SlabVacate
<1>3. CASE Run
  <2>1. slots \in Nat
    BY DEF TypeOK, slots
  <2>2. Lead(scratch) < slots
    BY <1>3, <2>1, RunEffect
  <2>3. /\ UNCHANGED <<children, free, generation, alive>> /\ opc = "run"
        /\ opc' = opc \/ (current' = Lead(scratch) /\ children[Lead(scratch) + 1] # 0)
    BY Zenon, <1>3, RunEffect
  <2>. QED
    BY Zenon, <2>2, <2>3, SlabFrame
<1>. QED
  BY Zenon, <1>1, <1>2, <1>3, SlabSteps, SlabInsert, SlabFrame


\* A pass starts past the slot that led the last one (Tasks::next).
LEMMA LedStep ==
    ASSUME Counting
    PROVE  TypeOK /\ PassInv /\ BitsInv /\ LedInv /\ [Next]_vars => LedInv'
<1> SUFFICES ASSUME TypeOK, PassInv, BitsInv, LedInv, [Next]_vars PROVE LedInv'
  OBVIOUS
<1>0. slots \in Nat /\ from \in Nat /\ children \in Seq(0 .. MaxTasks) /\ MaxSlots \in Nat
      /\ led \in Slots \cup {None} /\ next \in Nat /\ width \in 0 .. MaxSlots
  BY TasksAssumption DEF TypeOK, slots
<1>1. ASSUME slots' = slots, UNCHANGED <<led, width, next, from, advanced>>,
             opc' \in {"sweep", "run", "polling"} /\ ~advanced => opc \in {"sweep", "run", "polling"}
      PROVE  LedInv'
  BY Zenon, <1>1 DEF LedInv
<1>2. ASSUME NEW s, children' = [children EXCEPT ![s + 1] = 0] PROVE slots' = slots
  BY <1>0, <1>2 DEF slots
<1>3. CASE Insert
  <2>1. UNCHANGED <<from, advanced, led, width, next, opc>> /\ opc \in {"idle", "turn"}
    BY Zenon, <1>3 DEF Insert, Unborrowed, orderVars
  <2>2. CASE free # <<>>
    <3>1. slots' = slots
      <4>1. children' = [children EXCEPT ![free[Len(free)] + 1] = generation + 1]
        BY Zenon, <1>3, <2>2 DEF Insert
      <4>. QED
        BY <1>0, <4>1 DEF slots
    <3>. QED
      BY Zenon, <1>1, <2>1, <2>2, <3>1
  <2>3. CASE free = <<>>
    <3>1. slots' = slots + 1
      <4>1. children' = Append(children, generation + 1)
        BY Zenon, <1>3, <2>3 DEF Insert
      <4>. QED
        BY <1>0, <4>1 DEF slots
    <3>2. from <= slots + 1 /\ (led # None => width <= slots + 1)
      BY <1>0 DEF LedInv
    <3>. QED
      BY Zenon, <2>1, <2>3, <3>1, <3>2 DEF LedInv
  <2>. QED
    BY Zenon, <2>2, <2>3
<1>4. ASSUME NEW s \in Slots, NEW g \in 1 .. generation, Remove(s, g) PROVE LedInv'
  <2>1. UNCHANGED <<led, width, next, from, advanced, opc>> /\ children' = [children EXCEPT ![s + 1] = 0]
    BY Zenon, <1>4 DEF Remove, Vacate, ownerVars, orderVars
  <2>. QED
    BY Zenon, <1>1, <1>2, <2>1
<1>5. CASE Return(TRUE)
  <2>1. UNCHANGED <<led, width, next, from, advanced>> /\ children' = [children EXCEPT ![current + 1] = 0] /\ opc = "polling"
    BY Zenon, <1>5 DEF Return, Vacate, orderVars
  <2>. QED
    BY Zenon, <1>1, <1>2, <2>1
<1>6. CASE Run
  <2>. DEFINE s == Lead(scratch)
  <2>1. /\ UNCHANGED <<children, from>> /\ opc = "run" /\ s \in 0 .. slots - 1
        /\ \/ UNCHANGED <<opc, advanced, next, led, width>>
           \/ advanced' = TRUE /\ UNCHANGED <<next, led, width>>
           \/ advanced' = TRUE /\ next' = (s + 1) % slots /\ led' = s /\ width' = slots
    BY Zenon, <1>6, RunEffect
  <2>. HIDE DEF s
  <2>2. slots' = slots /\ s + 1 <= slots /\ slots <= slots
    BY <1>0, <2>1 DEF slots
  <2>3. CASE UNCHANGED <<opc, advanced, next, led, width>>
    BY Zenon, <1>1, <2>1, <2>2, <2>3
  <2>4. CASE advanced' = TRUE /\ UNCHANGED <<next, led, width>>
    BY Zenon, <2>1, <2>2, <2>4 DEF LedInv
  <2>5. CASE advanced' = TRUE /\ next' = (s + 1) % slots /\ led' = s /\ width' = slots
    BY Zenon, <2>1, <2>2, <2>5 DEF LedInv
  <2>. QED
    BY Zenon, <2>1, <2>3, <2>4, <2>5
<1>7. CASE SwapReady
  <2>1. UNCHANGED <<children, led, width, next>> /\ from' = IF next < slots THEN next ELSE slots
    BY Zenon, <1>7 DEF SwapReady, slabVars, orderVars
  <2>2. slots' = slots
    BY Zenon, <2>1 DEF slots
  <2>3. from' <= slots
    BY <1>0, <2>1
  <2>. QED
    BY Zenon, <2>1, <2>2, <2>3 DEF LedInv
<1>8. CASE PassDone
  <2>1. UNCHANGED <<children, led, width, next>> /\ from' = 0 /\ opc' \in {"turn", "rearm"}
    BY Zenon, <1>8 DEF PassDone, slabVars, orderVars
  <2>2. slots' = slots
    BY Zenon, <2>1 DEF slots
  <2>3. from' <= slots
    BY <1>0, <2>1
  <2>. QED
    BY Zenon, <2>1, <2>2, <2>3 DEF LedInv
<1>9. CASE /\ UNCHANGED <<children, led, width, next, from, advanced>>
           /\ opc \in {"sweep", "run", "polling"} \/ opc' \notin {"sweep", "run", "polling"}
  BY Zenon, <1>1, <1>9 DEF slots
<1>. QED
  BY Zenon, <1>3, <1>4, <1>5, <1>6, <1>7, <1>8, <1>9, SlabSteps

-----------------------------------------------------------------------------
(* The types, by part.                                                     *)

SlabTypes ==
    /\ children \in Seq(0 .. MaxTasks) /\ slots <= MaxSlots /\ free \in Seq(Slots)
    /\ generation \in 0 .. MaxTasks /\ alive \subseteq 1 .. MaxTasks
IndexTypes ==
    /\ bits \subseteq Slots /\ scratch \subseteq Slots /\ owed \subseteq Slots
    /\ summary \subseteq {Word(s) : s \in Slots} /\ words \subseteq {Word(s) : s \in Slots}
    /\ chunks \subseteq {Chunk(s) : s \in Slots}
    /\ ready \subseteq 0 .. WORD_BITS - 1
OwnerTypes ==
    /\ pending \in BOOLEAN /\ polled \in BOOLEAN /\ batch \in BOOLEAN /\ held \in BOOLEAN /\ advanced \in BOOLEAN
    /\ parent \in Owners \cup {None} /\ owner \in Owners /\ woken \subseteq Owners
    /\ opc \in {"idle", "turn", "rearm", "index", "sweep", "run", "polling", "release"}
    /\ next \in Nat /\ from \in Nat /\ current \in Nat /\ led \in Slots \cup {None} /\ width \in 0 .. MaxSlots
PassesLeft == left \in 0 .. Budget /\ (opc \in PassPCs => left \in 1 .. Budget)
WakeTypes ==
    /\ wpc \in [Threads -> {"idle", "summary", "ready", "parent", "clone", "wake"}]
    /\ wslot \in [Threads -> Slots \cup {0}]
    /\ target \in [Threads -> Owners \cup {None}]
    /\ \A p \in Threads : wpc[p] = "wake" => target[p] # None

\* The parts are the whole.
LEMMA TypesByPart ==
    Types <=> shape \in Shapes /\ SlabTypes /\ IndexTypes /\ OwnerTypes /\ PassesLeft /\ WakeTypes
<1>1. ({pending, polled, batch, held, advanced} \subseteq BOOLEAN)
        <=> (pending \in BOOLEAN /\ polled \in BOOLEAN /\ batch \in BOOLEAN /\ held \in BOOLEAN /\ advanced \in BOOLEAN)
  BY SMT
<1>2. ({next, from, current} \subseteq Nat) <=> (next \in Nat /\ from \in Nat /\ current \in Nat)
  BY SMT
<1>. QED
  BY Zenon, <1>1, <1>2 DEF Types, TypeOK, SlabTypes, IndexTypes, OwnerTypes, PassesLeft, WakeTypes

\* The widths, and the slots the slab has.
LEMMA SlotFacts ==
    ASSUME Types, SlabInv
    PROVE  /\ WORD_BITS \in Nat \ {0} /\ CHUNK_WORDS \in Nat \ {0} /\ Budget \in Nat \ {0}
           /\ shape.owners \subseteq Owners
           /\ MaxSlots \in Nat /\ MaxTasks \in Nat /\ slots \in Nat /\ slots <= MaxSlots /\ 0 .. slots - 1 \subseteq Slots
           /\ \A s \in Slots : s \in Nat /\ Top(Chunk(s)) \in 0 .. WORD_BITS - 1
           /\ Chunks \subseteq {Chunk(s) : s \in Slots}
<1>1. /\ WORD_BITS \in Nat \ {0} /\ CHUNK_WORDS \in Nat \ {0} /\ Budget \in Nat \ {0} /\ shape.owners \subseteq Owners
  BY Zenon, TasksAssumption DEF Types, WORD_BITS, CHUNK_WORDS, Budget
<1>2. MaxSlots \in Nat /\ MaxTasks \in Nat
  BY Zenon, TasksAssumption
<1>3. slots \in Nat /\ slots <= MaxSlots
  BY DEF Types, TypeOK, slots
<1>4. 0 .. slots - 1 \subseteq Slots /\ \A s \in Slots : s \in Nat
  BY <1>2, <1>3 DEF Slots
<1>5. ASSUME NEW s \in Slots PROVE Top(Chunk(s)) \in 0 .. WORD_BITS - 1
  <2>1. Word(s) \in Nat
    BY <1>1, <1>4 DEF Word
  <2>2. Chunk(s) \in Nat
    BY <1>1, <2>1 DEF Chunk
  <2>. QED
    BY <1>1, <2>2 DEF Top
<1>. QED
  BY Zenon, <1>1, <1>2, <1>3, <1>4, <1>5 DEF Chunks

\* A sequence is a function on its positions.
LEMMA SeqIsFun ==
    ASSUME NEW S, NEW q \in Seq(S)
    PROVE  Len(q) \in Nat /\ q \in [1 .. Len(q) -> S]
OBVIOUS

\* A function on positions is a sequence.
LEMMA FunIsSeq ==
    ASSUME NEW S, NEW n \in Nat, NEW q \in [1 .. n -> S]
    PROVE  q \in Seq(S) /\ Len(q) = n
OBVIOUS

\* Changing a slot keeps the slab a sequence.
LEMMA SlotSet ==
    ASSUME TypeOK, \E i : \E v \in 0 .. MaxTasks : children' = [children EXCEPT ![i] = v]
    PROVE  children' \in Seq(0 .. MaxTasks) /\ slots' = slots
<1>0. PICK i : \E v \in 0 .. MaxTasks : children' = [children EXCEPT ![i] = v]
  BY Zenon
<1>1. PICK n \in Nat : n = Len(children) /\ children \in [1 .. n -> 0 .. MaxTasks]
  <2>1. children \in Seq(0 .. MaxTasks)
    BY Zenon DEF TypeOK
  <2>2. Len(children) \in Nat /\ children \in [1 .. Len(children) -> 0 .. MaxTasks]
    BY Zenon, <2>1, SeqIsFun
  <2>. QED
    BY Zenon, <2>2
<1>2. children' \in [1 .. n -> 0 .. MaxTasks]
  BY Zenon, <1>0, <1>1
<1>3. children' \in Seq(0 .. MaxTasks) /\ Len(children') = n
  BY Zenon, <1>2, FunIsSeq
<1>. QED
  BY Zenon, <1>1, <1>3 DEF slots

\* The slab.
LEMMA SlabTypesStep ==
    ASSUME Types, SlabInv, [Next]_vars
    PROVE  SlabTypes' /\ shape' = shape
<1>0. /\ children \in Seq(0 .. MaxTasks) /\ slots <= MaxSlots /\ free \in Seq(Slots)
      /\ generation \in 0 .. MaxTasks /\ alive \subseteq 1 .. MaxTasks
  BY Zenon DEF Types, TypeOK
<1>1. MaxSlots \in Nat /\ MaxTasks \in Nat /\ slots \in Nat
  BY Zenon, SlotFacts
<1>2. CASE UNCHANGED <<children, free, generation, alive, shape>>
  BY Zenon, <1>0, <1>2 DEF SlabTypes, slots
<1>3. ASSUME NEW s \in Slots, Vacate(s), alive' \subseteq alive, UNCHANGED <<generation, shape>>
      PROVE  SlabTypes' /\ shape' = shape
  <2>1. children' = [children EXCEPT ![s + 1] = 0] /\ free' = Append(free, s)
    BY Zenon, <1>3 DEF Vacate
  <2>2. children' \in Seq(0 .. MaxTasks) /\ slots' = slots
    <3>1. 0 \in 0 .. MaxTasks
      BY <1>1
    <3>. QED
      BY Zenon, <2>1, <3>1, SlotSet DEF Types
  <2>3. free' \in Seq(Slots)
    BY <1>0, <2>1
  <2>. QED
    BY Zenon, <1>0, <1>3, <2>2, <2>3 DEF SlabTypes
<1>4. ASSUME NEW s \in Slots, NEW g \in 1 .. generation, Remove(s, g) PROVE SlabTypes' /\ shape' = shape
  <2>1. Vacate(s) /\ alive' \subseteq alive /\ UNCHANGED <<generation, shape>>
    BY Zenon, <1>4 DEF Remove
  <2>. QED
    BY Zenon, <1>3, <2>1
<1>5. CASE Return(TRUE)
  <2>1. Vacate(current) /\ alive' \subseteq alive /\ UNCHANGED <<generation, shape>> /\ opc = "polling"
    BY Zenon, <1>5 DEF Return
  <2>2. current \in Nat
    BY DEF Types, TypeOK
  <2>3. current < slots
    BY Zenon, <2>1 DEF SlabInv
  <2>4. current \in Slots
    BY <1>0, <1>1, <2>2, <2>3 DEF Slots
  <2>. QED
    BY Zenon, <1>3, <2>1, <2>4
<1>6. CASE Insert
  <2>1. /\ generation < MaxTasks /\ (free # <<>> \/ slots < MaxSlots) /\ generation' = generation + 1
        /\ alive' = alive \cup {generation + 1} /\ shape' = shape
    BY Zenon, <1>6 DEF Insert
  <2>2. generation + 1 \in 1 .. MaxTasks /\ generation + 1 \in 0 .. MaxTasks
    BY <1>0, <1>1, <2>1
  <2>3. CASE free # <<>>
    <3>1. /\ children' = [children EXCEPT ![free[Len(free)] + 1] = generation + 1]
          /\ free' = SubSeq(free, 1, Len(free) - 1)
      BY Zenon, <1>6, <2>3 DEF Insert
    <3>2. children' \in Seq(0 .. MaxTasks) /\ slots' = slots
      BY Zenon, <2>2, <3>1, SlotSet DEF Types
    <3>3. free' \in Seq(Slots)
      BY <1>0, <2>3, <3>1
    <3>. QED
      BY Zenon, <1>0, <2>1, <2>2, <3>2, <3>3 DEF SlabTypes
  <2>4. CASE free = <<>>
    <3>1. /\ children' = Append(children, generation + 1) /\ free' = free
      BY Zenon, <1>6, <2>4 DEF Insert
    <3>2. children' \in Seq(0 .. MaxTasks) /\ slots' = slots + 1
      BY <1>0, <2>2, <3>1 DEF slots
    <3>3. slots' <= MaxSlots
      BY <1>1, <2>1, <2>4, <3>2
    <3>. QED
      BY Zenon, <1>0, <2>1, <2>2, <3>1, <3>2, <3>3 DEF SlabTypes
  <2>. QED
    BY Zenon, <2>3, <2>4
<1>7. ASSUME Run PROVE UNCHANGED <<children, free, generation, alive, shape>>
  BY Zenon, <1>7 DEF Run, slabVars
<1>. QED
  BY Zenon, <1>2, <1>4, <1>5, <1>6, <1>7, SlabSteps DEF Types

\* The threads that wake, and what a wake marks.
LEMMA WakeTypesStep ==
    ASSUME Types, BitsInv, SlabInv, [Next]_vars
    PROVE  WakeTypes' /\ IndexTypes'
<1>0. /\ WakeTypes /\ IndexTypes /\ parent \in Owners \cup {None} /\ TypeOK /\ shape' = shape
  BY Zenon, TypesByPart, SlabTypesStep DEF OwnerTypes, Types
<1>1. 0 .. slots - 1 \subseteq Slots /\ slots \in Nat
  BY Zenon, SlotFacts
<1>2. ASSUME UNCHANGED <<bits, summary, ready, words, chunks>>, scratch' \subseteq scratch, owed' \subseteq owed
      PROVE  IndexTypes'
  BY Zenon, <1>0, <1>2 DEF IndexTypes, Word, Chunk, WORD_BITS, CHUNK_WORDS
<1>3. ASSUME UNCHANGED <<wpc, wslot, target>> PROVE WakeTypes'
  BY Zenon, <1>0, <1>3 DEF WakeTypes
<1>4. ASSUME NEW p \in Threads, NEW s \in Slots, SetBit(p, s), UNCHANGED <<target, summary, ready, words, chunks, scratch>>
      PROVE  WakeTypes' /\ IndexTypes'
  <2>1. /\ bits' = bits \cup {s} /\ owed' = owed \cup {s}
        /\ wpc'[p] \in {"idle", "parent", "summary"} /\ wslot'[p] \in Slots \cup {0}
        /\ wslot' = [wslot EXCEPT ![p] = wslot'[p]] /\ wpc' = [wpc EXCEPT ![p] = wpc'[p]]
    BY Zenon, <1>0, <1>4, SetBitEffect
  <2>2. WakeTypes'
    BY Zenon, <1>0, <1>4, <2>1 DEF WakeTypes
  <2>3. IndexTypes'
    BY Zenon, <1>0, <1>4, <2>1 DEF IndexTypes, Word, Chunk, WORD_BITS, CHUNK_WORDS
  <2>. QED
    BY Zenon, <2>2, <2>3
<1>5. ASSUME NEW p \in Threads, NEW s \in 0 .. slots - 1, Wake(p, s) PROVE WakeTypes' /\ IndexTypes'
  BY Zenon, <1>1, <1>4, <1>5 DEF Wake, ownerVars
<1>6. ASSUME NEW p \in Threads, MarkSummary(p) PROVE WakeTypes' /\ IndexTypes'
  <2>1. /\ wpc[p] = "summary" /\ summary' = summary \cup {Word(wslot[p])} /\ UNCHANGED <<wslot, target>>
        /\ UNCHANGED <<bits, ready, words, chunks, scratch, owed>>
        /\ \E x \in {"parent", "ready"} : wpc' = [wpc EXCEPT ![p] = x]
    BY Zenon, <1>6 DEF MarkSummary, Goto, ownerVars
  <2>2. wslot[p] \in Slots
    BY Zenon, <1>1, <2>1 DEF BitsInv
  <2>3. IndexTypes'
    BY Zenon, <1>0, <2>1, <2>2 DEF IndexTypes, Word, Chunk, WORD_BITS, CHUNK_WORDS
  <2>4. WakeTypes'
    BY Zenon, <1>0, <2>1 DEF WakeTypes
  <2>. QED
    BY Zenon, <2>3, <2>4
<1>7. ASSUME NEW p \in Threads, MarkReady(p) PROVE WakeTypes' /\ IndexTypes'
  <2>1. /\ wpc[p] = "ready" /\ ready' = ready \cup {Top(Chunk(wslot[p]))} /\ UNCHANGED <<wslot, target>>
        /\ UNCHANGED <<bits, summary, words, chunks, scratch, owed>>
        /\ wpc' = [wpc EXCEPT ![p] = "parent"]
    BY Zenon, <1>7 DEF MarkReady, Goto, ownerVars
  <2>2. wslot[p] \in Slots
    BY Zenon, <1>1, <2>1 DEF BitsInv
  <2>3. ready' \subseteq 0 .. WORD_BITS - 1
    BY Zenon, <1>0, <2>1, <2>2, SlotFacts DEF IndexTypes
  <2>4. IndexTypes'
    BY Zenon, <1>0, <2>1, <2>3 DEF IndexTypes, Word, Chunk, WORD_BITS, CHUNK_WORDS
  <2>5. WakeTypes'
    BY Zenon, <1>0, <2>1 DEF WakeTypes
  <2>. QED
    BY Zenon, <2>4, <2>5
<1>8. ASSUME NEW p \in Threads, SwapPending(p) \/ CloneParent(p) \/ WakeParent(p) PROVE WakeTypes' /\ IndexTypes'
  <2>1. /\ UNCHANGED <<bits, summary, ready, words, chunks, scratch, owed>>
        /\ \E x \in {"idle", "clone", "wake"} : wpc' = [wpc EXCEPT ![p] = x]
        /\ wslot' = wslot \/ wslot' = [wslot EXCEPT ![p] = 0]
        /\ \/ target' = target /\ \E x \in {"idle", "clone"} : wpc' = [wpc EXCEPT ![p] = x]
           \/ target' = [target EXCEPT ![p] = None] /\ wpc' = [wpc EXCEPT ![p] = "idle"]
           \/ target' = [target EXCEPT ![p] = parent] /\ (parent # None \/ wpc' = [wpc EXCEPT ![p] = "idle"])
    <3>1. CASE SwapPending(p)
      BY Zenon, <3>1 DEF SwapPending, Goto, indexVars, ownerVars
    <3>2. CASE CloneParent(p)
      BY Zenon, <3>2 DEF CloneParent, Goto, indexVars, ownerVars
    <3>3. CASE WakeParent(p)
      BY Zenon, <3>3 DEF WakeParent, Goto, indexVars, ownerVars
    <3>. QED
      BY Zenon, <1>8, <3>1, <3>2, <3>3
  <2>2. wslot' \in [Threads -> Slots \cup {0}] /\ target' \in [Threads -> Owners \cup {None}]
    <3>1. wslot' = wslot \/ wslot' = [wslot EXCEPT ![p] = 0]
      BY Zenon, <2>1
    <3>2. target' = target \/ \E y \in Owners \cup {None} : target' = [target EXCEPT ![p] = y]
      BY Zenon, <1>0, <2>1
    <3>3. wslot' \in [Threads -> Slots \cup {0}]
      BY Zenon, <1>0, <3>1 DEF WakeTypes
    <3>4. target' \in [Threads -> Owners \cup {None}]
      BY Zenon, <1>0, <3>2 DEF WakeTypes
    <3>. QED
      BY Zenon, <3>3, <3>4
  <2>3. \A q \in Threads : wpc'[q] = "wake" => target'[q] # None
    BY Zenon, <1>0, <2>1 DEF WakeTypes
  <2>4. WakeTypes'
    BY Zenon, <1>0, <2>1, <2>2, <2>3 DEF WakeTypes
  <2>. QED
    BY Zenon, <1>2, <2>1, <2>4
<1>9. CASE Insert
  <2>1. UNCHANGED <<target, summary, ready, words, chunks, scratch>>
    BY Zenon, <1>9 DEF Insert
  <2>2. Self \in Threads
    BY Zenon DEF Threads
  <2>3. CASE free # <<>>
    <3>1. Len(free) \in 1 .. Len(free) /\ free \in Seq(Slots)
      BY <2>3 DEF Types, TypeOK
    <3>2. free[Len(free)] \in Slots
      BY <3>1
    <3>. QED
      BY Zenon, <1>4, <1>9, <2>1, <2>2, <2>3, <3>2 DEF Insert
  <2>4. CASE free = <<>>
    <3>1. slots < MaxSlots /\ SetBit(Self, slots)
      BY Zenon, <1>9, <2>4 DEF Insert
    <3>2. slots \in Slots
      BY <1>1, <3>1, TasksAssumption DEF Slots
    <3>. QED
      BY Zenon, <1>4, <2>1, <2>2, <3>1, <3>2
  <2>. QED
    BY Zenon, <2>3, <2>4
<1>10. ASSUME NEW s \in Slots, NEW g \in 1 .. generation, Remove(s, g) PROVE WakeTypes' /\ IndexTypes'
  <2>1. UNCHANGED <<bits, summary, ready, words, chunks, scratch, wpc, wslot, target>> /\ owed' \subseteq owed
    BY Zenon, <1>10 DEF Remove, indexVars, ownerVars, wakeVars
  <2>. QED
    BY Zenon, <1>2, <1>3, <2>1
<1>11. CASE \/ \E k \in shape.owners, b \in BOOLEAN : Begin(k, b)
            \/ End \/ Release \/ \E b \in {1, Budget} : Passes(b)
  <2>1. UNCHANGED <<bits, summary, ready, words, chunks, scratch, owed, wpc, wslot, target>>
    BY Zenon, <1>11 DEF Begin, End, Release, Passes, indexVars, wakeVars
  <2>. QED
    BY Zenon, <1>2, <1>3, <2>1
<1>12. CASE Rearm \/ Swept \/ Run \/ PassDone
  <2>1. /\ UNCHANGED <<bits, summary, ready, words, chunks, wpc, wslot, target>>
        /\ scratch' \subseteq scratch /\ owed' \subseteq owed
    BY Zenon, <1>12 DEF Rearm, Swept, Run, PassDone, indexVars, wakeVars
  <2>. QED
    BY Zenon, <1>2, <1>3, <2>1
<1>13. ASSUME NEW done \in BOOLEAN, Return(done) PROVE WakeTypes' /\ IndexTypes'
  <2>1. UNCHANGED <<bits, summary, ready, words, chunks, scratch, wpc, wslot, target>> /\ owed' \subseteq owed
    BY Zenon, <1>13 DEF Return, indexVars, wakeVars
  <2>. QED
    BY Zenon, <1>2, <1>3, <2>1
<1>14. CASE SwapReady \/ SwapSummary \/ SwapWord
  <2>1. /\ UNCHANGED <<wpc, wslot, target, owed>>
        /\ bits' \subseteq bits /\ summary' \subseteq summary /\ ready' \subseteq ready
        /\ scratch' \subseteq scratch \cup bits
        /\ words' \subseteq words \cup summary /\ chunks' \subseteq chunks \cup Chunks
    <3>1. CASE SwapReady
      BY Zenon, <3>1 DEF SwapReady, wakeVars
    <3>2. CASE SwapSummary
      BY Zenon, <3>2 DEF SwapSummary, wakeVars
    <3>3. CASE SwapWord
      BY Zenon, <3>3 DEF SwapWord, wakeVars
    <3>. QED
      BY Zenon, <1>14, <3>1, <3>2, <3>3
  <2>2. chunks' \subseteq {Chunk(s) : s \in Slots}
    BY Zenon, <1>0, <2>1, SlotFacts DEF IndexTypes
  <2>3. IndexTypes'
    BY Zenon, <1>0, <2>1, <2>2 DEF IndexTypes, Word, Chunk, WORD_BITS, CHUNK_WORDS
  <2>. QED
    BY Zenon, <1>3, <2>1, <2>3
<1>15. CASE UNCHANGED vars
  <2>1. UNCHANGED <<bits, summary, ready, words, chunks, scratch, owed, wpc, wslot, target>>
    BY Zenon, <1>15 DEF vars, indexVars, ownerVars, wakeVars
  <2>. QED
    BY Zenon, <1>2, <1>3, <2>1
<1>. QED
  BY Zenon, <1>5, <1>6, <1>7, <1>8, <1>9, <1>10, <1>11, <1>12, <1>13, <1>14, <1>15 DEF Next, Pass, Waking

\* The owner, and the passes it may still run.
LEMMA OwnerTypesStep ==
    ASSUME Counting, Types, BitsInv, SlabInv, LedInv, [Next]_vars, shape' = shape
    PROVE  OwnerTypes' /\ PassesLeft'
<1>0. /\ OwnerTypes /\ PassesLeft /\ WakeTypes /\ TypeOK /\ slots \in Nat /\ Budget' = Budget
      /\ Budget \in Nat \ {0} /\ shape.owners \subseteq Owners
  BY Zenon, TypesByPart, SlotFacts DEF Types, Budget
<1>1. ASSUME UNCHANGED <<opc, left>> PROVE PassesLeft'
  BY Zenon, <1>0, <1>1 DEF PassesLeft
<1>2. ASSUME NEW p \in Threads, Waking(p) \/ \E s \in 0 .. slots - 1 : Wake(p, s) PROVE OwnerTypes' /\ PassesLeft'
  <2>1. UNCHANGED <<parent, opc, owner, polled, batch, left, from, advanced, current, next, led, width>>
    BY Zenon, <1>0, <1>2, WakingEffect
  <2>2. wpc[p] = "wake" => target[p] \in Owners
    BY Zenon, <1>0 DEF WakeTypes
  <2>3. pending' \in BOOLEAN /\ held' \in BOOLEAN
    BY Zenon, <1>0, <1>2 DEF OwnerTypes, Waking, Wake, MarkSummary, MarkReady, SwapPending, CloneParent, WakeParent,
       parentVars
  <2>4. woken' = woken \/ (wpc[p] = "wake" /\ woken' = woken \cup {target[p]})
    BY Zenon, <1>2 DEF Waking, Wake, MarkSummary, MarkReady, SwapPending, CloneParent, WakeParent, parentVars
  <2>. QED
    BY Zenon, <1>0, <1>1, <2>1, <2>2, <2>3, <2>4 DEF OwnerTypes
<1>3. CASE Insert \/ (\E s \in Slots, g \in 1 .. generation : Remove(s, g)) \/ UNCHANGED vars
  <2>1. /\ UNCHANGED <<pending, parent, held, woken, opc, owner, polled, batch, left, from, advanced, current>>
        /\ UNCHANGED <<next, led, width>>
    BY Zenon, <1>3 DEF Insert, Remove, vars, parentVars, ownerVars, orderVars
  <2>. QED
    BY Zenon, <1>0, <1>1, <2>1 DEF OwnerTypes
<1>4. CASE \/ \E k \in shape.owners, b \in BOOLEAN : Begin(k, b)
           \/ End \/ Release
  <2>1. /\ UNCHANGED <<pending, parent, left, from, advanced, current, next, led, width>>
        /\ opc' \in {"turn", "idle", "release"} /\ owner' \in shape.owners \cup {owner}
        /\ polled' \in {polled, FALSE} /\ held' \in {held, FALSE} /\ (batch' = batch \/ batch' \in BOOLEAN)
        /\ woken' \subseteq woken \/ (parent # None /\ woken' = woken \cup {parent})
    <3>1. CASE \E k \in shape.owners, b \in BOOLEAN : Begin(k, b)
      BY Zenon, <3>1 DEF Begin, orderVars
    <3>2. CASE End
      BY Zenon, <3>2 DEF End, parentVars, orderVars
    <3>3. CASE Release
      BY Zenon, <3>3 DEF Release, orderVars
    <3>. QED
      BY Zenon, <1>4, <3>1, <3>2, <3>3
  <2>2. woken' \subseteq Owners
    <3>1. woken \subseteq Owners /\ (parent # None => parent \in Owners)
      BY Zenon, <1>0 DEF OwnerTypes
    <3>2. woken' \subseteq woken \/ (parent # None /\ woken' = woken \cup {parent})
      BY Zenon, <2>1
    <3>. QED
      BY Zenon, <3>1, <3>2
  <2>3. opc' \notin PassPCs
    BY Zenon, <2>1 DEF PassPCs
  <2>4. owner' \in Owners
    BY Zenon, <1>0, <2>1 DEF OwnerTypes
  <2>5. polled' \in BOOLEAN /\ held' \in BOOLEAN /\ batch' \in BOOLEAN
    BY Zenon, <1>0, <2>1 DEF OwnerTypes
  <2>6. UNCHANGED <<pending, parent, from, advanced, current, next, led, width>> /\ opc' \in {"turn", "idle", "release"}
    BY Zenon, <2>1
  <2>7. OwnerTypes'
    BY Zenon, <1>0, <2>2, <2>4, <2>5, <2>6 DEF OwnerTypes
  <2>. QED
    BY Zenon, <1>0, <2>1, <2>3, <2>7 DEF PassesLeft
<1>5. ASSUME NEW b \in {1, Budget}, Passes(b) PROVE OwnerTypes' /\ PassesLeft'
  <2>1. /\ UNCHANGED <<pending, held, woken, owner, batch, from, advanced, current, next, led, width>>
        /\ parent' = owner /\ polled' = TRUE /\ left' = b /\ opc' = "rearm"
    BY Zenon, <1>5 DEF Passes, orderVars
  <2>2. b \in 1 .. Budget /\ b \in 0 .. Budget
    BY <1>0
  <2>3. OwnerTypes'
    BY Zenon, <1>0, <2>1 DEF OwnerTypes
  <2>. QED
    BY Zenon, <1>0, <2>1, <2>2, <2>3 DEF PassesLeft
<1>6. CASE Rearm \/ SwapSummary \/ SwapWord \/ Swept \/ SwapReady
  <2>1. /\ UNCHANGED <<parent, held, woken, owner, batch, polled, left, advanced, current, next, led, width>>
        /\ opc \in PassPCs /\ opc' \in {"index", "sweep", "run"} /\ pending' \in {pending, FALSE}
        /\ from' \in {from, next, slots}
    <3>1. CASE Rearm
      BY Zenon, <3>1 DEF Rearm, orderVars, PassPCs
    <3>2. CASE SwapSummary \/ SwapWord \/ Swept
      BY Zenon, <3>2 DEF SwapSummary, SwapWord, Swept, orderVars, parentVars, PassPCs
    <3>3. CASE SwapReady
      BY Zenon, <3>3 DEF SwapReady, orderVars, parentVars, PassPCs
    <3>. QED
      BY Zenon, <1>6, <3>1, <3>2, <3>3
  <2>2. pending' \in BOOLEAN /\ from' \in Nat
    BY Zenon, <1>0, <2>1 DEF OwnerTypes
  <2>3. OwnerTypes'
    BY Zenon, <1>0, <2>1, <2>2 DEF OwnerTypes
  <2>. QED
    BY Zenon, <1>0, <2>1, <2>3 DEF PassesLeft
<1>7. CASE Run
  <2>. DEFINE s == Lead(scratch)
  <2>1. /\ UNCHANGED <<pending, parent, held, woken, owner, batch, polled, left>>
    BY Zenon, <1>7 DEF Run, parentVars
  <2>2. /\ from' = from /\ opc = "run" /\ s \in 0 .. slots - 1 /\ opc' \in {opc, "polling"}
        /\ current' \in {current, s} /\ advanced' \in {advanced, TRUE}
        /\ next' \in {next, (s + 1) % slots} /\ led' \in {led, s} /\ width' \in {width, slots}
    BY Zenon, <1>0, <1>7, RunEffect
  <2>. HIDE DEF s
  <2>3. s \in Nat /\ (s + 1) % slots \in Nat
    BY <1>0, <2>2
  <2>4. s \in Slots
    BY Zenon, <2>2, SlotFacts
  <2>5. current' \in Nat /\ next' \in Nat /\ led' \in Slots \cup {None} /\ advanced' \in BOOLEAN
    BY Zenon, <1>0, <2>2, <2>3, <2>4 DEF OwnerTypes
  <2>6. width' \in 0 .. MaxSlots
    <3>1. slots \in 0 .. MaxSlots
      BY <1>0, TasksAssumption DEF TypeOK
    <3>. QED
      BY Zenon, <1>0, <2>2, <3>1 DEF OwnerTypes
  <2>7. OwnerTypes'
    BY Zenon, <1>0, <2>1, <2>2, <2>5, <2>6 DEF OwnerTypes
  <2>. QED
    BY Zenon, <1>0, <2>1, <2>2, <2>7 DEF PassesLeft, PassPCs
<1>8. ASSUME NEW done \in BOOLEAN, Return(done) PROVE OwnerTypes' /\ PassesLeft'
  <2>1. /\ UNCHANGED <<pending, parent, held, woken, owner, batch, polled, left, from, advanced, next, led, width>>
        /\ opc = "polling" /\ opc' = "run" /\ current' = 0
    BY Zenon, <1>8 DEF Return, orderVars, parentVars
  <2>2. 0 \in Nat
    OBVIOUS
  <2>3. OwnerTypes'
    BY Zenon, <1>0, <2>1, <2>2 DEF OwnerTypes
  <2>. QED
    BY Zenon, <1>0, <2>1, <2>3 DEF PassesLeft, PassPCs
<1>9. CASE PassDone
  <2>1. /\ UNCHANGED <<pending, parent, held, woken, owner, batch, polled, current, next, led, width>>
        /\ opc = "run" /\ from' = 0 /\ advanced' = FALSE
        /\ \/ opc' = "turn" /\ left' = 0
           \/ opc' = "rearm" /\ left # 1 /\ left' = left - 1
    BY Zenon, <1>9 DEF PassDone, orderVars, parentVars
  <2>2. left \in 1 .. Budget /\ 0 \in 0 .. Budget /\ 0 \in Nat
    BY <1>0, <2>1 DEF PassesLeft, PassPCs
  <2>3. left # 1 => left - 1 \in 1 .. Budget /\ left - 1 \in 0 .. Budget
    BY <1>0, <2>2
  <2>4. OwnerTypes'
    BY Zenon, <1>0, <2>1, <2>2 DEF OwnerTypes
  <2>. QED
    BY Zenon, <1>0, <2>1, <2>2, <2>3, <2>4 DEF PassesLeft, PassPCs
<1>. QED
  BY Zenon, <1>2, <1>3, <1>4, <1>5, <1>6, <1>7, <1>8, <1>9 DEF Next, Pass

-----------------------------------------------------------------------------
(* What the invariant gives.                                               *)

\* While the owner sleeps, what announces a bit is a thread on its way up or to the owner.
LEMMA AsleepIsDue ==
    ASSUME Types, PassInv, BitsInv, ParentInv
    PROVE  NoLostWake
<1> SUFFICES ASSUME Asleep, NEW s \in bits,
                    \A p \in Threads : ~(wpc[p] = "summary" /\ Word(wslot[p]) = Word(s)),
                    \A p \in Threads : ~(wpc[p] = "ready" /\ Chunk(wslot[p]) = Chunk(s)),
                    \A p \in Threads : ~(wpc[p] = "parent" /\ ~pending),
                    \A p \in Threads : wpc[p] # "clone",
                    \A p \in Threads : ~(wpc[p] = "wake" /\ target[p] = owner)
             PROVE  FALSE
  BY Zenon DEF NoLostWake
<1>1. opc = "idle" /\ owner \notin woken /\ words = {} /\ chunks = {} /\ ~held
  BY Zenon DEF Asleep, PassInv, ParentInv
<1>2. Word(s) \in summary
  <2>1. WordDue(Word(s))
    BY Zenon DEF BitsInv
  <2>. QED
    BY Zenon, <1>1, <2>1 DEF WordDue
<1>3. WordChunk(Word(s)) = Chunk(s)
  BY Zenon DEF WordChunk, Chunk
<1>4. Top(Chunk(s)) \in ready
  <2>1. ChunkDue(Chunk(s))
    BY Zenon, <1>2, <1>3 DEF BitsInv
  <2>. QED
    BY Zenon, <1>1, <2>1 DEF ChunkDue
<1>5. pending
  <2>1. TopDue
    BY Zenon, <1>4 DEF BitsInv
  <2>. QED
    BY Zenon, <1>1, <2>1 DEF TopDue
<1>6. Nudged
  BY Zenon, <1>5 DEF ParentInv
<1>. QED
  BY Zenon, <1>1, <1>6 DEF Nudged

\* One slot for each live task, and one place for each free slot.
LEMMA SlabCounted ==
    ASSUME Counting, Types, SlabInv
    PROVE  SlabConsistent
<1>0. slots \in Nat /\ free \in Seq(Slots)
  BY DEF Types, TypeOK, slots
<1>1. ASSUME NEW g \in 1 .. generation
      PROVE  Cardinality({i \in 1 .. slots : children[i] = g}) = (IF g \in alive THEN 1 ELSE 0)
  <2>1. CASE g \in alive
    <3>1. PICK i \in 1 .. slots : children[i] = g
      BY Zenon, <2>1 DEF SlabInv
    <3>2. g # 0
      BY DEF Types, TypeOK
    <3>3. ASSUME NEW j \in 1 .. slots, children[j] = g PROVE j = i
      BY Zenon, <3>1, <3>2, <3>3 DEF SlabInv
    <3>4. {j \in 1 .. slots : children[j] = g} = {i}
      BY Zenon, <3>1, <3>3
    <3>. QED
      BY Zenon, <2>1, <3>4 DEF Counting
  <2>2. CASE g \notin alive
    <3>1. {j \in 1 .. slots : children[j] = g} = {}
      BY Zenon, <2>2 DEF SlabInv
    <3>. QED
      BY Zenon, <2>2, <3>1 DEF Counting
  <2>. QED
    BY Zenon, <2>1, <2>2
<1>2. {free[i] : i \in 1 .. Len(free)} = {s \in 0 .. slots - 1 : children[s + 1] = 0}
  <2>1. ASSUME NEW i \in 1 .. Len(free) PROVE free[i] \in {s \in 0 .. slots - 1 : children[s + 1] = 0}
    <3>1. free[i] < slots /\ children[free[i] + 1] = 0
      BY Zenon DEF SlabInv
    <3>2. free[i] \in Slots
      BY <1>0
    <3>3. free[i] \in 0 .. slots - 1
      BY <1>0, <3>1, <3>2, TasksAssumption DEF Slots
    <3>. QED
      BY Zenon, <3>1, <3>3
  <2>2. ASSUME NEW s \in 0 .. slots - 1, children[s + 1] = 0 PROVE \E i \in 1 .. Len(free) : s = free[i]
    <3>1. PICK i \in 1 .. Len(free) : free[i] = s
      BY Zenon, <2>2 DEF SlabInv
    <3>. QED
      BY Zenon, <3>1
  <2>3. {free[i] : i \in 1 .. Len(free)} \subseteq {s \in 0 .. slots - 1 : children[s + 1] = 0}
    BY Zenon, <2>1
  <2>4. {s \in 0 .. slots - 1 : children[s + 1] = 0} \subseteq {free[i] : i \in 1 .. Len(free)}
    BY Zenon, <2>2
  <2>. QED
    BY Zenon, <2>3, <2>4
<1>3. Len(free) = Cardinality({free[i] : i \in 1 .. Len(free)})
  <2>1. Len(free) \in Nat
    BY <1>0
  <2>2. \A i, j \in 1 .. Len(free) : free[i] = free[j] => i = j
    BY Zenon DEF SlabInv
  <2>3. \A f : (\A i, j \in 1 .. Len(free) : f[i] = f[j] => i = j)
                 => Cardinality({f[i] : i \in 1 .. Len(free)}) = Len(free)
    BY Zenon, <2>1 DEF Counting
  <2>4. Cardinality({free[i] : i \in 1 .. Len(free)}) = Len(free)
    BY <2>2, <2>3
  <2>. QED
    BY Zenon, <2>4
<1>. QED
  BY Zenon, <1>1, <1>2, <1>3 DEF SlabConsistent

\* The slot that led comes first only alone, since next moved past it, or once the slab grew.
LEMMA LeadStep ==
    ASSUME Counting, Types, PassInv, BitsInv, LedInv, [Next]_vars, ~advanced, advanced', current' = led,
           NEW r \in scratch, children[r + 1] # 0, r # led
    PROVE  led + 1 = width /\ width < slots
<1>0. TypeOK /\ slots \in Nat /\ from \in Nat
  BY DEF Types, TypeOK, slots
<1>1. Run
  <2>1. ASSUME Insert \/ (\E s \in Slots, g \in 1 .. generation : Remove(s, g)) \/ Return(TRUE) PROVE advanced' = advanced
    BY Zenon, <2>1 DEF Insert, Remove, Return, ownerVars
  <2>2. ASSUME SwapReady PROVE advanced' = advanced
    BY Zenon, <2>2 DEF SwapReady
  <2>3. ASSUME PassDone PROVE ~advanced'
    BY Zenon, <2>3 DEF PassDone
  <2>. QED
    BY Zenon, <1>0, <2>1, <2>2, <2>3, SlabSteps
<1>2. /\ opc = "run" /\ Lead(scratch) \in 0 .. slots - 1 /\ scratch \subseteq 0 .. slots - 1
      /\ Rotated(Lead(scratch)) <= Rotated(r) /\ current' = Lead(scratch)
  BY Zenon, <1>0, <1>1, RunEffect DEF BitsInv
<1>3. led \in 0 .. slots - 1 /\ r \in 0 .. slots - 1 /\ Rotated(led) <= Rotated(r)
  BY Zenon, <1>2
<1>4. led # None
  <2>1. slots <= MaxSlots
    BY Zenon, <1>0 DEF TypeOK
  <2>2. led \in 0 .. MaxSlots - 1
    BY <1>0, <1>3, <2>1, TasksAssumption
  <2>. QED
    BY Zenon, <2>2, TasksAssumption
<1>5. /\ led + 1 <= width /\ width <= slots /\ width \in Nat /\ led \in Nat /\ r \in Nat
      /\ next = (led + 1) % width /\ from = (IF next < slots THEN next ELSE slots)
  <2>1. /\ next = (led + 1) % width /\ from = (IF next < slots THEN next ELSE slots)
        /\ led + 1 <= width /\ width <= slots
    BY Zenon, <1>2, <1>4 DEF LedInv
  <2>2. width \in Nat /\ led \in Nat /\ r \in Nat
    BY <1>0, <1>3, TasksAssumption DEF TypeOK
  <2>. QED
    BY Zenon, <2>1, <2>2
<1>6. (IF led >= from THEN led - from ELSE led + slots - from) <= (IF r >= from THEN r - from ELSE r + slots - from)
  BY Zenon, <1>3 DEF Rotated
<1>7. led + 1 = width
  <2>. SUFFICES ASSUME led + 1 # width PROVE FALSE
    OBVIOUS
  <2>1. (led + 1) % width = led + 1 /\ led + 1 < slots
    BY <1>0, <1>5
  <2>2. from = led + 1
    BY Zenon, <1>5, <2>1
  <2>. QED
    BY <1>0, <1>3, <1>5, <1>6, <2>2
<1>8. from = 0
  <2>1. width % width = 0 /\ 0 < slots
    BY SMTT(30), <1>0, <1>5
  <2>. QED
    BY Zenon, <1>5, <1>7, <2>1
<1>. QED
  BY SMTT(30), <1>0, <1>3, <1>5, <1>6, <1>7, <1>8

\* The invariant holds when the set is made (Tasks::new).
LEMMA InitIInv ==
    ASSUME Init
    PROVE  IInv
<1>0. MaxSlots \in Nat /\ MaxTasks \in Nat /\ Self \in Threads
  BY Zenon, TasksAssumption DEF Threads
<1>1. /\ children = <<>> /\ free = <<>> /\ generation = 0 /\ alive = {} /\ bits = {} /\ summary = {} /\ ready = {}
      /\ pending = FALSE /\ parent = None /\ held = FALSE /\ shape \in Shapes /\ owner \in shape.owners
      /\ woken = {owner} /\ opc = "idle" /\ polled = FALSE /\ batch = FALSE /\ left = 0
      /\ chunks = {} /\ words = {} /\ scratch = {} /\ from = 0 /\ advanced = FALSE /\ current = 0
      /\ next = 0 /\ led = None /\ width = 0 /\ owed = {}
      /\ wpc = [p \in Threads |-> "idle"] /\ wslot = [p \in Threads |-> 0] /\ target = [p \in Threads |-> None]
  BY Zenon DEF Init
<1>2. slots = 0 /\ Len(free) = 0 /\ 1 .. slots = {} /\ 0 .. slots - 1 = {} /\ 1 .. Len(free) = {} /\ 1 .. generation = {}
  BY <1>1 DEF slots
<1>3. \A p \in Threads : wpc[p] = "idle"
  BY Zenon, <1>1
<1>4. SlabTypes
  <2>1. children \in Seq(0 .. MaxTasks) /\ free \in Seq(Slots)
    BY <1>1
  <2>2. slots <= MaxSlots /\ generation \in 0 .. MaxTasks
    BY <1>0, <1>1, <1>2
  <2>. QED
    BY Zenon, <1>1, <2>1, <2>2 DEF SlabTypes
<1>5. IndexTypes
  BY Zenon, <1>1 DEF IndexTypes
<1>6. owner \in Owners /\ Budget \in Nat
  BY Zenon, <1>1, TasksAssumption DEF Budget
<1>7. OwnerTypes
  <2>1. 0 \in Nat /\ 0 \in 0 .. MaxSlots
    BY <1>0
  <2>. QED
    BY Zenon, <1>1, <1>6, <2>1 DEF OwnerTypes
<1>8. PassesLeft
  <2>1. 0 \in 0 .. Budget
    BY <1>6
  <2>. QED
    BY Zenon, <1>1, <2>1 DEF PassesLeft, PassPCs
<1>9. WakeTypes
  BY Zenon, <1>1, <1>3 DEF WakeTypes
<1>10. Types
  BY Zenon, <1>1, <1>4, <1>5, <1>7, <1>8, <1>9, TypesByPart
<1>11. PassInv
  BY Zenon, <1>0, <1>1, <1>3 DEF PassInv
<1>12. OwedIsMarked
  BY Zenon, <1>1 DEF OwedIsMarked
<1>13. BitsInv
  BY Zenon, <1>1, <1>3 DEF BitsInv
<1>14. ParentInv
  BY Zenon, <1>1 DEF ParentInv, PassPCs
<1>15. SlabInv
  BY Zenon, <1>1, <1>2 DEF SlabInv
<1>16. LedInv
  <2>1. from <= slots
    BY <1>1, <1>2
  <2>. QED
    BY Zenon, <1>1, <2>1 DEF LedInv
<1>. QED
  BY Zenon, <1>10, <1>11, <1>12, <1>13, <1>14, <1>15, <1>16 DEF IInv

\* Every step keeps it.
LEMMA StepIInv ==
    ASSUME Counting, IInv, [Next]_vars
    PROVE  IInv'
<1>1. Types /\ TypeOK /\ PassInv /\ OwedIsMarked /\ BitsInv /\ ParentInv /\ SlabInv /\ LedInv
  BY Zenon DEF IInv, Types
<1>2. SlabTypes' /\ shape' = shape
  BY Zenon, <1>1, SlabTypesStep
<1>3. WakeTypes' /\ IndexTypes'
  BY Zenon, <1>1, WakeTypesStep
<1>4. OwnerTypes' /\ PassesLeft'
  BY Zenon, <1>1, <1>2, OwnerTypesStep
<1>5. (shape \in Shapes)'
  BY Zenon, <1>1, <1>2 DEF Types
<1>6. Types'
  BY <1>2, <1>3, <1>4, <1>5, TypesByPart, PTL
<1>7. PassInv'
  BY Zenon, <1>1, PassStep
<1>8. OwedIsMarked'
  BY Zenon, <1>1, OwedStep
<1>9. BitsInv'
  BY Zenon, <1>1, BitsStep
<1>10. ParentInv'
  BY Zenon, <1>1, ParentStep
<1>11. SlabInv'
  BY Zenon, <1>1, SlabStep
<1>12. LedInv'
  BY Zenon, <1>1, LedStep
<1>. QED
  BY Zenon, <1>6, <1>7, <1>8, <1>9, <1>10, <1>11, <1>12 DEF IInv

-----------------------------------------------------------------------------
(* The theorems.                                                           *)

INSTANCE FiniteSetTheorems

\* What the library has on numbers and sizes.
LEMMA Counts == Counting
<1>1. ASSUME NEW S \in SUBSET Nat, S # {} PROVE \E m \in S : \A k \in S : m <= k
  <2>1. PICK m \in S : \A k \in S : <<k, m>> \notin OpToRel(<, Nat)
    BY Zenon, <1>1, NatLessThanWellFounded, WFMin
  <2>2. \A k \in S : ~(k < m)
    BY Zenon, <2>1 DEF OpToRel
  <2>. QED
    BY <2>2
<1>2. Cardinality({}) = 0 /\ \A x : Cardinality({x}) = 1
  BY Zenon, FS_EmptySet, FS_Singleton
<1>3. ASSUME NEW n \in Nat, NEW f, \A i, j \in 1 .. n : f[i] = f[j] => i = j
      PROVE  Cardinality({f[i] : i \in 1 .. n}) = n
  <2>. DEFINE T == {f[i] : i \in 1 .. n}
              h == [i \in 1 .. n |-> f[i]]
  <2>1. h \in [1 .. n -> T]
    BY Zenon
  <2>2. \A i, j \in 1 .. n : h[i] = h[j] => i = j
    BY Zenon, <1>3
  <2>3. \A t \in T : \E i \in 1 .. n : h[i] = t
    BY Zenon
  <2>4. h \in Bijection(1 .. n, T)
    BY Zenon, <2>1, <2>2, <2>3 DEF Bijection, Injection, Surjection, IsInjective
  <2>5. IsFiniteSet(1 .. n) /\ Cardinality(1 .. n) = n
    BY FS_Interval
  <2>6. ExistsBijection(1 .. n, T)
    BY Zenon, <2>4 DEF ExistsBijection
  <2>. QED
    BY Zenon, <2>5, <2>6, FS_Bijection
<1>. QED
  BY Zenon, <1>1, <1>2, <1>3 DEF Counting

\* The inductive invariant of the task set holds in every state.
THEOREM Invariance == Spec => []IInv
<1>1. Init => IInv
  BY Zenon, InitIInv
<1>2. IInv /\ [Next]_vars => IInv'
  BY Zenon, Counts, StepIInv
<1>. QED
  BY <1>1, <1>2, PTL DEF Spec

\* Every variable keeps its type.
THEOREM TypeCorrect == Spec => []TypeOK
<1>1. IInv => TypeOK
  BY Zenon DEF IInv, Types
<1>. QED
  BY <1>1, Invariance, PTL

\* No wake is lost between a wake, a pass and the poll around it (SlotWaker::wake_by_ref,
\* Shared::wake_parent, Tasks::pass, Polling).
THEOREM WakeSafety == Spec => []NoLostWake
<1>1. IInv => NoLostWake
  BY Zenon, AsleepIsDue DEF IInv
<1>. QED
  BY <1>1, Invariance, PTL

\* A woken task is marked until it is polled or goes (Tasks::pass).
THEOREM OwedSafety == Spec => []OwedIsMarked
<1>1. IInv => OwedIsMarked
  BY Zenon DEF IInv
<1>. QED
  BY <1>1, Invariance, PTL

\* The slab keeps every task in one slot until it finishes or its own key removes it
\* (Tasks::insert, remove, pass).
THEOREM SlabSafety == Spec => []SlabConsistent
<1>1. IInv => SlabConsistent
  BY Zenon, Counts, SlabCounted DEF IInv
<1>. QED
  BY <1>1, Invariance, PTL

\* The slot that led a pass leads the next one ahead of another ready task only when it was
\* the last of the slab and the slab has grown since (Tasks::next).
THEOREM RotationSafety == Spec => LeadRotates
<1>1. IInv /\ [Next]_vars
        => [~advanced /\ advanced' /\ current' = led
               /\ (\E s \in scratch : s # led /\ children[s + 1] # 0)
            => led + 1 = width /\ width < slots]_vars
  <2>1. ASSUME IInv, [Next]_vars, ~advanced, advanced', current' = led,
               NEW s \in scratch, s # led, children[s + 1] # 0
        PROVE  led + 1 = width /\ width < slots
    BY Zenon, <2>1, Counts, LeadStep DEF IInv
  <2>. QED
    BY Zenon, <2>1
<1>. QED
  BY <1>1, Invariance, PTL DEF Spec, LeadRotates
=============================================================================
