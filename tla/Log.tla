-------------------------------- MODULE Log --------------------------------
(***************************************************************************)
(* The append-only log of kio (rs/kio/src/log.rs): one writer appends to   *)
(* the last of a chain of segments and evicts from the front, readers find *)
(* committed entries by index without a lock, and memory is reclaimed by   *)
(* epochs: what eviction handed to the collector is dropped once every pin *)
(* that was there then is gone.                                            *)
(*                                                                         *)
(* Every step is one atomic access to shared memory.  An entry is known by *)
(* its index; a reader that returned one borrows it until it unpins.       *)
(***************************************************************************)
EXTENDS Integers, FiniteSets, Sequences

CONSTANTS
    Readers,
    FIRST_SEGMENT,
    MAX_SEGMENT,
    MaxEnd,       \* bound on the indices
    MaxSegments   \* bound on the segments ever allocated

ASSUME LogAssumption ==
    /\ FIRST_SEGMENT \in Nat \ {0}
    /\ MAX_SEGMENT \in Nat /\ MAX_SEGMENT >= FIRST_SEGMENT
    /\ MaxEnd \in Nat
    /\ MaxSegments \in Nat

VARIABLES
    segs,         \* the headers of the segments allocated so far, in order
    freed,        \* the segments deallocated
    dropped,      \* the entries dropped, as <<segment, slot>>
    end, base,    \* Shared
    head,
    segments,     \* Writer::segments
    wpc,
    upto,         \* the index being evicted below
    retired,      \* segments on their way to the collector
    alive,        \* the writer was not dropped
    garbage,      \* the collector's deferred calls, and the pins each waits out
    pinned,       \* the readers holding a pin
    hint,         \* Reader::hint: a segment, or Null
    rpc, index,   \* where a reader is in Read::get, and for which entry
    at,           \* the segment it is looking at
    hinted,       \* the walk began at the hint
    borrowed      \* the entries a pinned reader returned, as <<segment, slot>>

segVars == <<segs, freed, dropped>>
sharedVars == <<end, base, head>>
writerVars == <<segments, wpc, upto, retired, alive>>
readerVars == <<pinned, hint, rpc, index, at, hinted, borrowed>>
vars == <<segVars, sharedVars, writerVars, garbage, readerVars>>

Null == 0
Ids == 1 .. MaxSegments
Headers == [start : 0 .. MaxEnd, capacity : 1 .. MAX_SEGMENT, filled : 0 .. MAX_SEGMENT,
            taken : 0 .. MAX_SEGMENT, owners : 0 .. MAX_SEGMENT + 1, next : 0 .. MaxSegments]
\* entries: the slots to drop; whole: Segment::free, which drops what is left at that time.
Deferred == [segment : Ids, entries : SUBSET (0 .. MAX_SEGMENT - 1), whole : BOOLEAN, pins : SUBSET Readers]

TypeOK ==
    /\ segs \in Seq(Headers) /\ Len(segs) <= MaxSegments
    /\ freed \subseteq DOMAIN segs
    /\ dropped \subseteq (DOMAIN segs) \X (0 .. MAX_SEGMENT - 1)
    /\ {end, base, upto} \subseteq 0 .. MaxEnd
    /\ head \in {Null} \cup DOMAIN segs
    /\ segments \in Seq(DOMAIN segs) /\ retired \subseteq DOMAIN segs
    /\ wpc \in {"idle", "push", "commit", "evictend", "evicthead", "retire", "take", "drophead", "dropretire"}
    /\ alive \in BOOLEAN
    /\ garbage \subseteq Deferred
    /\ pinned \subseteq Readers
    /\ hint \in [Readers -> 0 .. MaxSegments]
    /\ rpc \in [Readers -> {"idle", "pin", "base", "hint", "end", "filled", "next", "head"}]
    /\ index \in [Readers -> 0 .. MaxEnd]
    /\ at \in [Readers -> 0 .. MaxSegments]
    /\ hinted \in [Readers -> BOOLEAN]
    /\ borrowed \in [Readers -> SUBSET (Ids \X (0 .. MAX_SEGMENT - 1))]

Init ==
    /\ segs = <<>> /\ freed = {} /\ dropped = {}
    /\ end = 0 /\ base = 0 /\ head = Null
    /\ segments = <<>> /\ retired = {} /\ wpc = "idle" /\ upto = 0 /\ alive = TRUE
    /\ garbage = {}
    /\ pinned = {}
    /\ hint = [r \in Readers |-> Null]
    /\ rpc = [r \in Readers |-> "idle"]
    /\ index = [r \in Readers |-> 0]
    /\ at = [r \in Readers |-> Null]
    /\ hinted = [r \in Readers |-> FALSE]
    /\ borrowed = [r \in Readers |-> {}]

-----------------------------------------------------------------------------
(* The writer.                                                             *)

Last(q) == q[Len(q)]
Limit(s) == segs[s].start + segs[s].filled

\* Writer::reserve returns early while the last segment has room.
Room == segments # <<>> /\ end < segs[Last(segments)].start + segs[Last(segments)].capacity

Double(n) == IF 2 * n < MAX_SEGMENT THEN 2 * n ELSE MAX_SEGMENT

\* The new segment is linked from the last one, or becomes the head of an empty log.
Allocate ==
    /\ Len(segs) < MaxSegments
    /\ LET s == Len(segs) + 1
           cap == IF segments = <<>> THEN FIRST_SEGMENT ELSE Double(segs[Last(segments)].capacity)
           new == [start |-> end, capacity |-> cap, filled |-> 0, taken |-> 0, owners |-> 1, next |-> Null]
       IN  /\ segments' = Append(segments, s)
           /\ IF segments = <<>>
                THEN segs' = Append(segs, new) /\ head' = s
                ELSE /\ segs' = Append([segs EXCEPT ![Last(segments)].next = s], new)
                     /\ UNCHANGED head

Reserve ==
    /\ alive /\ wpc = "idle"
    /\ ~Room
    /\ end < MaxEnd
    /\ Allocate
    /\ UNCHANGED <<freed, dropped, end, base, wpc, upto, retired, alive, garbage, readerVars>>

\* Writer::push with a slot reserved: the slot is written, then counted ...
Push ==
    /\ alive /\ wpc = "idle"
    /\ Room
    /\ end < MaxEnd
    /\ segs' = [segs EXCEPT ![Last(segments)].filled = end - segs[Last(segments)].start + 1]
    /\ wpc' = "commit"
    /\ UNCHANGED <<freed, dropped, sharedVars, segments, upto, retired, alive, garbage, readerVars>>

\* ... then committed.
Commit ==
    /\ wpc = "commit"
    /\ end' = end + 1
    /\ wpc' = "idle"
    /\ UNCHANGED <<segVars, base, head, segments, upto, retired, alive, garbage, readerVars>>

\* Writer::evict moves the base before anything is retired.
Evict(i) ==
    /\ alive /\ wpc = "idle"
    /\ i > base
    /\ base' = i
    /\ upto' = i
    /\ wpc' = IF i > end THEN "evictend" ELSE "evicthead"
    /\ UNCHANGED <<segVars, end, head, segments, retired, alive, garbage, readerVars>>

\* An index past the end skips to it.
EvictEnd ==
    /\ wpc = "evictend"
    /\ end' = upto
    /\ wpc' = "evicthead"
    /\ UNCHANGED <<segVars, base, head, segments, upto, retired, alive, garbage, readerVars>>

\* Mutant of Passed: a segment whose last entry is i counts as passed.
Passed_early(i) == Cardinality({k \in 1 .. Len(segments) : Limit(segments[k]) <= i + 1})

\* partition_point: the leading segments whose written slots all lie below i.
Passed(i) == Cardinality({k \in 1 .. Len(segments) : Limit(segments[k]) <= i})

\* Mutant of EvictHead: only the oldest segment is retired.
EvictHead_oldest ==
    /\ wpc = "evicthead"
    /\ LET n == Passed(upto) IN
       IF n = 0
         THEN wpc' = "take" /\ UNCHANGED <<head, segments, retired>>
         ELSE /\ head' = IF n < Len(segments) THEN segments[n + 1] ELSE Null
              /\ retired' = {segments[1]}
              /\ segments' = SubSeq(segments, n + 1, Len(segments))
              /\ wpc' = "retire"
    /\ UNCHANGED <<segVars, end, base, upto, alive, garbage, readerVars>>

\* The head moves before what it passes is retired.
EvictHead ==
    /\ wpc = "evicthead"
    /\ LET n == Passed(upto) IN
       IF n = 0
         THEN wpc' = "take" /\ UNCHANGED <<head, segments, retired>>
         ELSE /\ head' = IF n < Len(segments) THEN segments[n + 1] ELSE Null
              /\ retired' = {segments[k] : k \in 1 .. n}
              /\ segments' = SubSeq(segments, n + 1, Len(segments))
              /\ wpc' = "retire"
    /\ UNCHANGED <<segVars, end, base, upto, alive, garbage, readerVars>>

Free(s) == [segment |-> s, entries |-> {}, whole |-> TRUE, pins |-> pinned]

\* Writer::retire defers the free of each segment.
Retire ==
    /\ wpc \in {"retire", "dropretire"}
    /\ garbage' = garbage \cup {Free(s) : s \in retired}
    /\ retired' = {}
    /\ wpc' = IF wpc = "retire" THEN "take" ELSE "idle"
    /\ upto' = IF wpc = "retire" THEN upto ELSE 0
    /\ UNCHANGED <<segVars, sharedVars, segments, alive, readerVars>>

Least(a, b) == IF a < b THEN a ELSE b

\* The slots of the oldest live segment that lie below the base and were not handed over.
Evictable ==
    IF segments = <<>> THEN {}
    ELSE LET h == segs[segments[1]] IN h.taken .. Least(upto - h.start, h.filled) - 1

\* Writer::take_evicted: the pending drop owns the segment too.
TakeEvicted ==
    /\ wpc = "take"
    /\ IF Evictable = {}
         THEN UNCHANGED <<segs, garbage>>
         ELSE LET s == segments[1] IN
              /\ segs' = [segs EXCEPT ![s].taken = @ + Cardinality(Evictable), ![s].owners = @ + 1]
              /\ garbage' = garbage \cup {[segment |-> s, entries |-> Evictable, whole |-> FALSE, pins |-> pinned]}
    /\ wpc' = "idle"
    /\ upto' = 0
    /\ UNCHANGED <<freed, dropped, sharedVars, segments, retired, alive, readerVars>>

\* Drop for Writer evicts everything.
Drop ==
    /\ alive /\ wpc = "idle"
    /\ alive' = FALSE
    /\ base' = end
    /\ wpc' = "drophead"
    /\ UNCHANGED <<segVars, end, head, segments, upto, retired, garbage, readerVars>>

DropHead ==
    /\ wpc = "drophead"
    /\ head' = Null
    /\ retired' = {segments[k] : k \in 1 .. Len(segments)}
    /\ segments' = <<>>
    /\ wpc' = "dropretire"
    /\ UNCHANGED <<segVars, end, base, upto, alive, garbage, readerVars>>

\* Writer::get: the first segment not passed by i, when it starts at or below it.
get(i) ==
    LET n == Passed(i) IN
    IF i < base \/ i >= end \/ n = Len(segments) \/ segs[segments[n + 1]].start > i THEN {}
    ELSE {<<segments[n + 1], i - segs[segments[n + 1]].start>>}

-----------------------------------------------------------------------------
(* The collector: a deferred call runs once the pins it waits out are gone.*)

Entries(g) ==
    IF g.whole THEN segs[g.segment].taken .. segs[g.segment].filled - 1 ELSE g.entries

\* Segment::drop_entries and Segment::release.
Collect(g) ==
    /\ g.pins = {}
    /\ garbage' = garbage \ {g}
    /\ dropped' = dropped \cup {<<g.segment, e>> : e \in Entries(g)}
    /\ segs' = [segs EXCEPT ![g.segment].owners = @ - 1]
    /\ freed' = IF segs[g.segment].owners = 1 THEN freed \cup {g.segment} ELSE freed
    /\ UNCHANGED <<sharedVars, writerVars, readerVars>>

-----------------------------------------------------------------------------
(* The readers.                                                            *)

Goto(r, pc) == rpc' = [rpc EXCEPT ![r] = pc]

\* Reader::read pins first ...
Pin(r) ==
    /\ rpc[r] = "idle" /\ r \notin pinned
    /\ pinned' = pinned \cup {r}
    /\ Goto(r, "pin")
    /\ UNCHANGED <<segVars, sharedVars, writerVars, garbage, hint, index, at, hinted, borrowed>>

\* Mutant of CheckHint: the hint is trusted.
CheckHint_trusted(r) ==
    /\ rpc[r] = "pin"
    /\ Goto(r, "idle")
    /\ UNCHANGED <<segVars, sharedVars, writerVars, garbage, pinned, hint, index, at, hinted, borrowed>>

\* ... then keeps the hint only while the base has not reached its start.
CheckHint(r) ==
    /\ rpc[r] = "pin"
    /\ hint' = IF hint[r] # Null /\ segs[hint[r]].start < base THEN [hint EXCEPT ![r] = Null] ELSE hint
    /\ Goto(r, "idle")
    /\ UNCHANGED <<segVars, sharedVars, writerVars, garbage, pinned, index, at, hinted, borrowed>>

\* Drop for ReadGuard, and the borrows end with it.
Unpin(r) ==
    /\ rpc[r] = "idle" /\ r \in pinned
    /\ pinned' = pinned \ {r}
    /\ garbage' = {[g EXCEPT !.pins = @ \ {r}] : g \in garbage}
    /\ borrowed' = [borrowed EXCEPT ![r] = {}]
    /\ UNCHANGED <<segVars, sharedVars, writerVars, hint, rpc, index, at, hinted>>

\* Clone for Reader copies the hint.
Clone(r, q) ==
    /\ rpc[q] = "idle" /\ q \notin pinned
    /\ hint[q] # hint[r]
    /\ hint' = [hint EXCEPT ![q] = hint[r]]
    /\ UNCHANGED <<segVars, sharedVars, writerVars, garbage, pinned, rpc, index, at, hinted, borrowed>>

\* Read::get ends.
Return(r) ==
    /\ rpc' = [rpc EXCEPT ![r] = "idle"]
    /\ index' = [index EXCEPT ![r] = 0]
    /\ at' = [at EXCEPT ![r] = Null]
    /\ hinted' = [hinted EXCEPT ![r] = FALSE]

Found(r, s) ==
    /\ hint' = [hint EXCEPT ![r] = s]
    /\ borrowed' = [borrowed EXCEPT ![r] = @ \cup {<<s, index[r] - segs[s].start>>}]
    /\ Return(r)

Get(r, i) ==
    /\ rpc[r] = "idle" /\ r \in pinned
    /\ index' = [index EXCEPT ![r] = i]
    /\ Goto(r, "base")
    /\ UNCHANGED <<segVars, sharedVars, writerVars, garbage, pinned, hint, at, hinted, borrowed>>

GetBase(r) ==
    /\ rpc[r] = "base"
    /\ IF index[r] < base
         THEN Return(r)
         ELSE /\ Goto(r, IF hint[r] # Null /\ segs[hint[r]].start <= index[r] THEN "hint" ELSE "end")
              /\ UNCHANGED <<index, at, hinted>>
    /\ UNCHANGED <<segVars, sharedVars, writerVars, garbage, pinned, hint, borrowed>>

\* The common read: the hint's written slots cover the index.
GetHint(r) ==
    /\ rpc[r] = "hint"
    /\ IF index[r] < Limit(hint[r])
         THEN Found(r, hint[r])
         ELSE Goto(r, "end") /\ UNCHANGED <<hint, index, at, hinted, borrowed>>
    /\ UNCHANGED <<segVars, sharedVars, writerVars, garbage, pinned>>

GetEnd(r) ==
    /\ rpc[r] = "end"
    /\ IF index[r] >= end
         THEN Return(r)
         ELSE /\ UNCHANGED index
              /\ IF hint[r] # Null /\ segs[hint[r]].start <= index[r]
                   THEN /\ Goto(r, "filled")
                        /\ at' = [at EXCEPT ![r] = hint[r]]
                        /\ hinted' = [hinted EXCEPT ![r] = TRUE]
                   ELSE Goto(r, "head") /\ UNCHANGED <<at, hinted>>
    /\ UNCHANGED <<segVars, sharedVars, writerVars, garbage, pinned, hint, borrowed>>

\* A walk that ends without the entry: one from the hint begins again at the head.
Astray(r) ==
    IF hinted[r]
      THEN Goto(r, "head") /\ UNCHANGED <<index, at, hinted>>
      ELSE Return(r)

GetHead(r) ==
    /\ rpc[r] = "head"
    /\ IF head = Null
         THEN Return(r)
         ELSE /\ at' = [at EXCEPT ![r] = head]
              /\ hinted' = [hinted EXCEPT ![r] = FALSE]
              /\ Goto(r, "filled")
              /\ UNCHANGED index
    /\ UNCHANGED <<segVars, sharedVars, writerVars, garbage, pinned, hint, borrowed>>

\* Read::walk looks at one segment ...
WalkFilled(r) ==
    /\ rpc[r] = "filled"
    /\ \/ /\ index[r] < segs[at[r]].start
          /\ Astray(r)
          /\ UNCHANGED <<hint, borrowed>>
       \/ /\ index[r] \in segs[at[r]].start .. Limit(at[r]) - 1
          /\ Found(r, at[r])
       \/ /\ index[r] >= Limit(at[r])
          /\ Goto(r, "next")
          /\ UNCHANGED <<hint, index, at, hinted, borrowed>>
    /\ UNCHANGED <<segVars, sharedVars, writerVars, garbage, pinned>>

\* Mutant of WalkNext: a chain that ends short of the index is taken for an eviction.
WalkNext_no_fallback(r) ==
    /\ rpc[r] = "next"
    /\ IF segs[at[r]].next = Null
         THEN Return(r)
         ELSE at' = [at EXCEPT ![r] = segs[@].next] /\ Goto(r, "filled") /\ UNCHANGED <<index, hinted>>
    /\ UNCHANGED <<segVars, sharedVars, writerVars, garbage, pinned, hint, borrowed>>

\* ... and follows its link.
WalkNext(r) ==
    /\ rpc[r] = "next"
    /\ IF segs[at[r]].next = Null
         THEN Astray(r)
         ELSE at' = [at EXCEPT ![r] = segs[@].next] /\ Goto(r, "filled") /\ UNCHANGED <<index, hinted>>
    /\ UNCHANGED <<segVars, sharedVars, writerVars, garbage, pinned, hint, borrowed>>

-----------------------------------------------------------------------------
Write ==
    \/ Reserve \/ Push \/ Commit
    \/ \E i \in 1 .. MaxEnd : Evict(i)
    \/ EvictEnd \/ EvictHead \/ Retire \/ TakeEvicted
    \/ Drop \/ DropHead

Read(r) ==
    \/ Pin(r) \/ CheckHint(r) \/ Unpin(r)
    \/ \E q \in Readers : Clone(r, q)
    \/ \E i \in 0 .. MaxEnd - 1 : Get(r, i)
    \/ GetBase(r) \/ GetHint(r) \/ GetEnd(r) \/ GetHead(r)
    \/ WalkFilled(r) \/ WalkNext(r)

Next ==
    \/ Write
    \/ \E g \in garbage : Collect(g)
    \/ \E r \in Readers : Read(r)

Spec == Init /\ [][Next]_vars

-----------------------------------------------------------------------------
(* Properties.                                                             *)

\* No reader looks at a segment the collector freed (log.rs Reader::read, Read::get and
\* walk): the hint survives only when its segment cannot have been retired before the pin,
\* and nothing reached from it or from the head was.
NoUseAfterFree ==
    \A r \in Readers :
        /\ rpc[r] = "hint" => hint[r] \notin freed
        /\ rpc[r] \in {"filled", "next"} => at[r] \notin freed

\* What a get returned stays written and whole until the reader unpins (Read::get,
\* take_evicted, Segment::free).
BorrowsLive ==
    \A r \in Readers : \A b \in borrowed[r] :
        /\ b[1] \notin freed
        /\ b \notin dropped
        /\ b[2] < segs[b[1]].filled

\* No memory is used after it was freed, however pins, evictions and frees interleave: not
\* by a walk, and not through what a read borrowed (log.rs, the unsafe blocks of Read).
MemorySafe == NoUseAfterFree /\ BorrowsLive

\* Every entry is dropped at most once, and no slot after its segment was freed: what the
\* deferred calls will drop is disjoint, not dropped yet, and each call owns its segment.
DropsOnce ==
    \A g \in garbage :
        /\ g.segment \notin freed
        /\ \A e \in Entries(g) : <<g.segment, e>> \notin dropped
        /\ \A h \in garbage \ {g} : h.segment = g.segment => Entries(g) \cap Entries(h) = {}

\* Nothing leaks: once the writer is gone and the collector has run, every segment is
\* freed and every entry written was dropped.
NothingLeaks ==
    ~alive /\ wpc = "idle" /\ garbage = {} =>
        /\ freed = DOMAIN segs
        /\ dropped = UNION {{<<s, e>> : e \in 0 .. segs[s].filled - 1} : s \in DOMAIN segs}

\* Every entry pushed is dropped exactly once in the life of the log (log.rs
\* Segment::release and free, Writer::drop).
DroppedExactlyOnce == DropsOnce /\ NothingLeaks

\* Between two operations the writer finds every entry that is committed and not evicted,
\* whole (Writer::get).
WriterFinds ==
    alive /\ wpc = "idle" => \A i \in base .. end - 1 : \E b \in get(i) : b \notin dropped

\* A walk cut short by a concurrent eviction hides no entry (Read::get and walk): a get
\* of an index it found committed returns the entry, and says evicted only if it is.
AnswersTrue ==
    [][\A r \in Readers :
          rpc[r] \in {"head", "filled", "next"} /\ rpc'[r] = "idle" /\ index[r] >= base =>
              /\ hint'[r] # Null
              /\ index[r] \in segs[hint'[r]].start .. Limit(hint'[r]) - 1]_vars
=============================================================================
