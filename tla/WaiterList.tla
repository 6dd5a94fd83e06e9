----------------------------- MODULE WaiterList -----------------------------
(***************************************************************************)
(* kio's waiter lists in full (rs/kio/src/waiter.rs): weak entries that    *)
(* are reclaimed in place, tags that tell a waiter it is still parked, the *)
(* PARKED records of a waiter and what happens when they run out, and      *)
(* Park::hold, which keeps or retires the waiter between two polls.        *)
(*                                                                         *)
(* Each list is used under the lock of its owner.  Two threads may         *)
(* register one waiter on two lists at once, so the records are claimed    *)
(* slot by slot.                                                           *)
(***************************************************************************)
EXTENDS Naturals, Sequences, FiniteSets, Functions

CONSTANTS
    Lists,
    Tasks,        \* each holds one waiter in a Park
    Waiters,      \* identities of Waiter (one Arc<Waker> each)
    Nobody,       \* no registration in progress
    PARKED,       \* lists a waiter remembers being parked on
    INLINE,       \* INLINE_WAITERS: slots of a list before it spills
    Rounds,       \* 2^ROUND_BITS: drains before a list draws a new serial
    MaxSerial,    \* bound on the serials drawn
    MaxEntries    \* bound on the entries of a list

ASSUME WaiterListAssumption ==
    /\ Nobody \notin Waiters
    /\ {PARKED, INLINE, Rounds} \subseteq Nat \ {0}
    /\ {MaxSerial, MaxEntries} \subseteq Nat

NoTag == [serial |-> 0, round |-> 0]
Tags == [serial : 0 .. MaxSerial, round : 0 .. Rounds - 1]

VARIABLES
    entries,      \* WaiterList::entries
    capacity,     \* what entries can hold before it reallocates
    cursor,       \* WaiterList::cursor, counted from 1
    tag,          \* WaiterList::tag
    serials,      \* the last serial drawn
    parked,       \* Waiter::parked
    lost,         \* Waiter::lost
    held,         \* Park: the waiter of each task; every other one is dead
    calling,      \* the waiter registering on each list
    slot,         \* the record its registration looks at next
    woken         \* the waiters woken since their task last looked

listVars == <<entries, capacity, cursor, tag>>
vars == <<listVars, serials, parked, lost, held, calling, slot, woken>>

TypeOK ==
    /\ entries \in [Lists -> Seq(Waiters)]
    /\ \A l \in Lists : Len(entries[l]) <= capacity[l]
    /\ \A l \in Lists : cursor[l] \in 1 .. Len(entries[l]) + 1
    /\ tag \in [Lists -> Tags]
    /\ serials \in 0 .. MaxSerial
    /\ parked \in [Waiters -> [1 .. PARKED -> Tags]]
    /\ lost \in [Waiters -> BOOLEAN]
    /\ held \in [Tasks -> Waiters]
    /\ calling \in [Lists -> Waiters \cup {Nobody}]
    /\ slot \in [Lists -> 0 .. PARKED + 1]
    /\ woken \subseteq Waiters

Init ==
    /\ entries = [l \in Lists |-> <<>>]
    /\ capacity = [l \in Lists |-> INLINE]
    /\ cursor = [l \in Lists |-> 1]
    /\ tag = [l \in Lists |-> NoTag]
    /\ serials = 0
    /\ parked = [w \in Waiters |-> [i \in 1 .. PARKED |-> NoTag]]
    /\ lost = [w \in Waiters |-> FALSE]
    /\ held \in {f \in [Tasks -> Waiters] : \A t, u \in Tasks : f[t] = f[u] => t = u}
    /\ calling = [l \in Lists |-> Nobody]
    /\ slot = [l \in Lists |-> 0]
    /\ woken = {}

-----------------------------------------------------------------------------
\* A Weak upgrades while its waiter is held.
Live(w) == \E t \in Tasks : held[t] = w

Recorded(w, t) == \E i \in 1 .. PARKED : parked[w][i] = t

\* SmallVec::reserve: room for n more, in powers of two once it has to grow (external).
PowerAbove(n) == CHOOSE k \in {2 ^ e : e \in 0 .. n} : k >= n /\ k < 2 * n

Reserve(len, cap, n) == IF cap - len >= n THEN cap ELSE PowerAbove(len + n)

\* WaiterList::register up to the first loop of Waiter::record: a list without a tag
\* draws a serial, and a record under the tag ends the call.
Register(l, w) ==
    /\ calling[l] = Nobody
    /\ Live(w)
    /\ Len(entries[l]) < MaxEntries
    /\ tag[l] = NoTag => serials < MaxSerial
    /\ calling' = [calling EXCEPT ![l] = w]
    /\ serials' = IF tag[l] = NoTag THEN serials + 1 ELSE serials
    /\ tag' = IF tag[l] = NoTag THEN [tag EXCEPT ![l] = [serial |-> serials + 1, round |-> 0]] ELSE tag
    /\ slot' = [slot EXCEPT ![l] = IF Recorded(w, tag'[l]) THEN 0 ELSE 1]
    /\ UNCHANGED <<entries, capacity, cursor, parked, lost, held, woken>>

\* One slot of Waiter::record: a record of an older round of this list is replaced, an
\* empty one is claimed, anything else is passed over.
Record(l) ==
    /\ slot[l] \in 1 .. PARKED
    /\ LET w == calling[l]
           old == parked[w][slot[l]] IN
       IF old = NoTag \/ old.serial = tag[l].serial
         THEN /\ parked' = [parked EXCEPT ![w][slot[l]] = tag[l]]
              /\ slot' = [slot EXCEPT ![l] = PARKED + 1]
              /\ UNCHANGED lost
         ELSE /\ slot' = [slot EXCEPT ![l] = @ + 1]
              /\ lost' = IF slot[l] = PARKED THEN [lost EXCEPT ![w] = TRUE] ELSE lost
              /\ UNCHANGED parked
    /\ UNCHANGED <<listVars, serials, held, calling, woken>>

\* The retain of a sweep: the live entries, in their order.
Retained(s) ==
    LET kept[i \in 0 .. Len(s)] ==
            IF i = 0 THEN <<>>
            ELSE IF Live(s[i]) THEN Append(kept[i - 1], s[i]) ELSE kept[i - 1]
    IN  kept[Len(s)]

\* Where the cursor stands after k probes of live entries.
Probe(l, k) == 1 + ((cursor[l] - 1 + k) % Len(entries[l]))

\* The first of at most two probes at the cursor that finds a dead entry, or none.
DeadProbes(l) ==
    {k \in 0 .. 1 : k < Len(entries[l]) /\ ~Live(entries[l][Probe(l, k)])}

\* Mutant of Push: a full list grows without sweeping the dead entries first.
Push_no_sweep(l) ==
    /\ slot[l] = PARKED + 1
    /\ LET w == calling[l]
           len == Len(entries[l]) IN
       IF DeadProbes(l) # {}
         THEN LET k == CHOOSE k \in DeadProbes(l) : \A j \in DeadProbes(l) : k <= j IN
              /\ cursor' = [cursor EXCEPT ![l] = Probe(l, k)]
              /\ entries' = [entries EXCEPT ![l][Probe(l, k)] = w]
              /\ UNCHANGED capacity
         ELSE /\ entries' = [entries EXCEPT ![l] = Append(@, w)]
              /\ capacity' = [capacity EXCEPT ![l] = Reserve(len, @, 1)]
              /\ cursor' = [cursor EXCEPT ![l] = IF len = 0 THEN 1 ELSE Probe(l, IF len = 1 THEN 1 ELSE 2)]
    /\ calling' = [calling EXCEPT ![l] = Nobody]
    /\ slot' = [slot EXCEPT ![l] = 0]
    /\ UNCHANGED <<tag, serials, parked, lost, held, woken>>

\* The rest of WaiterList::register: reuse a dead entry, or push, after sweeping the dead
\* ones out of a list that is about to grow.
Push(l) ==
    /\ slot[l] = PARKED + 1
    /\ LET w == calling[l]
           len == Len(entries[l]) IN
       IF DeadProbes(l) # {}
         THEN LET k == CHOOSE k \in DeadProbes(l) : \A j \in DeadProbes(l) : k <= j IN
              /\ cursor' = [cursor EXCEPT ![l] = Probe(l, k)]
              /\ entries' = [entries EXCEPT ![l][Probe(l, k)] = w]
              /\ UNCHANGED capacity
         ELSE IF len = capacity[l]
         THEN LET kept == Retained(entries[l]) IN
              /\ entries' = [entries EXCEPT ![l] = Append(kept, w)]
              /\ capacity' = [capacity EXCEPT ![l] = Reserve(Len(kept), @, Len(kept))]
              /\ cursor' = [cursor EXCEPT ![l] = 1]
         ELSE /\ entries' = [entries EXCEPT ![l] = Append(@, w)]
              /\ cursor' = [cursor EXCEPT ![l] = IF len = 0 THEN 1 ELSE Probe(l, IF len = 1 THEN 1 ELSE 2)]
              /\ UNCHANGED capacity
    /\ calling' = [calling EXCEPT ![l] = Nobody]
    /\ slot' = [slot EXCEPT ![l] = 0]
    /\ UNCHANGED <<tag, serials, parked, lost, held, woken>>

\* The call that found its record returns at once.
Parked(l) ==
    /\ calling[l] # Nobody
    /\ slot[l] = 0
    /\ calling' = [calling EXCEPT ![l] = Nobody]
    /\ UNCHANGED <<listVars, serials, parked, lost, held, slot, woken>>

-----------------------------------------------------------------------------
\* Mutant of drained: a drain that keeps the round.
drained_same_round(l) == tag[l]

\* WaiterList::drained: a list with entries starts a round, and one whose rounds wrap
\* goes back to the zero tag, to draw a new serial.
drained(l) ==
    IF tag[l] = NoTag \/ entries[l] = <<>> THEN tag[l]
    ELSE IF tag[l].round + 1 = Rounds THEN NoTag
    ELSE [tag[l] EXCEPT !.round = @ + 1]

Emptied(l) ==
    /\ calling[l] = Nobody
    /\ tag' = [tag EXCEPT ![l] = drained(l)]
    /\ entries' = [entries EXCEPT ![l] = <<>>]
    /\ cursor' = [cursor EXCEPT ![l] = 1]
    /\ UNCHANGED <<serials, parked, lost, held, calling, slot>>

\* Mutant of TakeAndWake: only the first entry is woken.
TakeAndWake_first(l) ==
    /\ Emptied(l)
    /\ capacity' = [capacity EXCEPT ![l] = INLINE]
    /\ woken' = woken \cup {w \in Range(entries[l]) : Live(w) /\ w = entries[l][1]}

\* WaiterList::take, and the wake of what it took: the list starts over inline.
TakeAndWake(l) ==
    /\ Emptied(l)
    /\ capacity' = [capacity EXCEPT ![l] = INLINE]
    /\ woken' = woken \cup {w \in Range(entries[l]) : Live(w)}

\* WaiterList::clear, which the channel calls on a list without a live waiter.
Clear(l) ==
    /\ \A w \in Range(entries[l]) : ~Live(w)
    /\ Emptied(l)
    /\ UNCHANGED <<capacity, woken>>

-----------------------------------------------------------------------------
\* Arc::weak_count: how many entries refer to the waiter.
Referred(w) == \E l \in Lists : w \in Range(entries[l])

\* Mutant of reusable: a waiter that lost records is kept although a list holds it.
reusable_always(w) == TRUE

\* Waiter::reusable: every list holding the waiter is recorded, or none holds it.
reusable(w) == ~lost[w] \/ ~Referred(w)

\* Park::hold at the start of a poll: the waiter is kept when it would wake the same task
\* and can be reused; a reused one that had lost records starts over.
HoldSame(t) ==
    LET w == held[t] IN
    /\ reusable(w)
    /\ \A l \in Lists : calling[l] # w
    /\ parked' = IF lost[w] THEN [parked EXCEPT ![w] = [i \in 1 .. PARKED |-> NoTag]] ELSE parked
    /\ lost' = [lost EXCEPT ![w] = FALSE]
    /\ woken' = woken \ {w}
    /\ UNCHANGED <<listVars, serials, held, calling, slot>>

\* ... and retired otherwise, its records with it, for one nothing refers to.
HoldFresh(t, w) ==
    /\ ~Live(w)
    /\ ~Referred(w)
    /\ \A l \in Lists : calling[l] # held[t]
    /\ held' = [held EXCEPT ![t] = w]
    /\ parked' = [parked EXCEPT ![held[t]] = [i \in 1 .. PARKED |-> NoTag]]
    /\ lost' = [lost EXCEPT ![held[t]] = FALSE]
    /\ woken' = woken \ {held[t]}
    /\ UNCHANGED <<listVars, serials, calling, slot>>

Next ==
    \/ \E l \in Lists, w \in Waiters : Register(l, w)
    \/ \E l \in Lists : Record(l) \/ Push(l) \/ Parked(l) \/ TakeAndWake(l) \/ Clear(l)
    \/ \E t \in Tasks : HoldSame(t) \/ \E w \in Waiters : HoldFresh(t, w)

Spec == Init /\ [][Next]_vars

-----------------------------------------------------------------------------
(* Properties.                                                             *)

\* A matching tag proves the entry (Waiter::record and Waiter::holds): a live waiter with
\* a record of a list's current tag is in that list, whatever was drained, reclaimed,
\* swept or renumbered since, or its registration is about to push it.
RecordProvesEntry ==
    \A w \in Waiters, l \in Lists :
        Live(w) /\ tag[l] # NoTag /\ Recorded(w, tag[l]) =>
            \/ w \in Range(entries[l])
            \/ calling[l] = w /\ slot[l] = PARKED + 1

\* A waiter that lost no record cannot stack duplicates (Waiter::reusable): every list
\* holding it is recorded, and holds it once.
NoDuplicates ==
    \A w \in Waiters, l \in Lists : Live(w) /\ ~lost[w] =>
        /\ w \in Range(entries[l]) => Recorded(w, tag[l])
        /\ Cardinality({i \in DOMAIN entries[l] : entries[l][i] = w}) <= 1

\* A list kept on by live waiters does not grow with the dead ones (WaiterList::register):
\* as long as no waiter ran out of records, a list never has room for more than twice as
\* many entries as there are other tasks, in powers of two.
GrowthBounded ==
    \A l \in Lists :
        capacity[l] <= INLINE \/ capacity[l] <= PowerAbove(2 * (Cardinality(Tasks) - 1))

\* A list is a registry of the live waiters: registering parks, a drain wakes everyone
\* parked, and nothing in between loses one.
Abstract == INSTANCE Registry WITH
    parked <- [l \in Lists |-> {w \in Range(entries[l]) : Live(w)}]

ImplementsRegistry == Abstract!RegSpec

=============================================================================
