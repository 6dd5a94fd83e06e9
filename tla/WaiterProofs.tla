---------------------------- MODULE WaiterProofs ----------------------------
(***************************************************************************)
(* A waiter list implements Registry, and a record under the current tag   *)
(* of a list proves an entry, for any number of lists, tasks, waiters,     *)
(* records, drains and rounds.                                             *)
(***************************************************************************)
EXTENDS WaiterList, TLAPS

-----------------------------------------------------------------------------
(* What the proofs use of numbers and of sizes.  Counts, below, proves it  *)
(* from the library.                                                       *)

Counting ==
    /\ \A S \in SUBSET Nat : S # {} => \E m \in S : \A k \in S : m <= k
    /\ \A S : (\A x, y \in S : x = y) => Cardinality(S) <= 1

\* The waiter is at most once in the list.
Once(s, w) == \A i, j \in DOMAIN s : s[i] = w /\ s[j] = w => i = j

\* One more entry.
LEMMA AppendOnce ==
    ASSUME NEW k \in Seq(Waiters), NEW x \in Waiters
    PROVE  /\ Append(k, x) \in Seq(Waiters)
           /\ \A w : w \in Range(Append(k, x)) <=> w \in Range(k) \/ w = x
           /\ \A w : Once(k, w) /\ (w = x => x \notin Range(k)) => Once(Append(k, x), w)
<1>1. /\ Len(k) \in Nat /\ DOMAIN k = 1 .. Len(k) /\ DOMAIN Append(k, x) = 1 .. Len(k) + 1
      /\ Append(k, x)[Len(k) + 1] = x /\ \A i \in DOMAIN k : Append(k, x)[i] = k[i]
  OBVIOUS
<1>. DEFINE a == Append(k, x)
<1>2. a \in Seq(Waiters)
  OBVIOUS
<1>. HIDE DEF a
<1>3. /\ DOMAIN a = 1 .. Len(k) + 1 /\ a[Len(k) + 1] = x /\ \A i \in DOMAIN k : a[i] = k[i]
  BY Zenon, <1>1 DEF a
<1>4. \A w : w \in Range(a) <=> w \in Range(k) \/ w = x
  BY <1>1, <1>3 DEF Range
<1>5. ASSUME NEW w, Once(k, w), w = x => x \notin Range(k) PROVE Once(a, w)
  BY <1>1, <1>3, <1>5 DEF Once, Range
<1>. QED
  BY Zenon, <1>2, <1>4, <1>5 DEF a

\* What is kept of the first i entries of s.
Keeps(s, kept, i) ==
    kept[i] = IF i = 0 THEN <<>> ELSE IF Live(s[i]) THEN Append(kept[i - 1], s[i]) ELSE kept[i - 1]

\* The entries of a list can be swept one by one (the retain of WaiterList::register).
LEMMA KeptExists ==
    ASSUME Counting, NEW s \in Seq(Waiters)
    PROVE  \E kept \in [0 .. Len(s) -> Seq(Waiters)] : \A i \in 0 .. Len(s) : Keeps(s, kept, i)
<1>. DEFINE Swept(n) == \E kept \in [0 .. n -> Seq(Waiters)] : \A i \in 0 .. n : Keeps(s, kept, i)
            Bad == {n \in 0 .. Len(s) : ~Swept(n)}
<1>1. Len(s) \in Nat
  OBVIOUS
<1>2. Swept(0)
  <2>. DEFINE f == [i \in 0 .. 0 |-> <<>>]
  <2>1. f \in [0 .. 0 -> Seq(Waiters)] /\ \A i \in 0 .. 0 : Keeps(s, f, i)
    BY DEF Keeps
  <2>. QED
    BY Zenon, <2>1
<1>3. ASSUME NEW n \in 0 .. Len(s), n + 1 \in 0 .. Len(s), Swept(n) PROVE Swept(n + 1)
  <2>1. PICK f \in [0 .. n -> Seq(Waiters)] : \A i \in 0 .. n : Keeps(s, f, i)
    BY Zenon, <1>3
  <2>. DEFINE g == [i \in 0 .. n + 1 |-> IF i <= n THEN f[i]
                                          ELSE IF Live(s[i]) THEN Append(f[n], s[i]) ELSE f[n]]
  <2>2. s[n + 1] \in Waiters /\ n \in Nat
    BY <1>1, <1>3
  <2>3. g \in [0 .. n + 1 -> Seq(Waiters)]
    BY <1>1, <2>2
  <2>4. ASSUME NEW i \in 0 .. n + 1 PROVE Keeps(s, g, i)
    <3>1. CASE i <= n
      <4>1. Keeps(s, f, i) /\ g[i] = f[i] /\ (i # 0 => g[i - 1] = f[i - 1])
        BY <2>1, <2>2, <3>1
      <4>. HIDE DEF g
      <4>. QED
        BY <4>1 DEF Keeps
    <3>2. CASE ~(i <= n)
      <4>1. i = n + 1 /\ i # 0 /\ i - 1 = n
        BY <2>2, <3>2
      <4>2. g[n] = f[n] /\ g[i] = IF Live(s[i]) THEN Append(f[n], s[i]) ELSE f[n]
        BY <2>2, <4>1
      <4>. HIDE DEF g
      <4>. QED
        BY <4>1, <4>2 DEF Keeps
    <3>. QED
      BY <3>1, <3>2
  <2>. HIDE DEF g
  <2>. QED
    BY Zenon, <2>3, <2>4
<1>4. Bad = {}
  <2>. SUFFICES ASSUME Bad # {} PROVE FALSE
    OBVIOUS
  <2>. HIDE DEF Swept
  <2>1. Bad \in SUBSET Nat
    OBVIOUS
  <2>2. PICK m \in Bad : \A k \in Bad : m <= k
    BY Zenon, <2>1 DEF Counting
  <2>3. m \in 0 .. Len(s) /\ ~Swept(m)
    OBVIOUS
  <2>4. m # 0 /\ m - 1 \in 0 .. Len(s) /\ (m - 1) + 1 = m
    BY <1>1, <1>2, <2>3
  <2>5. Swept(m - 1)
    BY <1>1, <2>2, <2>4
  <2>. QED
    BY <1>3, <2>3, <2>4, <2>5
<1>. HIDE DEF Swept
<1>5. Swept(Len(s))
  BY <1>1, <1>4
<1>. QED
  BY Zenon, <1>5 DEF Swept

\* A sweep keeps the live entries, and no more than there were of each (the retain of
\* WaiterList::register).
LEMMA RetainedLive ==
    ASSUME Counting, NEW s \in Seq(Waiters)
    PROVE  /\ Retained(s) \in Seq(Waiters)
           /\ \A w : w \in Range(Retained(s)) <=> w \in Range(s) /\ Live(w)
           /\ \A w : Once(s, w) => Once(Retained(s), w)
<1>1. PICK f \in [0 .. Len(s) -> Seq(Waiters)] : \A i \in 0 .. Len(s) : Keeps(s, f, i)
  BY Zenon, KeptExists
<1>. DEFINE Sweep(g) == [i \in 0 .. Len(s) |->
                           IF i = 0 THEN <<>>
                           ELSE IF Live(s[i]) THEN Append(g[i - 1], s[i]) ELSE g[i - 1]]
            kept == CHOOSE g : g = Sweep(g)
<1>2. Len(s) \in Nat /\ \A i \in 1 .. Len(s) : s[i] \in Waiters
  OBVIOUS
<1>3. f = Sweep(f)
  <2>1. DOMAIN f = 0 .. Len(s) /\ DOMAIN Sweep(f) = 0 .. Len(s)
    OBVIOUS
  <2>2. \A i \in 0 .. Len(s) : f[i] = Sweep(f)[i]
    BY <1>1 DEF Keeps
  <2>3. f = [i \in 0 .. Len(s) |-> f[i]]
    BY Zenon, <2>1
  <2>. QED
    BY Zenon, <2>2, <2>3
<1>4. kept = Sweep(kept)
  <2>. HIDE DEF Sweep
  <2>. QED
    BY Zenon, <1>3
<1>5. \A i \in 0 .. Len(s) : Keeps(s, kept, i)
  <2>1. \A i \in 0 .. Len(s) : Sweep(kept)[i] = IF i = 0 THEN <<>>
                                     ELSE IF Live(s[i]) THEN Append(kept[i - 1], s[i]) ELSE kept[i - 1]
    <3>. HIDE DEF kept
    <3>. QED
      OBVIOUS
  <2>. HIDE DEF Sweep, kept
  <2>. QED
    BY Zenon, <1>4, <2>1 DEF Keeps
<1>6. Retained(s) = kept[Len(s)]
  BY Zenon DEF Retained
<1>. HIDE DEF Sweep, kept
<1>. DEFINE Some(i, w) == \E j \in 1 .. i : s[j] = w
            Good(i) == /\ kept[i] \in Seq(Waiters)
                       /\ \A w : w \in Range(kept[i]) <=> Some(i, w) /\ Live(w)
                       /\ \A w : Once(s, w) => Once(kept[i], w)
            Bad == {n \in 0 .. Len(s) : ~Good(n)}
<1>7. Good(0)
  <2>1. kept[0] = <<>>
    BY <1>2, <1>5 DEF Keeps
  <2>. QED
    BY <2>1 DEF Range, Once
<1>8. ASSUME NEW n \in 0 .. Len(s), n + 1 \in 0 .. Len(s), Good(n) PROVE Good(n + 1)
  <2>1. n \in Nat /\ n + 1 \in 1 .. Len(s) /\ (n + 1) - 1 = n /\ s[n + 1] \in Waiters
    BY <1>2, <1>8
  <2>2. kept[n + 1] = IF Live(s[n + 1]) THEN Append(kept[n], s[n + 1]) ELSE kept[n]
    BY <1>5, <2>1 DEF Keeps
  <2>3. \A w : Some(n + 1, w) <=> Some(n, w) \/ w = s[n + 1]
    BY <2>1
  <2>4. CASE ~Live(s[n + 1])
    <3>. HIDE DEF Some
    <3>. QED
      BY Zenon, <1>8, <2>2, <2>3, <2>4
  <2>5. CASE Live(s[n + 1])
    <3>. DEFINE k == kept[n]
                x == s[n + 1]
    <3>1. k \in Seq(Waiters) /\ x \in Waiters /\ kept[n + 1] = Append(k, x)
      BY Zenon, <1>8, <2>1, <2>2, <2>5
    <3>2. /\ \A w : w \in Range(k) <=> Some(n, w) /\ Live(w)
          /\ \A w : Once(s, w) => Once(k, w)
      BY Zenon, <1>8
    <3>3. Once(s, x) => x \notin Range(k)
      <4>1. Once(s, x) => ~Some(n, x)
        BY <1>2, <2>1 DEF Once
      <4>. HIDE DEF Some, k, x
      <4>. QED
        BY Zenon, <3>2, <4>1
    <3>. HIDE DEF Some, k, x
    <3>4. /\ Append(k, x) \in Seq(Waiters)
          /\ \A w : w \in Range(Append(k, x)) <=> w \in Range(k) \/ w = x
          /\ \A w : Once(k, w) /\ (w = x => x \notin Range(k)) => Once(Append(k, x), w)
      BY <3>1, AppendOnce
    <3>5. Live(x)
      BY Zenon, <2>5 DEF x
    <3>6. \A w : Some(n + 1, w) <=> Some(n, w) \/ w = x
      BY Zenon, <2>3 DEF x
    <3>. QED
      BY Zenon, <3>1, <3>2, <3>3, <3>4, <3>5, <3>6
  <2>. QED
    BY Zenon, <2>4, <2>5
<1>. HIDE DEF Good
<1>9. Bad = {}
  <2>. SUFFICES ASSUME Bad # {} PROVE FALSE
    OBVIOUS
  <2>1. Bad \in SUBSET Nat
    OBVIOUS
  <2>2. PICK m \in Bad : \A k \in Bad : m <= k
    BY Zenon, <2>1 DEF Counting
  <2>3. m \in 0 .. Len(s) /\ ~Good(m)
    OBVIOUS
  <2>4. m # 0 /\ m - 1 \in 0 .. Len(s) /\ (m - 1) + 1 = m
    BY <1>2, <1>7, <2>3
  <2>5. Good(m - 1)
    BY <1>2, <2>2, <2>4
  <2>. QED
    BY <1>8, <2>3, <2>4, <2>5
<1>10. Good(Len(s))
  BY <1>2, <1>9
<1>11. \A w : Some(Len(s), w) <=> w \in Range(s)
  BY DEF Range
<1>. HIDE DEF Some
<1>. QED
  BY Zenon, <1>6, <1>10, <1>11 DEF Good

-----------------------------------------------------------------------------
(* The inductive invariant.                                                *)

\* The parts of TypeOK the argument needs: capacities and the end of the list play no
\* role in it.
WTypes ==
    /\ entries \in [Lists -> Seq(Waiters)]
    /\ cursor \in [Lists -> Nat \ {0}]
    /\ tag \in [Lists -> Tags]
    /\ serials \in 0 .. MaxSerial
    /\ parked \in [Waiters -> [1 .. PARKED -> Tags]]
    /\ lost \in [Waiters -> BOOLEAN]
    /\ held \in [Tasks -> Waiters]
    /\ calling \in [Lists -> Waiters \cup {Nobody}]
    /\ slot \in [Lists -> 0 .. PARKED + 1]

\* A waiter belongs to one task.
HeldInv == \A t, u \in Tasks : held[t] = held[u] => t = u

\* A dropped waiter took its records with it and registers nowhere.
DeadInv ==
    \A w \in Waiters : ~Live(w) =>
        /\ ~lost[w]
        /\ \A i \in 1 .. PARKED : parked[w][i] = NoTag
        /\ \A l \in Lists : calling[l] # w

\* A tag was drawn, no other list draws it, and a list without one is untouched.
TagInv ==
    \A l \in Lists :
        /\ tag[l] = NoTag \/ tag[l].serial \in 1 .. serials
        /\ \A m \in Lists : tag[l].serial = tag[m].serial /\ tag[l] # NoTag => l = m
        /\ tag[l] = NoTag => entries[l] = <<>> /\ calling[l] = Nobody

\* A record is of a serial drawn, and of no round of a list yet to come: what makes the tag
\* of a new round one nobody has.
RecInv ==
    \A w \in Waiters, i \in 1 .. PARKED :
        \/ parked[w][i] = NoTag
        \/ /\ parked[w][i].serial \in 1 .. serials
           /\ \A l \in Lists : tag[l].serial = parked[w][i].serial => parked[w][i].round <= tag[l].round

\* A registration past its lookup has no record until it is about to push, and then the
\* waiter has the record or lost it; while it lost none, the list does not hold it.
Registering(l) ==
    /\ calling[l] = Nobody => slot[l] = 0
    /\ calling[l] # Nobody =>
        /\ Live(calling[l])
        /\ slot[l] = 0 => Recorded(calling[l], tag[l])
        /\ slot[l] \in 1 .. PARKED => ~Recorded(calling[l], tag[l])
        /\ slot[l] = PARKED + 1 => lost[calling[l]] \/ Recorded(calling[l], tag[l])
        /\ slot[l] # 0 /\ ~lost[calling[l]] => calling[l] \notin Range(entries[l])

CallInv == \A l \in Lists : Registering(l)

\* NoDuplicates, without counting.
SingleInv ==
    \A w \in Waiters, l \in Lists : Live(w) /\ ~lost[w] =>
        /\ w \in Range(entries[l]) => Recorded(w, tag[l])
        /\ Once(entries[l], w)

ListInv ==
    /\ WTypes /\ HeldInv /\ DeadInv /\ TagInv /\ RecInv /\ CallInv
    /\ RecordProvesEntry /\ SingleInv

-----------------------------------------------------------------------------
(* Every step keeps it.                                                    *)

\* A waiter is live while the same tasks hold the same waiters, and recorded while the
\* records stay.
LEMMA SameHeld ==
    ASSUME held' = held
    PROVE  \A w : Live(w)' <=> Live(w)
BY Zenon DEF Live

\* What a waiter recorded stands while nobody records anything.
LEMMA SameParked ==
    ASSUME parked' = parked
    PROVE  \A w, t : Recorded(w, t)' <=> Recorded(w, t)
BY Zenon DEF Recorded

\* The fields of a tag, and a serial drawn is not that of the zero tag.
LEMMA TagFields ==
    ASSUME WaiterListAssumption, WTypes
    PROVE  /\ NoTag \in Tags /\ NoTag.serial = 0 /\ serials \in Nat
           /\ \A r \in Tags : r.serial \in Nat /\ r.round \in Nat
           /\ \A r : r.serial \in 1 .. serials => r.serial # NoTag.serial
<1>1. serials \in Nat
  BY DEF WTypes, WaiterListAssumption
<1>2. NoTag \in Tags /\ NoTag.serial = 0
  BY DEF NoTag, Tags, WaiterListAssumption
<1>3. \A r \in Tags : r.serial \in Nat /\ r.round \in Nat
  BY DEF Tags, WaiterListAssumption
<1>4. 0 \notin 1 .. serials
  BY <1>1
<1>. QED
  BY Zenon, <1>1, <1>2, <1>3, <1>4

\* Nobody has a record of a serial not drawn yet.
LEMMA FreshTag ==
    ASSUME WTypes, RecInv, NEW w \in Waiters, NEW r \in Nat
    PROVE  ~Recorded(w, [serial |-> serials + 1, round |-> r])
<1>1. ASSUME NEW i \in 1 .. PARKED PROVE parked[w][i] # [serial |-> serials + 1, round |-> r]
  BY <1>1 DEF WTypes, RecInv, NoTag, Tags
<1>. QED
  BY Zenon, <1>1 DEF Recorded

\* A list draws a tag nobody else has, and the registration looks its record up.
LEMMA RegisterKeeps ==
    ASSUME WaiterListAssumption, ListInv, NEW l \in Lists, NEW w \in Waiters, Register(l, w)
    PROVE  ListInv'
<1>. DEFINE fresh == [serial |-> serials + 1, round |-> 0]
<1>1. /\ calling[l] = Nobody /\ Live(w)
      /\ tag[l] = NoTag => serials < MaxSerial
      /\ calling' = [calling EXCEPT ![l] = w]
      /\ serials' = IF tag[l] = NoTag THEN serials + 1 ELSE serials
      /\ tag' = IF tag[l] = NoTag THEN [tag EXCEPT ![l] = fresh] ELSE tag
      /\ slot' = [slot EXCEPT ![l] = IF Recorded(w, tag'[l]) THEN 0 ELSE 1]
      /\ entries' = entries /\ cursor' = cursor /\ parked' = parked /\ lost' = lost /\ held' = held
  BY Zenon DEF Register
<1>2. WTypes /\ HeldInv /\ DeadInv /\ TagInv /\ RecInv /\ CallInv /\ RecordProvesEntry /\ SingleInv
  BY Zenon DEF ListInv
<1>3. (\A x : Live(x)' <=> Live(x)) /\ (\A x, t : Recorded(x, t)' <=> Recorded(x, t))
  BY Zenon, <1>1, SameHeld, SameParked
<1>4. tag[l] = NoTag => fresh \in Tags
  BY <1>1, <1>2 DEF Tags, WTypes, WaiterListAssumption
<1>5. /\ tag \in [Lists -> Tags] /\ slot \in [Lists -> 0 .. PARKED + 1]
      /\ calling \in [Lists -> Waiters \cup {Nobody}]
  BY Zenon, <1>2 DEF WTypes
<1>6. /\ \A m \in Lists : m # l => tag'[m] = tag[m] /\ slot'[m] = slot[m] /\ calling'[m] = calling[m]
      /\ tag'[l] = IF tag[l] = NoTag THEN fresh ELSE tag[l]
      /\ slot'[l] = IF Recorded(w, tag'[l]) THEN 0 ELSE 1
      /\ calling'[l] = w
  <2>. HIDE DEF fresh
  <2>. QED
    BY <1>1, <1>5
<1>7. WTypes'
  <2>1. tag' \in [Lists -> Tags]
    BY <1>1, <1>4, <1>5
  <2>2. slot' \in [Lists -> 0 .. PARKED + 1]
    BY <1>1, <1>5 DEF WaiterListAssumption
  <2>3. calling' \in [Lists -> Waiters \cup {Nobody}]
    BY Zenon, <1>1, <1>5
  <2>4. serials' \in 0 .. MaxSerial
    BY <1>1, <1>2 DEF WTypes, WaiterListAssumption
  <2>. QED
    BY Zenon, <1>1, <1>2, <2>1, <2>2, <2>3, <2>4 DEF WTypes
<1>8. HeldInv'
  BY Zenon, <1>1, <1>2 DEF HeldInv
<1>9. w # Nobody /\ \A m \in Lists : calling'[m] = calling[m] \/ (m = l /\ calling'[m] = w)
  BY Zenon, <1>6 DEF WaiterListAssumption
<1>10. DeadInv'
  BY Zenon, <1>1, <1>2, <1>3, <1>9 DEF DeadInv
<1>11. TagInv'
  <2>1. serials \in Nat /\ fresh.serial = serials + 1 /\ fresh # NoTag /\ NoTag.serial = 0
    BY <1>2 DEF WTypes, NoTag
  <2>. HIDE DEF fresh
  <2>. QED
    BY <1>1, <1>2, <1>6, <1>9, <2>1 DEF TagInv
<1>12. RecInv'
  <2>1. /\ serials \in Nat /\ fresh.serial = serials + 1
        /\ \A x \in Waiters, i \in 1 .. PARKED : parked[x][i].serial \in Nat
    BY <1>2 DEF WTypes, Tags
  <2>. HIDE DEF fresh
  <2>. QED
    BY <1>1, <1>2, <1>6, <2>1 DEF RecInv
<1>13. tag[l] = NoTag => /\ \A x \in Waiters : ~Recorded(x, tag'[l])
                         /\ entries[l] = <<>>
  <2>1. 0 \in Nat
    OBVIOUS
  <2>. QED
    BY Zenon, <1>2, <1>6, <2>1, FreshTag DEF TagInv
<1>14. tag[l] # NoTag => tag'[l] = tag[l]
  BY Zenon, <1>6
<1>15. \A x : x \notin Range(<<>>)
  BY DEF Range
<1>16. ASSUME NEW m \in Lists, m # l
       PROVE  /\ tag'[m] = tag[m] /\ slot'[m] = slot[m] /\ calling'[m] = calling[m]
              /\ entries'[m] = entries[m]
  BY Zenon, <1>1, <1>6, <1>16
<1>17. CallInv'
  <2>1. 0 # 1 /\ 0 # PARKED + 1 /\ 1 # PARKED + 1 /\ 1 \in 1 .. PARKED /\ 0 \notin 1 .. PARKED
    BY DEF WaiterListAssumption
  <2>2. ~lost[w] /\ w \in Range(entries[l]) => Recorded(w, tag'[l])
    BY Zenon, <1>1, <1>2, <1>13, <1>14, <1>15 DEF SingleInv
  <2>3. Registering(l)'
    BY Zenon, <1>1, <1>3, <1>6, <1>9, <2>1, <2>2 DEF Registering
  <2>4. ASSUME NEW m \in Lists, m # l PROVE Registering(m)'
    BY Zenon, <1>1, <1>2, <1>3, <1>16, <2>4 DEF CallInv, Registering
  <2>. QED
    BY Zenon, <2>3, <2>4 DEF CallInv
<1>18. RecordProvesEntry'
  <2>1. \A x \in Waiters : Live(x) /\ tag[l] # NoTag /\ Recorded(x, tag[l]) => x \in Range(entries[l])
    BY Zenon, <1>1, <1>2 DEF RecordProvesEntry, WaiterListAssumption
  <2>2. ASSUME NEW x \in Waiters, NEW m \in Lists, Live(x), tag'[m] # NoTag, Recorded(x, tag'[m])
        PROVE  x \in Range(entries[m]) \/ (calling'[m] = x /\ slot'[m] = PARKED + 1)
    <3>1. CASE m = l
      BY Zenon, <1>13, <1>14, <2>1, <2>2, <3>1
    <3>2. CASE m # l
      BY Zenon, <1>2, <1>16, <2>2, <3>2 DEF RecordProvesEntry
    <3>. QED
      BY Zenon, <3>1, <3>2
  <2>. QED
    BY Zenon, <1>1, <1>3, <2>2 DEF RecordProvesEntry
<1>19. SingleInv'
  BY Zenon, <1>1, <1>2, <1>3, <1>13, <1>14, <1>15, <1>16 DEF SingleInv
<1>. QED
  BY Zenon, <1>7, <1>8, <1>10, <1>11, <1>12, <1>17, <1>18, <1>19 DEF ListInv

\* A registration that found its record returns.
LEMMA ParkedKeeps ==
    ASSUME WaiterListAssumption, ListInv, NEW l \in Lists, Parked(l)
    PROVE  ListInv'
<1>1. /\ calling' = [calling EXCEPT ![l] = Nobody] /\ slot[l] = 0
      /\ entries' = entries /\ cursor' = cursor /\ tag' = tag /\ serials' = serials
      /\ parked' = parked /\ lost' = lost /\ held' = held /\ slot' = slot
  BY Zenon DEF Parked, listVars
<1>2. WTypes /\ HeldInv /\ DeadInv /\ TagInv /\ RecInv /\ CallInv /\ RecordProvesEntry /\ SingleInv
  BY Zenon DEF ListInv
<1>3. (\A x : Live(x)' <=> Live(x)) /\ (\A x, t : Recorded(x, t)' <=> Recorded(x, t))
  BY Zenon, <1>1, SameHeld, SameParked
<1>4. calling \in [Lists -> Waiters \cup {Nobody}]
  BY Zenon, <1>2 DEF WTypes
<1>5. calling'[l] = Nobody /\ \A m \in Lists : m # l => calling'[m] = calling[m]
  BY Zenon, <1>1, <1>4
<1>6. WTypes'
  BY Zenon, <1>1, <1>2, <1>4 DEF WTypes
<1>7. HeldInv' /\ RecInv'
  BY Zenon, <1>1, <1>2 DEF HeldInv, RecInv
<1>8. DeadInv'
  <2>1. Nobody \notin Waiters
    BY DEF WaiterListAssumption
  <2>2. \A m \in Lists, x \in Waiters : calling'[m] = x => calling[m] = x
    BY <1>5, <2>1
  <2>. QED
    BY Zenon, <1>1, <1>2, <1>3, <2>2 DEF DeadInv
<1>9. TagInv'
  BY Zenon, <1>1, <1>2, <1>5 DEF TagInv
<1>10. CallInv'
  <2>1. Registering(l)'
    BY Zenon, <1>1, <1>5 DEF Registering
  <2>2. ASSUME NEW m \in Lists, m # l PROVE Registering(m)'
    BY Zenon, <1>1, <1>2, <1>3, <1>5, <2>2 DEF CallInv, Registering
  <2>. QED
    BY Zenon, <2>1, <2>2 DEF CallInv
<1>11. RecordProvesEntry'
  <2>1. \A m \in Lists : slot[m] = PARKED + 1 => m # l
    BY <1>1 DEF WaiterListAssumption
  <2>. QED
    BY Zenon, <1>1, <1>2, <1>3, <1>5, <2>1 DEF RecordProvesEntry
<1>12. SingleInv'
  BY Zenon, <1>1, <1>2, <1>3 DEF SingleInv
<1>. QED
  BY Zenon, <1>6, <1>7, <1>8, <1>9, <1>10, <1>11, <1>12 DEF ListInv

\* One slot of the records: a claim is of a slot that no other list needs, and a waiter
\* that passes the last one is marked.
LEMMA RecordKeeps ==
    ASSUME WaiterListAssumption, ListInv, NEW l \in Lists, Record(l),
           NEW w, w = calling[l], NEW s, s = slot[l]
    PROVE  ListInv'
<1>. DEFINE claims == parked[w][s] = NoTag \/ parked[w][s].serial = tag[l].serial
<1>1. /\ s \in 1 .. PARKED
      /\ claims => /\ parked' = [parked EXCEPT ![w][s] = tag[l]]
                   /\ slot' = [slot EXCEPT ![l] = PARKED + 1]
                   /\ lost' = lost
      /\ ~claims => /\ slot' = [slot EXCEPT ![l] = slot[l] + 1]
                    /\ lost' = IF slot[l] = PARKED THEN [lost EXCEPT ![w] = TRUE] ELSE lost
                    /\ parked' = parked
      /\ entries' = entries /\ cursor' = cursor /\ tag' = tag /\ serials' = serials
      /\ held' = held /\ calling' = calling
  BY Zenon DEF Record, listVars
<1>2. WTypes /\ HeldInv /\ DeadInv /\ TagInv /\ RecInv /\ CallInv /\ RecordProvesEntry /\ SingleInv
  BY Zenon DEF ListInv
<1>3. \A x : Live(x)' <=> Live(x)
  BY Zenon, <1>1, SameHeld
<1>4. /\ tag \in [Lists -> Tags] /\ slot \in [Lists -> 0 .. PARKED + 1]
      /\ calling \in [Lists -> Waiters \cup {Nobody}]
      /\ parked \in [Waiters -> [1 .. PARKED -> Tags]] /\ lost \in [Waiters -> BOOLEAN]
  BY Zenon, <1>2 DEF WTypes
<1>5. PARKED \in Nat \ {0} /\ Nobody \notin Waiters
  BY DEF WaiterListAssumption
<1>6. /\ w \in Waiters /\ Live(w) /\ ~Recorded(w, tag[l]) /\ tag[l] # NoTag
      /\ ~lost[w] => w \notin Range(entries[l])
  <2>1. s # 0
    BY <1>1, <1>5
  <2>2. w # Nobody
    BY Zenon, <1>2, <2>1 DEF CallInv, Registering
  <2>. QED
    BY Zenon, <1>1, <1>2, <1>4, <2>1, <2>2 DEF CallInv, Registering, TagInv
<1>. HIDE DEF claims
<1>7. CASE claims
  <2>1. /\ \A x \in Waiters : x # w => parked'[x] = parked[x]
        /\ \A i \in 1 .. PARKED : i # s => parked'[w][i] = parked[w][i]
        /\ parked'[w][s] = tag[l]
        /\ parked' \in [Waiters -> [1 .. PARKED -> Tags]]
    <3>1. parked[w] \in [1 .. PARKED -> Tags] /\ tag[l] \in Tags
      BY Zenon, <1>4, <1>6
    <3>. DEFINE own == [parked[w] EXCEPT ![s] = tag[l]]
    <3>2. /\ own \in [1 .. PARKED -> Tags] /\ own[s] = tag[l]
          /\ \A i \in 1 .. PARKED : i # s => own[i] = parked[w][i]
      BY Zenon, <1>1, <3>1
    <3>3. parked' = [parked EXCEPT ![w] = own]
      BY Zenon, <1>1, <1>7
    <3>. HIDE DEF own
    <3>. QED
      BY Zenon, <1>4, <1>6, <3>2, <3>3
  <2>2. /\ slot' \in [Lists -> 0 .. PARKED + 1] /\ slot'[l] = PARKED + 1
        /\ \A m \in Lists : m # l => slot'[m] = slot[m]
    BY <1>1, <1>4, <1>5, <1>7
  <2>3. \A x \in Waiters : x # w => \A t : Recorded(x, t)' <=> Recorded(x, t)
    BY Zenon, <2>1 DEF Recorded
  <2>4. Recorded(w, tag[l])'
    BY Zenon, <1>1, <2>1 DEF Recorded
  <2>5. ASSUME NEW m \in Lists, m # l, tag[m] # NoTag
        PROVE  \A x \in Waiters : Recorded(x, tag[m])' <=> Recorded(x, tag[m])
    <3>1. tag[m].serial # tag[l].serial
      BY Zenon, <1>2, <2>5 DEF TagInv
    <3>2. parked[w][s] # tag[m] /\ tag[l] # tag[m]
      BY <1>7, <2>5, <3>1 DEF claims
    <3>3. \A i \in 1 .. PARKED : parked'[w][i] = tag[m] <=> parked[w][i] = tag[m]
      BY Zenon, <2>1, <3>2
    <3>4. Recorded(w, tag[m])' <=> Recorded(w, tag[m])
      BY Zenon, <1>1, <3>3 DEF Recorded
    <3>. QED
      BY Zenon, <1>1, <2>3, <3>4
  <2>6. WTypes'
    BY Zenon, <1>1, <1>2, <1>4, <1>7, <2>1, <2>2 DEF WTypes
  <2>7. DeadInv'
    <3>1. ASSUME NEW x \in Waiters, ~Live(x)
          PROVE  /\ ~lost'[x] /\ \A i \in 1 .. PARKED : parked'[x][i] = NoTag
                 /\ \A m \in Lists : calling'[m] # x
      <4>1. parked'[x] = parked[x] /\ lost' = lost /\ calling' = calling
        BY <1>1, <1>6, <1>7, <2>1, <3>1
      <4>2. ~lost[x] /\ (\A i \in 1 .. PARKED : parked[x][i] = NoTag) /\ \A m \in Lists : calling[m] # x
        BY Zenon, <1>2, <3>1 DEF DeadInv
      <4>. QED
        BY Zenon, <4>1, <4>2
    <3>. QED
      BY Zenon, <1>3, <3>1 DEF DeadInv
  <2>8. HeldInv' /\ TagInv'
    BY Zenon, <1>1, <1>2 DEF HeldInv, TagInv
  <2>9. RecInv'
    <3>1. tag[l].serial \in 1 .. serials /\ tag[l].round \in Nat
      BY <1>2, <1>4, <1>6 DEF TagInv, Tags
    <3>2. \A m \in Lists : tag[m].serial = tag[l].serial => m = l
      BY Zenon, <1>2, <1>6 DEF TagInv
    <3>3. tag[l].round <= tag[l].round
      BY <3>1
    <3>4. \A x \in Waiters, i \in 1 .. PARKED : parked'[x][i] = tag[l] \/ parked'[x][i] = parked[x][i]
      BY Zenon, <2>1
    <3>5. ASSUME NEW x \in Waiters, NEW i \in 1 .. PARKED
          PROVE  \/ parked'[x][i] = NoTag
                 \/ /\ parked'[x][i].serial \in 1 .. serials
                    /\ \A m \in Lists : tag[m].serial = parked'[x][i].serial => parked'[x][i].round <= tag[m].round
      <4>1. CASE parked'[x][i] = tag[l]
        BY Zenon, <3>1, <3>2, <3>3, <4>1
      <4>2. CASE parked'[x][i] = parked[x][i]
        BY Zenon, <1>2, <4>2 DEF RecInv
      <4>. QED
        BY Zenon, <3>4, <4>1, <4>2
    <3>6. tag' = tag /\ serials' = serials
      BY Zenon, <1>1
    <3>. QED
      BY Zenon, <3>5, <3>6 DEF RecInv
  <2>10. CallInv'
    <3>1. PARKED + 1 # 0 /\ PARKED + 1 \notin 1 .. PARKED
      BY <1>5
    <3>2. Registering(l)'
      BY Zenon, <1>1, <1>3, <1>5, <1>6, <1>7, <2>2, <2>4, <3>1 DEF Registering
    <3>3. ASSUME NEW m \in Lists, m # l, tag[m] # NoTag PROVE Registering(m)'
      <4>1. calling[m] # Nobody => calling[m] \in Waiters
        BY Zenon, <1>4
      <4>2. calling[m] # Nobody => (Recorded(calling[m], tag[m])' <=> Recorded(calling[m], tag[m]))
        BY Zenon, <1>1, <2>5, <3>3, <4>1
      <4>. QED
        BY Zenon, <1>1, <1>2, <1>3, <1>7, <2>2, <3>3, <4>2 DEF CallInv, Registering
    <3>4. ASSUME NEW m \in Lists, m # l, tag[m] = NoTag PROVE Registering(m)'
      BY Zenon, <1>1, <1>2, <2>2, <3>4 DEF CallInv, Registering, TagInv
    <3>. QED
      BY Zenon, <3>2, <3>3, <3>4 DEF CallInv
  <2>11. RecordProvesEntry'
    <3>1. ASSUME NEW x \in Waiters, NEW m \in Lists, Live(x), tag[m] # NoTag, Recorded(x, tag[m])'
          PROVE  x \in Range(entries[m]) \/ (calling[m] = x /\ slot'[m] = PARKED + 1)
      <4>1. CASE m # l
        BY Zenon, <1>2, <2>2, <2>5, <3>1, <4>1 DEF RecordProvesEntry
      <4>2. CASE m = l /\ x = w
        BY Zenon, <2>2, <4>2
      <4>3. CASE m = l /\ x # w
        <5>1. Recorded(x, tag[l])
          BY Zenon, <1>1, <2>3, <3>1, <4>3
        <5>. QED
          BY Zenon, <1>2, <3>1, <4>3, <5>1 DEF RecordProvesEntry
      <4>. QED
        BY Zenon, <4>1, <4>2, <4>3
    <3>. QED
      BY Zenon, <1>1, <1>3, <3>1 DEF RecordProvesEntry
  <2>12. SingleInv'
    <3>1. \A x : x \notin Range(<<>>)
      BY DEF Range
    <3>2. ASSUME NEW x \in Waiters, NEW m \in Lists, Live(x), ~lost[x], x \in Range(entries[m])
          PROVE  Recorded(x, tag[m])'
      <4>1. tag[m] # NoTag /\ Recorded(x, tag[m])
        BY Zenon, <1>2, <3>1, <3>2 DEF TagInv, SingleInv
      <4>2. CASE m # l
        BY Zenon, <2>5, <3>2, <4>1, <4>2
      <4>3. CASE m = l
        BY Zenon, <1>1, <2>3, <2>4, <4>1, <4>3
      <4>. QED
        BY Zenon, <4>2, <4>3
    <3>. QED
      BY Zenon, <1>1, <1>2, <1>3, <1>7, <3>2 DEF SingleInv
  <2>. QED
    BY Zenon, <2>6, <2>7, <2>8, <2>9, <2>10, <2>11, <2>12 DEF ListInv
<1>8. CASE ~claims
  <2>1. \A x, t : Recorded(x, t)' <=> Recorded(x, t)
    BY Zenon, <1>1, <1>8, SameParked
  <2>2. /\ slot' \in [Lists -> 0 .. PARKED + 1] /\ slot'[l] = s + 1
        /\ \A m \in Lists : m # l => slot'[m] = slot[m]
    BY <1>1, <1>4, <1>5, <1>8
  <2>3. /\ lost' \in [Waiters -> BOOLEAN]
        /\ \A x \in Waiters : lost'[x] => lost[x] \/ x = w
        /\ \A x \in Waiters : lost[x] => lost'[x]
        /\ s = PARKED => lost'[w]
    BY Zenon, <1>1, <1>4, <1>6, <1>8
  <2>4. s + 1 # 0 /\ s # 0 /\ s # PARKED + 1 /\ (s + 1 = PARKED + 1 => s = PARKED)
    BY <1>1, <1>5
  <2>5. WTypes'
    BY Zenon, <1>1, <1>2, <1>8, <2>2, <2>3 DEF WTypes
  <2>6. DeadInv'
    BY Zenon, <1>1, <1>2, <1>3, <1>6, <1>8, <2>3 DEF DeadInv
  <2>7. HeldInv' /\ TagInv' /\ RecInv'
    BY Zenon, <1>1, <1>2, <1>8 DEF HeldInv, TagInv, RecInv
  <2>8. CallInv'
    <3>1. Registering(l)'
      BY Zenon, <1>1, <1>3, <1>5, <1>6, <1>8, <2>1, <2>2, <2>3, <2>4 DEF Registering
    <3>2. ASSUME NEW m \in Lists, m # l PROVE Registering(m)'
      <4>1. calling[m] # Nobody => calling[m] \in Waiters
        BY Zenon, <1>4
      <4>. QED
        BY Zenon, <1>1, <1>2, <1>3, <2>1, <2>2, <2>3, <3>2, <4>1 DEF CallInv, Registering
    <3>. QED
      BY Zenon, <3>1, <3>2 DEF CallInv
  <2>9. RecordProvesEntry'
    <3>1. \A m \in Lists : slot[m] = PARKED + 1 => slot'[m] = PARKED + 1
      BY Zenon, <2>2, <2>4
    <3>. QED
      BY Zenon, <1>1, <1>2, <1>3, <2>1, <3>1 DEF RecordProvesEntry
  <2>10. SingleInv'
    BY Zenon, <1>1, <1>2, <1>3, <2>1, <2>3 DEF SingleInv
  <2>. QED
    BY Zenon, <2>5, <2>6, <2>7, <2>8, <2>9, <2>10 DEF ListInv
<1>. QED
  BY Zenon, <1>7, <1>8

\* A push parks the waiter and costs no live one its entry: it takes the place of a dead
\* one, or goes to the end of the list or of what a sweep kept.
LEMMA PushParks ==
    ASSUME Counting, WTypes, NEW l \in Lists, Push(l), NEW w \in Waiters, w = calling[l], Live(w)
    PROVE  /\ entries' \in [Lists -> Seq(Waiters)] /\ cursor' \in [Lists -> Nat \ {0}]
           /\ \A m \in Lists : m # l => entries'[m] = entries[m]
           /\ \A x : Live(x) => (x \in Range(entries'[l]) <=> x \in Range(entries[l]) \/ x = w)
           /\ \A x : Live(x) /\ Once(entries[l], x) /\ (x = w => w \notin Range(entries[l]))
                => Once(entries'[l], x)
<1>. DEFINE s == entries[l]
            Parks(r) == /\ r \in Seq(Waiters)
                        /\ \A x : Live(x) => (x \in Range(r) <=> x \in Range(s) \/ x = w)
                        /\ \A x : Live(x) /\ Once(s, x) /\ (x = w => w \notin Range(s)) => Once(r, x)
            Moves(c) == c \in Nat \ {0}
<1>1. s \in Seq(Waiters) /\ cursor[l] \in Nat \ {0}
  BY Zenon DEF WTypes
<1>2. entries \in [Lists -> Seq(Waiters)] /\ cursor \in [Lists -> Nat \ {0}]
  BY Zenon DEF WTypes
<1>3. ASSUME NEW k \in Nat, s # <<>> PROVE Probe(l, k) \in 1 .. Len(s)
  <2>1. Len(s) \in Nat \ {0} /\ cursor[l] - 1 + k \in Nat
    BY <1>1, <1>3
  <2>2. (cursor[l] - 1 + k) % Len(s) \in 0 .. Len(s) - 1
    BY <2>1
  <2>. QED
    BY <2>1, <2>2 DEF Probe
<1>4. ASSUME NEW r, entries' = [entries EXCEPT ![l] = r], Parks(r),
             NEW c \in Nat \ {0}, cursor' = [cursor EXCEPT ![l] = c]
      PROVE  /\ entries' \in [Lists -> Seq(Waiters)] /\ cursor' \in [Lists -> Nat \ {0}]
             /\ \A m \in Lists : m # l => entries'[m] = entries[m]
             /\ Parks(entries'[l])
  <2>. HIDE DEF Parks
  <2>1. entries'[l] = r /\ \A m \in Lists : m # l => entries'[m] = entries[m]
    BY Zenon, <1>2, <1>4
  <2>2. r \in Seq(Waiters)
    BY Zenon, <1>4 DEF Parks
  <2>. QED
    BY Zenon, <1>2, <1>4, <2>1, <2>2
<1>5. CASE DeadProbes(l) # {}
  <2>. DEFINE k == CHOOSE k \in DeadProbes(l) : \A j \in DeadProbes(l) : k <= j
              p == Probe(l, k)
  <2>1. DeadProbes(l) \in SUBSET Nat
    BY DEF DeadProbes
  <2>2. k \in DeadProbes(l)
    <3>1. \E m \in DeadProbes(l) : \A j \in DeadProbes(l) : m <= j
      BY Zenon, <1>5, <2>1 DEF Counting
    <3>. QED
      BY Zenon, <3>1
  <2>3. /\ cursor' = [cursor EXCEPT ![l] = p]
        /\ entries' = [entries EXCEPT ![l] = [s EXCEPT ![p] = w]]
    BY Zenon, <1>5 DEF Push
  <2>. HIDE DEF k
  <2>4. k \in Nat /\ k < Len(s) /\ ~Live(s[p])
    BY <2>1, <2>2 DEF DeadProbes
  <2>5. p \in 1 .. Len(s)
    <3>1. s # <<>>
      BY <1>1, <2>4
    <3>. QED
      BY Zenon, <1>3, <2>4, <3>1
  <2>. HIDE DEF p
  <2>. DEFINE r == [s EXCEPT ![p] = w]
  <2>6. /\ r \in Seq(Waiters) /\ DOMAIN r = DOMAIN s /\ p \in DOMAIN s /\ r[p] = w
        /\ \A i \in DOMAIN s : i # p => r[i] = s[i]
    BY <1>1, <2>5
  <2>. HIDE DEF r, s
  <2>7. Parks(r)
    <3>1. \A x : Live(x) => s[p] # x
      BY <2>4
    <3>2. ASSUME NEW x, Live(x) PROVE x \in Range(r) <=> x \in Range(s) \/ x = w
      BY <2>6, <3>1, <3>2 DEF Range
    <3>3. ASSUME NEW x, Live(x), Once(s, x), x = w => w \notin Range(s) PROVE Once(r, x)
      BY <2>6, <3>3 DEF Range, Once
    <3>. QED
      BY Zenon, <2>6, <3>2, <3>3
  <2>8. p \in Nat \ {0}
    BY <1>1, <2>5 DEF s
  <2>. HIDE DEF Parks
  <2>. QED
    BY Zenon, <1>4, <2>3, <2>7, <2>8 DEF r, s, Parks
<1>6. CASE DeadProbes(l) = {} /\ Len(s) = capacity[l]
  <2>. DEFINE kept == Retained(s)
  <2>1. entries' = [entries EXCEPT ![l] = Append(kept, w)] /\ cursor' = [cursor EXCEPT ![l] = 1]
    BY Zenon, <1>6 DEF Push
  <2>2. /\ kept \in Seq(Waiters)
        /\ \A x : x \in Range(kept) <=> x \in Range(s) /\ Live(x)
        /\ \A x : Once(s, x) => Once(kept, x)
    BY Zenon, <1>1, RetainedLive
  <2>. HIDE DEF kept, s
  <2>3. Parks(Append(kept, w))
    BY Zenon, <2>2, AppendOnce
  <2>4. 1 \in Nat \ {0}
    OBVIOUS
  <2>. HIDE DEF Parks
  <2>. QED
    BY Zenon, <1>4, <2>1, <2>3, <2>4 DEF s, Parks
<1>7. CASE DeadProbes(l) = {} /\ Len(s) # capacity[l]
  <2>. DEFINE c == IF Len(s) = 0 THEN 1 ELSE Probe(l, IF Len(s) = 1 THEN 1 ELSE 2)
  <2>1. entries' = [entries EXCEPT ![l] = Append(s, w)] /\ cursor' = [cursor EXCEPT ![l] = c]
    BY Zenon, <1>7 DEF Push
  <2>2. c \in Nat \ {0}
    <3>1. Len(s) # 0 => s # <<>>
      BY <1>1
    <3>2. \A k \in Nat : s # <<>> => Probe(l, k) \in Nat \ {0}
      BY <1>1, <1>3
    <3>. QED
      BY <3>1, <3>2
  <2>3. /\ Append(s, w) \in Seq(Waiters)
        /\ \A x : x \in Range(Append(s, w)) <=> x \in Range(s) \/ x = w
        /\ \A x : Once(s, x) /\ (x = w => w \notin Range(s)) => Once(Append(s, w), x)
    BY Zenon, <1>1, AppendOnce
  <2>. HIDE DEF c, s
  <2>4. Parks(Append(s, w))
    BY Zenon, <2>3
  <2>. HIDE DEF Parks
  <2>. QED
    BY Zenon, <1>4, <2>1, <2>2, <2>4 DEF s, Parks
<1>. QED
  BY Zenon, <1>5, <1>6, <1>7

\* The pushed waiter was recorded, or has lost its record.
LEMMA PushKeeps ==
    ASSUME Counting, WaiterListAssumption, ListInv, NEW l \in Lists, Push(l), NEW w, w = calling[l]
    PROVE  ListInv'
<1>1. /\ slot[l] = PARKED + 1
      /\ calling' = [calling EXCEPT ![l] = Nobody] /\ slot' = [slot EXCEPT ![l] = 0]
      /\ tag' = tag /\ serials' = serials /\ parked' = parked /\ lost' = lost /\ held' = held
  BY Zenon DEF Push
<1>2. WTypes /\ HeldInv /\ DeadInv /\ TagInv /\ RecInv /\ CallInv /\ RecordProvesEntry /\ SingleInv
  BY Zenon DEF ListInv
<1>3. (\A x : Live(x)' <=> Live(x)) /\ (\A x, t : Recorded(x, t)' <=> Recorded(x, t))
  BY Zenon, <1>1, SameHeld, SameParked
<1>4. /\ calling \in [Lists -> Waiters \cup {Nobody}] /\ slot \in [Lists -> 0 .. PARKED + 1]
      /\ PARKED \in Nat \ {0} /\ Nobody \notin Waiters
  BY <1>2 DEF WTypes, WaiterListAssumption
<1>5. /\ w \in Waiters /\ Live(w) /\ tag[l] # NoTag
      /\ lost[w] \/ Recorded(w, tag[l])
      /\ ~lost[w] => w \notin Range(entries[l])
  <2>1. PARKED + 1 # 0
    BY <1>4
  <2>2. w # Nobody
    BY Zenon, <1>1, <1>2, <2>1 DEF CallInv, Registering
  <2>. QED
    BY Zenon, <1>1, <1>2, <1>4, <2>1, <2>2 DEF CallInv, Registering, TagInv
<1>6. /\ entries' \in [Lists -> Seq(Waiters)] /\ cursor' \in [Lists -> Nat \ {0}]
      /\ \A m \in Lists : m # l => entries'[m] = entries[m]
      /\ \A x : Live(x) => (x \in Range(entries'[l]) <=> x \in Range(entries[l]) \/ x = w)
      /\ \A x : Live(x) /\ Once(entries[l], x) /\ (x = w => w \notin Range(entries[l]))
           => Once(entries'[l], x)
  BY Zenon, <1>2, <1>5, PushParks
<1>7. /\ calling'[l] = Nobody /\ slot'[l] = 0
      /\ \A m \in Lists : m # l => calling'[m] = calling[m] /\ slot'[m] = slot[m]
      /\ calling' \in [Lists -> Waiters \cup {Nobody}] /\ slot' \in [Lists -> 0 .. PARKED + 1]
  BY <1>1, <1>4
<1>8. WTypes'
  BY Zenon, <1>1, <1>2, <1>6, <1>7 DEF WTypes
<1>9. HeldInv' /\ RecInv'
  BY Zenon, <1>1, <1>2 DEF HeldInv, RecInv
<1>10. DeadInv'
  <2>1. \A m \in Lists, x \in Waiters : calling'[m] = x => calling[m] = x
    BY <1>4, <1>7
  <2>. QED
    BY Zenon, <1>1, <1>2, <1>3, <2>1 DEF DeadInv
<1>11. TagInv'
  <2>1. tag' = tag /\ serials' = serials
    BY Zenon, <1>1
  <2>2. ASSUME NEW m \in Lists, tag[m] = NoTag PROVE entries'[m] = <<>> /\ calling'[m] = Nobody
    <3>1. m # l
      BY Zenon, <1>5, <2>2
    <3>2. entries'[m] = entries[m] /\ calling'[m] = calling[m]
      BY Zenon, <1>6, <1>7, <3>1
    <3>. QED
      BY Zenon, <1>2, <2>2, <3>2 DEF TagInv
  <2>. QED
    BY Zenon, <1>2, <2>1, <2>2 DEF TagInv
<1>12. CallInv'
  <2>1. Registering(l)'
    BY Zenon, <1>7 DEF Registering
  <2>2. ASSUME NEW m \in Lists, m # l PROVE Registering(m)'
    BY Zenon, <1>1, <1>2, <1>3, <1>6, <1>7, <2>2 DEF CallInv, Registering
  <2>. QED
    BY Zenon, <2>1, <2>2 DEF CallInv
<1>13. RecordProvesEntry'
  <2>1. ASSUME NEW x \in Waiters, NEW m \in Lists, Live(x), tag[m] # NoTag, Recorded(x, tag[m])
        PROVE  x \in Range(entries'[m]) \/ (calling'[m] = x /\ slot'[m] = PARKED + 1)
    <3>1. x \in Range(entries[m]) \/ (calling[m] = x /\ slot[m] = PARKED + 1)
      BY Zenon, <1>2, <2>1 DEF RecordProvesEntry
    <3>. QED
      BY Zenon, <1>6, <1>7, <2>1, <3>1
  <2>. QED
    BY Zenon, <1>1, <1>3, <2>1 DEF RecordProvesEntry
<1>14. SingleInv'
  <2>1. ASSUME NEW x \in Waiters, NEW m \in Lists, Live(x), ~lost[x]
        PROVE  /\ x \in Range(entries'[m]) => Recorded(x, tag[m])
               /\ Once(entries'[m], x)
    <3>1. (x \in Range(entries[m]) => Recorded(x, tag[m])) /\ Once(entries[m], x)
      BY Zenon, <1>2, <2>1 DEF SingleInv
    <3>. QED
      BY Zenon, <1>5, <1>6, <2>1, <3>1
  <2>. QED
    BY Zenon, <1>1, <1>3, <2>1 DEF SingleInv
<1>. QED
  BY Zenon, <1>8, <1>9, <1>10, <1>11, <1>12, <1>13, <1>14 DEF ListInv

\* A drain leaves a tag nobody has a record of, or none.
LEMMA DrainedFresh ==
    ASSUME WaiterListAssumption, WTypes, TagInv, RecInv, RecordProvesEntry,
           NEW l \in Lists, calling[l] = Nobody
    PROVE  /\ drained(l) \in Tags
           /\ drained(l) = NoTag \/ (tag[l] # NoTag /\ drained(l).serial = tag[l].serial
                                      /\ drained(l).round >= tag[l].round)
           /\ \A x \in Waiters : Live(x) /\ drained(l) # NoTag => ~Recorded(x, drained(l))
<1>1. tag[l] \in Tags
  BY Zenon DEF WTypes
<1>2. tag[l].round \in Nat /\ tag[l].round < Rounds /\ tag[l].serial \in 0 .. MaxSerial /\ Rounds \in Nat \ {0}
  BY <1>1 DEF Tags, WaiterListAssumption
<1>3. NoTag \in Tags
  BY DEF NoTag, Tags, WaiterListAssumption
<1>4. CASE drained(l) = NoTag
  BY Zenon, <1>3, <1>4
<1>5. CASE tag[l] # NoTag /\ entries[l] = <<>> /\ drained(l) = tag[l]
  <2>1. \A x \in Waiters : Live(x) => ~Recorded(x, tag[l])
    <3>1. \A x : x \notin Range(<<>>)
      BY DEF Range
    <3>. QED
      BY Zenon, <1>5, <3>1 DEF RecordProvesEntry, WaiterListAssumption
  <2>2. tag[l].round >= tag[l].round
    BY <1>2
  <2>. QED
    BY Zenon, <1>1, <1>5, <2>1, <2>2
<1>6. CASE tag[l] # NoTag /\ tag[l].round + 1 # Rounds /\ drained(l) = [tag[l] EXCEPT !.round = @ + 1]
  <2>1. tag[l] = [serial |-> tag[l].serial, round |-> tag[l].round]
    BY <1>1 DEF Tags
  <2>2. drained(l) = [serial |-> tag[l].serial, round |-> tag[l].round + 1]
    BY <1>6, <2>1
  <2>3. tag[l].round + 1 \in 0 .. Rounds - 1
    BY <1>2, <1>6
  <2>4. drained(l) \in Tags
    BY <1>2, <2>2, <2>3 DEF Tags
  <2>5. drained(l).serial = tag[l].serial /\ drained(l).round = tag[l].round + 1
    BY <2>2
  <2>6. tag[l].serial \in 1 .. serials
    BY Zenon, <1>6 DEF TagInv
  <2>7. ASSUME NEW x \in Waiters, NEW i \in 1 .. PARKED PROVE parked[x][i] # drained(l)
    <3>1. parked[x][i] = NoTag \/ (tag[l].serial = parked[x][i].serial => parked[x][i].round <= tag[l].round)
      BY Zenon DEF RecInv
    <3>2. NoTag.serial = 0 /\ tag[l].serial # 0 /\ serials \in Nat
      BY <2>6 DEF NoTag, WTypes
    <3>3. ~(tag[l].round + 1 <= tag[l].round)
      BY <1>2
    <3>. QED
      BY Zenon, <2>5, <3>1, <3>2, <3>3
  <2>8. drained(l).round >= tag[l].round
    BY <1>2, <2>5
  <2>. QED
    BY Zenon, <1>6, <2>4, <2>5, <2>7, <2>8 DEF Recorded
<1>. QED
  BY Zenon, <1>4, <1>5, <1>6 DEF drained

\* A drain empties one list.
LEMMA EmptiedKeeps ==
    ASSUME WaiterListAssumption, ListInv, NEW l \in Lists, Emptied(l)
    PROVE  ListInv'
<1>1. /\ calling[l] = Nobody
      /\ tag' = [tag EXCEPT ![l] = drained(l)] /\ entries' = [entries EXCEPT ![l] = <<>>]
      /\ cursor' = [cursor EXCEPT ![l] = 1]
      /\ serials' = serials /\ parked' = parked /\ lost' = lost /\ held' = held
      /\ calling' = calling /\ slot' = slot
  BY Zenon DEF Emptied
<1>2. WTypes /\ HeldInv /\ DeadInv /\ TagInv /\ RecInv /\ CallInv /\ RecordProvesEntry /\ SingleInv
  BY Zenon DEF ListInv
<1>3. (\A x : Live(x)' <=> Live(x)) /\ (\A x, t : Recorded(x, t)' <=> Recorded(x, t))
  BY Zenon, <1>1, SameHeld, SameParked
<1>. DEFINE d == drained(l)
<1>4. /\ d \in Tags
      /\ d = NoTag \/ (tag[l] # NoTag /\ d.serial = tag[l].serial /\ d.round >= tag[l].round)
      /\ \A x \in Waiters : Live(x) /\ d # NoTag => ~Recorded(x, d)
  BY Zenon, <1>1, <1>2, DrainedFresh
<1>. HIDE DEF d
<1>5. tag \in [Lists -> Tags] /\ entries \in [Lists -> Seq(Waiters)] /\ cursor \in [Lists -> Nat \ {0}]
  BY Zenon, <1>2 DEF WTypes
<1>6. /\ tag'[l] = d /\ entries'[l] = <<>>
      /\ \A m \in Lists : m # l => tag'[m] = tag[m] /\ entries'[m] = entries[m]
  BY Zenon, <1>1, <1>5 DEF d
<1>7. WTypes'
  <2>1. tag' \in [Lists -> Tags]
    BY Zenon, <1>1, <1>4, <1>5 DEF d
  <2>2. entries' \in [Lists -> Seq(Waiters)] /\ cursor' \in [Lists -> Nat \ {0}]
    BY <1>1, <1>5
  <2>. QED
    BY Zenon, <1>1, <1>2, <2>1, <2>2 DEF WTypes
<1>8. HeldInv' /\ DeadInv'
  BY Zenon, <1>1, <1>2, <1>3 DEF HeldInv, DeadInv
<1>9. TagInv'
  <2>1. ASSUME NEW m \in Lists
        PROVE  /\ tag'[m] = NoTag \/ tag'[m].serial \in 1 .. serials
               /\ tag'[m] = NoTag => entries'[m] = <<>> /\ calling[m] = Nobody
               /\ tag'[m] = NoTag \/ (tag[m] # NoTag /\ tag'[m].serial = tag[m].serial)
    <3>1. CASE m = l
      BY Zenon, <1>1, <1>2, <1>4, <1>6, <3>1 DEF TagInv
    <3>2. CASE m # l
      BY Zenon, <1>2, <1>6, <3>2 DEF TagInv
    <3>. QED
      BY Zenon, <3>1, <3>2
  <2>2. ASSUME NEW m \in Lists, NEW n \in Lists, tag'[m].serial = tag'[n].serial, tag'[m] # NoTag PROVE m = n
    <3>1. tag'[m].serial # NoTag.serial
      <4>1. tag'[m].serial \in 1 .. serials
        BY Zenon, <2>1, <2>2
      <4>. QED
        BY Zenon, <1>2, <4>1, TagFields
    <3>2. tag'[n] # NoTag
      BY Zenon, <2>2, <3>1
    <3>. QED
      BY Zenon, <1>2, <2>1, <2>2, <3>2 DEF TagInv
  <2>. QED
    BY Zenon, <1>1, <2>1, <2>2 DEF TagInv
<1>10. RecInv'
  <2>1. ASSUME NEW x \in Waiters, NEW i \in 1 .. PARKED, parked[x][i] # NoTag, NEW m \in Lists,
               tag'[m].serial = parked[x][i].serial
        PROVE  parked[x][i].round <= tag'[m].round
    <3>1. parked[x][i].serial \in 1 .. serials
      BY Zenon, <1>2, <2>1 DEF RecInv
    <3>2. tag'[m] # NoTag
      BY Zenon, <1>2, <2>1, <3>1, TagFields
    <3>3. tag[m].serial = parked[x][i].serial => parked[x][i].round <= tag[m].round
      BY Zenon, <1>2, <2>1 DEF RecInv
    <3>4. CASE m # l
      BY Zenon, <1>6, <2>1, <3>3, <3>4
    <3>5. CASE m = l
      <4>1. d # NoTag /\ d.serial = tag[l].serial /\ d.round >= tag[l].round /\ parked[x][i].round <= tag[l].round
        BY Zenon, <1>4, <1>6, <2>1, <3>2, <3>3, <3>5
      <4>2. d.round \in Nat /\ tag[l].round \in Nat /\ parked[x][i].round \in Nat
        <5>1. d \in Tags /\ tag[l] \in Tags /\ parked[x] \in [1 .. PARKED -> Tags]
          BY Zenon, <1>2, <1>4 DEF WTypes
        <5>2. parked[x][i] \in Tags
          BY Zenon, <2>1, <5>1
        <5>3. \A a \in Tags : a.round \in Nat
          BY Zenon, <1>2, TagFields
        <5>. QED
          BY Zenon, <5>1, <5>2, <5>3
      <4>3. parked[x][i].round <= d.round
        BY <4>1, <4>2
      <4>. QED
        BY Zenon, <1>6, <3>5, <4>3
    <3>. QED
      BY Zenon, <3>4, <3>5
  <2>. QED
    BY Zenon, <1>1, <1>2, <2>1 DEF RecInv
<1>11. \A x : x \notin Range(<<>>)
  BY DEF Range
<1>12. CallInv'
  <2>1. Registering(l)'
    BY Zenon, <1>1, <1>2 DEF Registering, CallInv
  <2>2. ASSUME NEW m \in Lists, m # l PROVE Registering(m)'
    BY Zenon, <1>1, <1>2, <1>3, <1>6, <2>2 DEF CallInv, Registering
  <2>. QED
    BY Zenon, <2>1, <2>2 DEF CallInv
<1>13. RecordProvesEntry'
  <2>1. ASSUME NEW x \in Waiters, NEW m \in Lists, Live(x), tag'[m] # NoTag, Recorded(x, tag'[m])
        PROVE  x \in Range(entries'[m]) \/ (calling[m] = x /\ slot[m] = PARKED + 1)
    <3>1. m # l
      BY Zenon, <1>4, <1>6, <2>1
    <3>. QED
      BY Zenon, <1>2, <1>6, <2>1, <3>1 DEF RecordProvesEntry
  <2>. QED
    BY Zenon, <1>1, <1>3, <2>1 DEF RecordProvesEntry
<1>14. SingleInv'
  <2>1. ASSUME NEW x \in Waiters, NEW m \in Lists, Live(x), ~lost[x]
        PROVE  /\ x \in Range(entries'[m]) => Recorded(x, tag'[m])
               /\ Once(entries'[m], x)
    <3>1. Once(<<>>, x)
      BY DEF Once
    <3>. QED
      BY Zenon, <1>2, <1>6, <1>11, <2>1, <3>1 DEF SingleInv
  <2>. QED
    BY Zenon, <1>1, <1>3, <2>1 DEF SingleInv
<1>. QED
  BY Zenon, <1>7, <1>8, <1>9, <1>10, <1>12, <1>13, <1>14 DEF ListInv

\* A waiter kept is one whose every entry is recorded, or that starts over.
LEMMA HoldSameKeeps ==
    ASSUME WaiterListAssumption, ListInv, NEW t \in Tasks, HoldSame(t), NEW w, w = held[t]
    PROVE  ListInv'
<1>1. /\ ~lost[w] \/ ~Referred(w)
      /\ \A l \in Lists : calling[l] # w
      /\ parked' = IF lost[w] THEN [parked EXCEPT ![w] = [i \in 1 .. PARKED |-> NoTag]] ELSE parked
      /\ lost' = [lost EXCEPT ![w] = FALSE]
      /\ entries' = entries /\ cursor' = cursor /\ tag' = tag
      /\ serials' = serials /\ held' = held /\ calling' = calling /\ slot' = slot
  BY Zenon DEF HoldSame, reusable, listVars
<1>2. WTypes /\ HeldInv /\ DeadInv /\ TagInv /\ RecInv /\ CallInv /\ RecordProvesEntry /\ SingleInv
  BY Zenon DEF ListInv
<1>3. \A x : Live(x)' <=> Live(x)
  BY Zenon, <1>1, SameHeld
<1>4. /\ parked \in [Waiters -> [1 .. PARKED -> Tags]] /\ lost \in [Waiters -> BOOLEAN]
      /\ w \in Waiters /\ Live(w)
  BY Zenon, <1>2 DEF WTypes, Live
<1>5. lost' \in [Waiters -> BOOLEAN] /\ ~lost'[w] /\ \A x \in Waiters : x # w => lost'[x] = lost[x]
  BY Zenon, <1>1, <1>4
<1>6. NoTag \in Tags
  BY DEF NoTag, Tags, WaiterListAssumption
<1>7. /\ parked' \in [Waiters -> [1 .. PARKED -> Tags]]
      /\ \A x \in Waiters : x # w => parked'[x] = parked[x]
      /\ ~lost[w] => parked'[w] = parked[w]
      /\ lost[w] => \A i \in 1 .. PARKED : parked'[w][i] = NoTag
  BY <1>1, <1>4, <1>6
<1>8. \A x \in Waiters : parked'[x] = parked[x] => \A a : Recorded(x, a)' <=> Recorded(x, a)
  BY Zenon DEF Recorded
<1>9. lost[w] => /\ \A a : a # NoTag => ~Recorded(w, a)'
                 /\ \A l \in Lists : w \notin Range(entries[l])
  BY Zenon, <1>1, <1>7 DEF Recorded, Referred
<1>10. WTypes' /\ HeldInv' /\ TagInv'
  BY Zenon, <1>1, <1>2, <1>5, <1>7 DEF WTypes, HeldInv, TagInv
<1>11. \A x \in Waiters : x = w \/ (parked'[x] = parked[x] /\ lost'[x] = lost[x])
  BY Zenon, <1>5, <1>7
<1>12. DeadInv'
  <2>1. ASSUME NEW x \in Waiters, ~Live(x)
        PROVE  ~lost'[x] /\ (\A i \in 1 .. PARKED : parked'[x][i] = NoTag) /\ \A l \in Lists : calling[l] # x
    <3>1. parked'[x] = parked[x] /\ lost'[x] = lost[x]
      BY <1>4, <1>11, <2>1
    <3>2. ~lost[x] /\ (\A i \in 1 .. PARKED : parked[x][i] = NoTag) /\ \A l \in Lists : calling[l] # x
      BY Zenon, <1>2, <2>1 DEF DeadInv
    <3>. QED
      BY Zenon, <3>1, <3>2
  <2>. QED
    BY Zenon, <1>1, <1>3, <2>1 DEF DeadInv
<1>13. RecInv'
  <2>1. \A x \in Waiters, i \in 1 .. PARKED : parked'[x][i] = NoTag \/ parked'[x][i] = parked[x][i]
    BY <1>7
  <2>2. ASSUME NEW x \in Waiters, NEW i \in 1 .. PARKED, parked'[x][i] = parked[x][i]
        PROVE  \/ parked'[x][i] = NoTag
               \/ /\ parked'[x][i].serial \in 1 .. serials
                  /\ \A l \in Lists : tag[l].serial = parked'[x][i].serial => parked'[x][i].round <= tag[l].round
    BY Zenon, <1>2, <2>2 DEF RecInv
  <2>3. \A x \in Waiters, i \in 1 .. PARKED :
            \/ parked'[x][i] = NoTag
            \/ /\ parked'[x][i].serial \in 1 .. serials
               /\ \A l \in Lists : tag[l].serial = parked'[x][i].serial => parked'[x][i].round <= tag[l].round
    BY Zenon, <2>1, <2>2
  <2>4. tag' = tag /\ serials' = serials
    BY Zenon, <1>1
  <2>. QED
    BY Zenon, <2>3, <2>4 DEF RecInv
<1>14. CallInv'
  <2>1. ASSUME NEW m \in Lists PROVE Registering(m)'
    <3>1. ASSUME calling[m] # Nobody
          PROVE  /\ lost'[calling[m]] = lost[calling[m]]
                 /\ Recorded(calling[m], tag[m])' <=> Recorded(calling[m], tag[m])
      <4>1. calling[m] \in Waiters /\ calling[m] # w
        BY Zenon, <1>1, <1>2, <3>1 DEF WTypes
      <4>. QED
        BY Zenon, <1>1, <1>8, <1>11, <4>1
    <3>. QED
      BY Zenon, <1>1, <1>2, <1>3, <3>1 DEF CallInv, Registering
  <2>. QED
    BY Zenon, <2>1 DEF CallInv
<1>15. RecordProvesEntry'
  <2>1. ASSUME NEW x \in Waiters, NEW m \in Lists, tag[m] # NoTag, Recorded(x, tag[m])'
        PROVE  Recorded(x, tag[m])
    <3>1. CASE x = w /\ lost[w]
      BY Zenon, <1>1, <1>9, <2>1, <3>1
    <3>2. CASE ~(x = w /\ lost[w])
      <4>1. parked'[x] = parked[x]
        BY Zenon, <1>7, <3>2
      <4>. QED
        BY Zenon, <1>1, <1>8, <2>1, <4>1
    <3>. QED
      BY Zenon, <3>1, <3>2
  <2>. QED
    BY Zenon, <1>1, <1>2, <1>3, <2>1 DEF RecordProvesEntry
<1>16. SingleInv'
  <2>1. ASSUME NEW x \in Waiters, NEW m \in Lists, Live(x), ~lost'[x]
        PROVE  (x \in Range(entries[m]) => Recorded(x, tag[m])') /\ Once(entries[m], x)
    <3>1. CASE x = w /\ lost[w]
      <4>1. w \notin Range(entries[m])
        BY Zenon, <1>9, <3>1
      <4>2. Once(entries[m], w)
        BY Zenon, <4>1 DEF Once, Range
      <4>. QED
        BY Zenon, <3>1, <4>1, <4>2
    <3>2. CASE ~(x = w /\ lost[w])
      <4>1. parked'[x] = parked[x] /\ ~lost[x]
        BY Zenon, <1>5, <1>7, <2>1, <3>2
      <4>. QED
        BY Zenon, <1>1, <1>2, <1>8, <2>1, <4>1 DEF SingleInv
    <3>. QED
      BY Zenon, <3>1, <3>2
  <2>. QED
    BY Zenon, <1>1, <1>3, <2>1 DEF SingleInv
<1>. QED
  BY Zenon, <1>10, <1>12, <1>13, <1>14, <1>15, <1>16 DEF ListInv

\* A waiter retired takes its records with it, and the one that takes over is in no list.
LEMMA HoldFreshKeeps ==
    ASSUME WaiterListAssumption, ListInv, NEW t \in Tasks, NEW w \in Waiters, HoldFresh(t, w),
           NEW o, o = held[t]
    PROVE  ListInv'
<1>1. /\ ~Live(w) /\ ~Referred(w) /\ \A l \in Lists : calling[l] # o
      /\ held' = [held EXCEPT ![t] = w]
      /\ parked' = [parked EXCEPT ![o] = [i \in 1 .. PARKED |-> NoTag]]
      /\ lost' = [lost EXCEPT ![o] = FALSE]
      /\ entries' = entries /\ cursor' = cursor /\ tag' = tag
      /\ serials' = serials /\ calling' = calling /\ slot' = slot
  BY Zenon DEF HoldFresh, listVars
<1>2. WTypes /\ HeldInv /\ DeadInv /\ TagInv /\ RecInv /\ CallInv /\ RecordProvesEntry /\ SingleInv
  BY Zenon DEF ListInv
<1>3. /\ parked \in [Waiters -> [1 .. PARKED -> Tags]] /\ lost \in [Waiters -> BOOLEAN]
      /\ held \in [Tasks -> Waiters] /\ o \in Waiters /\ Live(o)
  BY Zenon, <1>2 DEF WTypes, Live
<1>4. o # w
  <2>1. ~Live(w) /\ Live(o)
    BY Zenon, <1>1, <1>3
  <2>. QED
    BY <2>1
<1>5. /\ \A x : Live(x)' <=> x = w \/ (Live(x) /\ x # o)
      /\ HeldInv'
      /\ held' \in [Tasks -> Waiters]
  <2>1. held'[t] = w /\ (\A u \in Tasks : u # t => held'[u] = held[u]) /\ held' \in [Tasks -> Waiters]
    BY Zenon, <1>1, <1>3
  <2>2. \A u \in Tasks : held[u] # w /\ (u # t => held[u] # o)
    BY Zenon, <1>1, <1>2 DEF Live, HeldInv
  <2>3. \A x : Live(x)' <=> x = w \/ (Live(x) /\ x # o)
    BY Zenon, <2>1, <2>2 DEF Live
  <2>4. HeldInv'
    BY Zenon, <1>2, <2>1, <2>2 DEF HeldInv
  <2>. QED
    BY Zenon, <2>1, <2>3, <2>4
<1>6. /\ ~lost[w] /\ (\A i \in 1 .. PARKED : parked[w][i] = NoTag) /\ \A l \in Lists : calling[l] # w
      /\ \A l \in Lists : w \notin Range(entries[l])
  BY Zenon, <1>1, <1>2 DEF DeadInv, Referred
<1>7. NoTag \in Tags
  BY Zenon, <1>2, TagFields
<1>8. lost' \in [Waiters -> BOOLEAN] /\ ~lost'[o] /\ \A x \in Waiters : x # o => lost'[x] = lost[x]
  BY Zenon, <1>1, <1>3
<1>9. /\ parked' \in [Waiters -> [1 .. PARKED -> Tags]]
      /\ \A x \in Waiters : x # o => parked'[x] = parked[x]
      /\ \A i \in 1 .. PARKED : parked'[o][i] = NoTag
  BY <1>1, <1>3, <1>7
<1>10. \A x \in Waiters : x # o => \A a : Recorded(x, a)' <=> Recorded(x, a)
  BY Zenon, <1>9 DEF Recorded
<1>11. WTypes' /\ TagInv'
  <2>1. WTypes'
    <3>1. /\ entries \in [Lists -> Seq(Waiters)] /\ cursor \in [Lists -> Nat \ {0}]
          /\ tag \in [Lists -> Tags] /\ serials \in 0 .. MaxSerial
          /\ calling \in [Lists -> Waiters \cup {Nobody}] /\ slot \in [Lists -> 0 .. PARKED + 1]
      BY Zenon, <1>2 DEF WTypes
    <3>2. /\ entries' \in [Lists -> Seq(Waiters)] /\ cursor' \in [Lists -> Nat \ {0}]
          /\ tag' \in [Lists -> Tags] /\ serials' \in 0 .. MaxSerial
          /\ calling' \in [Lists -> Waiters \cup {Nobody}] /\ slot' \in [Lists -> 0 .. PARKED + 1]
      BY Zenon, <1>1, <3>1
    <3>. QED
      BY Zenon, <1>5, <1>8, <1>9, <3>2 DEF WTypes
  <2>2. TagInv'
    BY Zenon, <1>1, <1>2 DEF TagInv
  <2>. QED
    BY Zenon, <2>1, <2>2
<1>12. DeadInv'
  <2>1. ASSUME NEW x \in Waiters, ~Live(x)'
        PROVE  ~lost'[x] /\ (\A i \in 1 .. PARKED : parked'[x][i] = NoTag) /\ \A l \in Lists : calling[l] # x
    <3>1. CASE x = o
      BY Zenon, <1>1, <1>8, <1>9, <3>1
    <3>2. CASE x # o
      <4>1. ~Live(x)
        BY Zenon, <1>5, <2>1, <3>2
      <4>2. ~lost[x] /\ (\A i \in 1 .. PARKED : parked[x][i] = NoTag) /\ \A l \in Lists : calling[l] # x
        BY Zenon, <1>2, <4>1 DEF DeadInv
      <4>3. parked'[x] = parked[x] /\ lost'[x] = lost[x]
        BY Zenon, <1>8, <1>9, <3>2
      <4>. QED
        BY Zenon, <4>2, <4>3
    <3>. QED
      BY Zenon, <3>1, <3>2
  <2>. QED
    BY Zenon, <1>1, <2>1 DEF DeadInv
<1>13. RecInv'
  <2>1. \A x \in Waiters, i \in 1 .. PARKED : parked'[x][i] = NoTag \/ parked'[x][i] = parked[x][i]
    BY <1>9
  <2>2. ASSUME NEW x \in Waiters, NEW i \in 1 .. PARKED, parked'[x][i] = parked[x][i]
        PROVE  \/ parked'[x][i] = NoTag
               \/ /\ parked'[x][i].serial \in 1 .. serials
                  /\ \A l \in Lists : tag[l].serial = parked'[x][i].serial => parked'[x][i].round <= tag[l].round
    BY Zenon, <1>2, <2>2 DEF RecInv
  <2>3. \A x \in Waiters, i \in 1 .. PARKED :
            \/ parked'[x][i] = NoTag
            \/ /\ parked'[x][i].serial \in 1 .. serials
               /\ \A l \in Lists : tag[l].serial = parked'[x][i].serial => parked'[x][i].round <= tag[l].round
    BY Zenon, <2>1, <2>2
  <2>4. tag' = tag /\ serials' = serials
    BY Zenon, <1>1
  <2>. QED
    BY Zenon, <2>3, <2>4 DEF RecInv
<1>14. CallInv'
  <2>1. ASSUME NEW m \in Lists PROVE Registering(m)'
    <3>1. ASSUME calling[m] # Nobody
          PROVE  /\ lost'[calling[m]] = lost[calling[m]]
                 /\ Recorded(calling[m], tag[m])' <=> Recorded(calling[m], tag[m])
                 /\ Live(calling[m]) => Live(calling[m])'
      <4>1. calling[m] \in Waiters /\ calling[m] # o
        BY Zenon, <1>1, <1>2, <3>1 DEF WTypes
      <4>. QED
        BY Zenon, <1>1, <1>5, <1>8, <1>10, <4>1
    <3>. QED
      BY Zenon, <1>1, <1>2, <3>1 DEF CallInv, Registering
  <2>. QED
    BY Zenon, <2>1 DEF CallInv
<1>15. RecordProvesEntry'
  <2>1. ASSUME NEW x \in Waiters, NEW m \in Lists, Live(x)', tag[m] # NoTag, Recorded(x, tag[m])'
        PROVE  Live(x) /\ Recorded(x, tag[m])
    <3>1. x # o
      BY Zenon, <1>4, <1>5, <2>1
    <3>2. Recorded(x, tag[m])
      BY Zenon, <1>1, <1>10, <2>1, <3>1
    <3>3. x # w
      BY Zenon, <1>6, <2>1, <3>2 DEF Recorded
    <3>. QED
      BY Zenon, <1>5, <2>1, <3>2, <3>3
  <2>. QED
    BY Zenon, <1>1, <1>2, <2>1 DEF RecordProvesEntry
<1>16. SingleInv'
  <2>1. ASSUME NEW x \in Waiters, NEW m \in Lists, Live(x)', ~lost'[x]
        PROVE  (x \in Range(entries[m]) => Recorded(x, tag[m])') /\ Once(entries[m], x)
    <3>1. x # o
      BY Zenon, <1>4, <1>5, <2>1
    <3>2. CASE x = w
      <4>1. Once(entries[m], w)
        BY Zenon, <1>6 DEF Once, Range
      <4>. QED
        BY Zenon, <1>6, <3>2, <4>1
    <3>3. CASE x # w
      <4>1. Live(x) /\ ~lost[x]
        BY Zenon, <1>5, <1>8, <2>1, <3>1, <3>3
      <4>. QED
        BY Zenon, <1>1, <1>2, <1>10, <3>1, <4>1 DEF SingleInv
    <3>. QED
      BY Zenon, <3>2, <3>3
  <2>. QED
    BY Zenon, <1>1, <2>1 DEF SingleInv
<1>. QED
  BY Zenon, <1>5, <1>11, <1>12, <1>13, <1>14, <1>15, <1>16 DEF ListInv

\* The invariant holds at the start ...
LEMMA ListInit ==
    ASSUME WaiterListAssumption, Init
    PROVE  ListInv
<1>1. /\ entries = [l \in Lists |-> <<>>] /\ cursor = [l \in Lists |-> 1] /\ tag = [l \in Lists |-> NoTag]
      /\ serials = 0 /\ parked = [w \in Waiters |-> [i \in 1 .. PARKED |-> NoTag]]
      /\ lost = [w \in Waiters |-> FALSE] /\ held \in [Tasks -> Waiters]
      /\ \A t, u \in Tasks : held[t] = held[u] => t = u
      /\ calling = [l \in Lists |-> Nobody] /\ slot = [l \in Lists |-> 0]
  BY DEF Init
<1>2. NoTag \in Tags /\ PARKED \in Nat /\ MaxSerial \in Nat
  BY DEF NoTag, Tags, WaiterListAssumption
<1>3. WTypes
  BY <1>1, <1>2 DEF WTypes
<1>4. /\ \A l \in Lists : entries[l] = <<>> /\ tag[l] = NoTag /\ calling[l] = Nobody /\ slot[l] = 0
      /\ \A w \in Waiters : ~lost[w] /\ \A i \in 1 .. PARKED : parked[w][i] = NoTag
  BY Zenon, <1>1
<1>5. (\A x : x \notin Range(<<>>)) /\ \A x : Once(<<>>, x)
  BY DEF Range, Once
<1>6. HeldInv /\ TagInv /\ RecInv
  BY Zenon, <1>1, <1>4 DEF HeldInv, TagInv, RecInv
<1>7. DeadInv /\ CallInv
  BY Zenon, <1>4 DEF DeadInv, CallInv, Registering, WaiterListAssumption
<1>8. RecordProvesEntry /\ SingleInv
  BY Zenon, <1>4, <1>5 DEF RecordProvesEntry, SingleInv
<1>. QED
  BY Zenon, <1>3, <1>6, <1>7, <1>8 DEF ListInv

\* ... and every step keeps it.
LEMMA ListStep ==
    ASSUME Counting, WaiterListAssumption, ListInv, [Next]_vars
    PROVE  ListInv'
<1>1. ASSUME NEW l \in Lists, NEW w \in Waiters, Register(l, w) PROVE ListInv'
  BY Zenon, <1>1, RegisterKeeps
<1>2. ASSUME NEW l \in Lists, Record(l) \/ Push(l) \/ Parked(l) PROVE ListInv'
  BY Zenon, <1>2, RecordKeeps, PushKeeps, ParkedKeeps
<1>3. ASSUME NEW l \in Lists, TakeAndWake(l) \/ Clear(l) PROVE ListInv'
  BY Zenon, <1>3, EmptiedKeeps DEF TakeAndWake, Clear
<1>4. ASSUME NEW t \in Tasks, HoldSame(t) PROVE ListInv'
  BY Zenon, <1>4, HoldSameKeeps
<1>5. ASSUME NEW t \in Tasks, NEW w \in Waiters, HoldFresh(t, w) PROVE ListInv'
  BY Zenon, <1>5, HoldFreshKeeps
<1>6. CASE UNCHANGED vars
  <2>1. UNCHANGED <<entries, cursor, tag, serials, parked, lost, held, calling, slot>>
    BY Zenon, <1>6 DEF vars, listVars
  <2>2. (\A x : Live(x)' <=> Live(x)) /\ (\A x, t : Recorded(x, t)' <=> Recorded(x, t))
    BY Zenon, <2>1, SameHeld, SameParked
  <2>3. WTypes' /\ HeldInv' /\ TagInv' /\ RecInv'
    BY Zenon, <2>1 DEF ListInv, WTypes, HeldInv, TagInv, RecInv
  <2>4. DeadInv' /\ CallInv'
    BY Zenon, <2>1, <2>2 DEF ListInv, DeadInv, CallInv, Registering
  <2>5. RecordProvesEntry' /\ SingleInv'
    BY Zenon, <2>1, <2>2 DEF ListInv, RecordProvesEntry, SingleInv
  <2>. QED
    BY Zenon, <2>3, <2>4, <2>5 DEF ListInv
<1>. QED
  BY Zenon, <1>1, <1>2, <1>3, <1>4, <1>5, <1>6 DEF Next

-----------------------------------------------------------------------------
(* A list is a registry of the live waiters.                               *)

Holding(l) == {w \in Range(entries[l]) : Live(w)}

\* A list that keeps its live entries keeps its place in the registry.
LEMMA HoldingIs ==
    ASSUME NEW l, NEW S, \A x : x \in S <=> x \in Range(entries'[l]) /\ Live(x)'
    PROVE  Holding(l)' = S
BY Zenon DEF Holding

\* What one list's change is to the registry.
LEMMA HoldingAt ==
    ASSUME NEW l \in Lists, NEW S, Holding(l)' = S,
           \A m \in Lists : m # l => Holding(m)' = Holding(m)
    PROVE  [m \in Lists |-> Holding(m)]' = [[m \in Lists |-> Holding(m)] EXCEPT ![l] = S]
BY Zenon

\* Every step of a list is a step of the registry, or none.
LEMMA RegistryStep ==
    ASSUME Counting, WaiterListAssumption, ListInv, [Next]_vars
    PROVE  [Abstract!RegNext]_(Abstract!regVars)
<1>. DEFINE P == [m \in Lists |-> Holding(m)]
<1>1. /\ P = [l \in Lists |-> {w \in Range(entries[l]) : Live(w)}]
      /\ P' = [l \in Lists |-> {w \in Range(entries[l]) : Live(w)}]'
  BY Zenon DEF Holding
<1>2. \A l \in Lists : P[l] = Holding(l)
  BY Zenon
<1>. HIDE DEF P
<1>3. /\ WTypes /\ CallInv /\ TagInv /\ RecordProvesEntry /\ HeldInv
      /\ calling \in [Lists -> Waiters \cup {Nobody}]
  BY Zenon DEF ListInv, WTypes
<1>4. ASSUME entries' = entries, held' = held PROVE P' = P
  BY Zenon, <1>4 DEF P, Holding, Live
<1>5. ASSUME NEW l \in Lists, NEW w \in Waiters, Register(l, w)
      PROVE  Abstract!Call(l, w)
  <2>1. P' = P
    BY Zenon, <1>4, <1>5 DEF Register
  <2>. QED
    BY Zenon, <1>1, <1>5, <2>1 DEF Register, Abstract!Call
<1>6. ASSUME NEW l \in Lists, Record(l)
      PROVE  UNCHANGED Abstract!regVars
  <2>1. P' = P /\ UNCHANGED <<calling, woken>>
    BY Zenon, <1>4, <1>6 DEF Record, listVars
  <2>. QED
    BY Zenon, <1>1, <2>1 DEF Abstract!regVars
<1>7. ASSUME NEW l \in Lists, calling[l] # Nobody, calling' = [calling EXCEPT ![l] = Nobody], woken' = woken,
             P' = [P EXCEPT ![l] = Holding(l) \cup {calling[l]}]
      PROVE  Abstract!Return(l)
  <2>1. P' = [P EXCEPT ![l] = P[l] \cup {calling[l]}]
    BY Zenon, <1>2, <1>7
  <2>. QED
    BY Zenon, <1>1, <1>7, <2>1 DEF Abstract!Return
<1>8. ASSUME NEW l \in Lists, Push(l)
      PROVE  Abstract!Return(l)
  <2>1. /\ slot[l] = PARKED + 1 /\ calling' = [calling EXCEPT ![l] = Nobody] /\ woken' = woken /\ held' = held
    BY Zenon, <1>8 DEF Push
  <2>2. calling[l] # Nobody /\ calling[l] \in Waiters /\ Live(calling[l])
    <3>1. PARKED + 1 # 0
      BY DEF WaiterListAssumption
    <3>. QED
      BY Zenon, <1>3, <2>1, <3>1 DEF CallInv, Registering
  <2>3. /\ \A m \in Lists : m # l => entries'[m] = entries[m]
        /\ \A x : Live(x) => (x \in Range(entries'[l]) <=> x \in Range(entries[l]) \/ x = calling[l])
    BY Zenon, <1>3, <1>8, <2>2, PushParks
  <2>4. \A x : Live(x)' <=> Live(x)
    BY Zenon, <2>1, SameHeld
  <2>5. Holding(l)' = Holding(l) \cup {calling[l]}
    <3>1. \A x : x \in Holding(l) \cup {calling[l]} <=> x \in Range(entries'[l]) /\ Live(x)'
      BY <2>2, <2>3, <2>4 DEF Holding
    <3>. QED
      BY Zenon, <3>1, HoldingIs
  <2>6. ASSUME NEW m \in Lists, m # l PROVE Holding(m)' = Holding(m)
    BY Zenon, <2>3, <2>4, <2>6 DEF Holding
  <2>7. P' = [P EXCEPT ![l] = Holding(l) \cup {calling[l]}]
    BY Zenon, <2>5, <2>6, HoldingAt DEF P
  <2>. QED
    BY Zenon, <1>7, <2>1, <2>2, <2>7
<1>9. ASSUME NEW l \in Lists, Parked(l)
      PROVE  Abstract!Return(l)
  <2>1. /\ calling[l] # Nobody /\ slot[l] = 0 /\ calling' = [calling EXCEPT ![l] = Nobody]
        /\ woken' = woken /\ held' = held /\ entries' = entries
    BY Zenon, <1>9 DEF Parked, listVars
  <2>2. Live(calling[l]) /\ Recorded(calling[l], tag[l]) /\ tag[l] # NoTag /\ calling[l] \in Waiters
    BY Zenon, <1>3, <2>1 DEF CallInv, Registering, TagInv
  <2>3. calling[l] \in Holding(l)
    <3>1. 0 # PARKED + 1
      BY DEF WaiterListAssumption
    <3>. QED
      BY Zenon, <1>3, <2>1, <2>2, <3>1 DEF RecordProvesEntry, Holding
  <2>4. P' = P /\ Holding(l) = Holding(l) \cup {calling[l]}
    BY <1>4, <2>1, <2>3
  <2>5. P' = [P EXCEPT ![l] = Holding(l) \cup {calling[l]}]
    <3>1. P = [P EXCEPT ![l] = Holding(l)]
      BY Zenon DEF P
    <3>. QED
      BY Zenon, <2>4, <3>1
  <2>. QED
    BY Zenon, <1>7, <2>1, <2>5
<1>10. ASSUME NEW l \in Lists, Emptied(l), woken' = woken \cup Holding(l)
       PROVE  Abstract!Drain(l)
  <2>1. /\ calling[l] = Nobody /\ calling' = calling /\ held' = held
        /\ entries' = [entries EXCEPT ![l] = <<>>] /\ entries \in [Lists -> Seq(Waiters)]
    BY Zenon, <1>3, <1>10 DEF Emptied, WTypes
  <2>2. entries'[l] = <<>> /\ \A m \in Lists : m # l => entries'[m] = entries[m]
    BY Zenon, <2>1
  <2>3. \A x : Live(x)' <=> Live(x)
    BY Zenon, <2>1, SameHeld
  <2>4. Holding(l)' = {}
    BY <2>2 DEF Holding, Range
  <2>5. ASSUME NEW m \in Lists, m # l PROVE Holding(m)' = Holding(m)
    BY Zenon, <2>2, <2>3, <2>5 DEF Holding
  <2>6. P' = [P EXCEPT ![l] = {}] /\ woken' = woken \cup P[l]
    BY Zenon, <1>2, <1>10, <2>4, <2>5, HoldingAt DEF P
  <2>. QED
    BY Zenon, <1>1, <2>1, <2>6 DEF Abstract!Drain
<1>11. ASSUME NEW l \in Lists, TakeAndWake(l) \/ Clear(l)
       PROVE  Abstract!Drain(l)
  <2>1. CASE TakeAndWake(l)
    BY Zenon, <1>10, <2>1 DEF TakeAndWake, Holding
  <2>2. CASE Clear(l)
    <3>1. Holding(l) = {}
      BY Zenon, <2>2 DEF Clear, Holding
    <3>2. woken' = woken \cup Holding(l)
      BY <2>2, <3>1 DEF Clear
    <3>. QED
      BY Zenon, <1>10, <2>2, <3>2 DEF Clear
  <2>. QED
    BY Zenon, <1>11, <2>1, <2>2
<1>12. ASSUME NEW t \in Tasks, HoldSame(t)
       PROVE  Abstract!Look(held[t])
  <2>1. P' = P /\ calling' = calling /\ woken' = woken \ {held[t]}
    BY Zenon, <1>4, <1>12 DEF HoldSame, listVars
  <2>. QED
    BY Zenon, <1>1, <2>1 DEF Abstract!Look
<1>13. ASSUME NEW t \in Tasks, NEW w \in Waiters, HoldFresh(t, w)
       PROVE  Abstract!Leave(held[t])
  <2>1. /\ ~Live(w) /\ ~Referred(w) /\ \A l \in Lists : calling[l] # held[t]
        /\ held' = [held EXCEPT ![t] = w] /\ entries' = entries /\ calling' = calling
        /\ woken' = woken \ {held[t]} /\ held \in [Tasks -> Waiters]
    BY Zenon, <1>3, <1>13 DEF HoldFresh, listVars, WTypes
  <2>2. held'[t] = w /\ \A u \in Tasks : u # t => held'[u] = held[u]
    BY Zenon, <2>1
  <2>3. \A x : Live(x)' <=> x = w \/ (Live(x) /\ x # held[t])
    <3>1. \A u \in Tasks : held[u] # w /\ (u # t => held[u] # held[t])
      BY Zenon, <1>3, <2>1 DEF Live, HeldInv
    <3>. QED
      BY Zenon, <2>2, <3>1 DEF Live
  <2>4. ASSUME NEW m \in Lists PROVE Holding(m)' = P[m] \ {held[t]}
    <3>1. w \notin Range(entries[m])
      BY Zenon, <2>1 DEF Referred
    <3>2. \A x : x \in Holding(m) \ {held[t]} <=> x \in Range(entries'[m]) /\ Live(x)'
      BY <2>1, <2>3, <3>1 DEF Holding
    <3>. QED
      BY Zenon, <1>2, <3>2, HoldingIs
  <2>5. P' = [m \in Lists |-> P[m] \ {held[t]}]
    BY Zenon, <2>4 DEF P
  <2>. QED
    BY Zenon, <1>1, <2>1, <2>5 DEF Abstract!Leave
<1>14. CASE UNCHANGED vars
  <2>1. P' = P /\ UNCHANGED <<calling, woken>>
    BY Zenon, <1>4, <1>14 DEF vars, listVars
  <2>. QED
    BY Zenon, <1>1, <2>1 DEF Abstract!regVars
<1>15. \A t \in Tasks : held[t] \in Waiters
  BY Zenon, <1>3 DEF WTypes
<1>. QED
  BY Zenon, <1>5, <1>6, <1>8, <1>9, <1>11, <1>12, <1>13, <1>14, <1>15 DEF Next, Abstract!RegNext

\* A waiter at most once in a list is counted at most once.
LEMMA SingleCounted == ASSUME Counting, SingleInv PROVE NoDuplicates
<1>1. ASSUME NEW s, NEW w, Once(s, w)
      PROVE  Cardinality({i \in DOMAIN s : s[i] = w}) <= 1
  BY Zenon, <1>1 DEF Counting, Once
<1>. QED
  BY Zenon, <1>1 DEF SingleInv, NoDuplicates

-----------------------------------------------------------------------------
(* The theorems.                                                           *)

INSTANCE FiniteSetTheorems

\* What the library has on numbers and sizes.
LEMMA Counts == Counting
<1>1. ASSUME NEW S \in SUBSET Nat, S # {} PROVE \E m \in S : \A k \in S : m <= k
  <2>1. PICK m \in S : \A k \in S : <<k, m>> \notin OpToRel(<, Nat)
    BY Zenon, <1>1, NatLessThanWellFounded, WFMin
  <2>2. \A k \in S : ~(k < m)
    BY Zenon, <2>1 DEF OpToRel
  <2>. QED
    BY <2>2
<1>2. ASSUME NEW S, \A x, y \in S : x = y PROVE Cardinality(S) <= 1
  <2>1. CASE S = {}
    BY <2>1, FS_EmptySet
  <2>2. CASE S # {}
    <3>1. PICK x : x \in S
      BY Zenon, <2>2
    <3>2. S = {x}
      BY <1>2, <3>1
    <3>3. Cardinality({x}) = 1
      BY FS_Singleton
    <3>. QED
      BY <3>2, <3>3
  <2>. QED
    BY Zenon, <2>1, <2>2
<1>. QED
  BY Zenon, <1>1, <1>2 DEF Counting

\* The inductive invariant of a list holds in every state.
THEOREM ListInvariance == Spec => []ListInv
<1>1. Init => ListInv
  BY Zenon, WaiterListAssumption, ListInit
<1>2. ListInv /\ [Next]_vars => ListInv'
  BY Zenon, WaiterListAssumption, Counts, ListStep
<1>. QED
  BY <1>1, <1>2, PTL DEF Spec

\* A record of a list's current tag proves the entry (Waiter::record, Waiter::holds).
THEOREM RecordSafety == Spec => []RecordProvesEntry
<1>1. ListInv => RecordProvesEntry
  BY Zenon DEF ListInv
<1>. QED
  BY <1>1, ListInvariance, PTL

\* A waiter that lost no record is once in every list that holds it, and recorded there
\* (Waiter::reusable).
THEOREM SingleSafety == Spec => []NoDuplicates
<1>1. ListInv => NoDuplicates
  BY Zenon, Counts, SingleCounted DEF ListInv
<1>. QED
  BY <1>1, ListInvariance, PTL

\* A list implements the registry: a registration that returned has parked its waiter, a
\* drain wakes everyone parked, and nothing else loses one (WaiterList::register, take,
\* clear, Park::hold).
THEOREM Refinement == Spec => ImplementsRegistry
<1>1. Init => Abstract!RegInit
  <2>1. ASSUME Init PROVE Abstract!RegInit
    <3>1. /\ entries = [l \in Lists |-> <<>>] /\ calling = [l \in Lists |-> Nobody] /\ woken = {}
      BY Zenon, <2>1 DEF Init
    <3>2. \A l \in Lists : {w \in Range(entries[l]) : Live(w)} = {}
      BY <3>1 DEF Range
    <3>3. [l \in Lists |-> {w \in Range(entries[l]) : Live(w)}] = [l \in Lists |-> {}]
      BY Zenon, <3>2
    <3>. QED
      BY Zenon, <3>1, <3>3 DEF Abstract!RegInit
  <2>. QED
    BY Zenon, <2>1
<1>2. ListInv /\ [Next]_vars => [Abstract!RegNext]_(Abstract!regVars)
  BY Zenon, WaiterListAssumption, Counts, RegistryStep
<1>. QED
  BY <1>1, <1>2, ListInvariance, PTL DEF Spec, ImplementsRegistry, Abstract!RegSpec

=============================================================================
